--------------------------- MODULE UsbWriteProofs ---------------------------
(***************************************************************************)
(* DiskWriter implements the safety part of UsbWrite, for every set of     *)
(* requests for images without a stub: the drive is the user's until a     *)
(* write begins and never again afterwards, and only an image on it is     *)
(* reported as success.                                                    *)
(***************************************************************************)
EXTENDS DiskWriterProofs

USE DEF Volume, Disk, IsoVolume, Part, Place, TempPlace, PMControl

(* The owner's data is untouched; then nothing was formatted or written.   *)
Intact == \A p \in Part : Whole(p, "userdata")

IntactInv == Intact => raw = {} /\ \A p \in Part : fs[p] = "old"

(* What the copy, wimlib and grub put on the drive is not the user's.      *)
Installable == File \cup {swm, "boot/grub"}

ContentStep ==
  \/ content' = content
  \/ \E p \in Part : content'[p] = {}
  \/ \E ms : RemoveTempDir(ms)
  \/ \E p \in Part, f \in Installable, state \in {"whole", "cut"} : content' = Put(p, f, state)

(* The ways in which the files on the drive change.                        *)
LEMMA ContentSteps ==
  ASSUME DWTypes, [DWNext]_vars
  PROVE  /\ ContentStep
         /\ fs' = fs \/ \E p \in Part : content'[p] = {}
         /\ raw' = {} \/ raw' \subseteq raw \/ \E p \in Part : content'[p] = {}
         /\ table' \in {table, <<>>, NewTable}
<1>1. /\ swm \in Installable /\ "boot/grub" \in Installable /\ EfiBootFile \in Installable
      /\ File \subseteq Installable
  BY DEF Installable, File
<1>7. dataPartition \in Part /\ DOMAIN req.tree \subseteq File /\ (exists(wimSrc) => wimSrc \in DOMAIN req.tree)
  BY RequestFacts DEF DWTypes
<1>8. exists(wimSrc) => wimSrc \in Installable
  BY <1>1, <1>7
<1>9. todo \subseteq Installable /\ (pc \in {"copyFile", "copyWim"} => cur \in Installable)
  BY <1>1 DEF DWTypes, DWTypeOK
<1>10. /\ content' = content => ContentStep
       /\ (\E ms : RemoveTempDir(ms)) => ContentStep
       /\ \A p \in Part, f \in Installable, state \in {"whole", "cut"} : content' = Put(p, f, state) => ContentStep
  BY DEF ContentStep
<1> DEFINE Below ==
             /\ fs' = fs /\ table' = table
             /\ raw' = {} \/ raw' \subseteq raw
<1>2. CASE \/ StartWrite \/ configUnreadable \/ writeIsoMode \/ writeDdMode \/ ddReturns \/ mountTarget \/ copyDirReturns
           \/ unmountTarget \/ mountEfi \/ mountBoot \/ umountBoot \/ diskPrepared \/ mountIso
           \/ splitWimLib \/ fallbackSplit \/ unmountIso \/ writeReturns
  <2>1. ContentStep
    BY <1>2 DEF StartWrite, configUnreadable, writeIsoMode, writeDdMode, ddReturns, mountTarget,
       copyDirReturns, unmountTarget, mountEfi, mountBoot, umountBoot, diskPrepared, mountIso, splitWimLib,
       fallbackSplit, unmountIso, writeReturns, SplitEnds, FailCopy, Fail, hostVars, ContentStep
  <2>2. Below
    BY <1>2 DEF StartWrite, configUnreadable, writeIsoMode, writeDdMode, ddReturns, mountTarget,
       copyDirReturns, unmountTarget, mountEfi, mountBoot, umountBoot, diskPrepared, mountIso, splitWimLib,
       fallbackSplit, unmountIso, writeReturns, SplitEnds, FailCopy, Fail, Leave, Step, Goto, hostVars
  <2> QED
    BY <2>1, <2>2
<1>3. CASE PMStep /\ UNCHANGED dwVars
  <2>1. CASE formatPartition
    <3>1. \/ fs' = fs /\ content' = content
          \/ Len(partitions) + 1 \in Part /\ content' = Erased(Len(partitions) + 1)
      BY <2>1 DEF formatPartition, DWTypes, DWTypeOK, PMTypeOK, HostTypeOK
    <3>2. \A p \in Part : Erased(p)[p] = {}
      BY DEF Erased, DWTypes, DWTypeOK, PMTypeOK, HostTypeOK
    <3>3. table' = table /\ raw' = raw
      BY <1>3, <2>1 DEF formatPartition, dwVars
    <3> QED
      BY <3>1, <3>2, <3>3 DEF ContentStep
  <2>2. CASE unmountAll \/ unmountAllReturns \/ wipeDisk \/ partitionDisk
    BY <1>3, <2>2 DEF unmountAll, unmountAllReturns, wipeDisk, partitionDisk, hostVars, dwVars, ContentStep
  <2> QED
    BY <1>3, <2>1, <2>2 DEF PMStep
<1>4. CASE ddWriteChunk \/ ddFails
  <2>1. /\ content'[1] = {} \/ (content' = content /\ raw' = raw)
        /\ fs' = fs /\ table' = table
    BY <1>4 DEF ddWriteChunk, ddFails, Overwritten, Leave
  <2> QED
    BY <2>1 DEF ContentStep
<1>5. CASE copyDirRecursive \/ copyFileChunked \/ copyWim \/ handleWim \/ copyEfi \/ installGrubBios
  <2>1. ASSUME copyDirRecursive PROVE ContentStep
    <3>1. \/ content' = content \/ \E ms : RemoveTempDir(ms)
          \/ \E f \in todo : content' = Put(dataPartition, f, "cut")
      BY <2>1 DEF copyDirRecursive, FailCopy, Fail
    <3> QED
      BY <1>7, <1>9, <1>10, <3>1
  <2>2. ASSUME copyFileChunked \/ copyWim PROVE ContentStep
    <3>1. /\ \/ content' = content \/ \E ms : RemoveTempDir(ms)
             \/ content' = Put(dataPartition, cur, "whole") \/ content' = Put(dataPartition, swm, "cut")
          /\ pc \in {"copyFile", "copyWim"}
      BY <2>2 DEF copyFileChunked, copyWim, ChunksCopied, FailCopy, Fail
    <3> QED
      BY <1>1, <1>7, <1>9, <1>10, <3>1
  <2>3. ASSUME handleWim PROVE ContentStep
    <3>1. \/ content' = content \/ \E ms : RemoveTempDir(ms)
          \/ exists(wimSrc) /\ content' = Put(dataPartition, wimSrc, "cut")
          \/ content' = Put(dataPartition, swm, "cut")
      BY <2>3 DEF handleWim, Fail
    <3> QED
      BY <1>1, <1>7, <1>8, <1>10, <3>1
  <2>4. ASSUME copyEfi \/ installGrubBios PROVE ContentStep
    <3>1. \/ content' = content
          \/ \E f \in {"boot/grub", EfiBootFile}, state \in {"whole", "cut"} : content' = Put(1, f, state)
      BY <2>4 DEF copyEfi, installGrubBios
    <3> QED
      BY <1>1, <1>10, <3>1
  <2>5. ContentStep
    BY <1>5, <2>1, <2>2, <2>3, <2>4
  <2>6. Below
    BY <1>5 DEF copyDirRecursive, copyFileChunked, copyWim, handleWim, copyEfi, installGrubBios,
                FailCopy, Fail, Leave, Step, Goto
  <2> QED
    BY <2>5, <2>6
<1>6. CASE Environment \/ UNCHANGED vars
  <2>1. ContentStep
    BY <1>1, <1>6, <1>7 DEF Environment, WimlibFinishes, cancel, Kill, WriteBack, DesktopMount, vars, hostVars,
                      ContentStep
  <2>2. Below
    BY <1>6 DEF Environment, WimlibFinishes, cancel, Kill, Leave, WriteBack, DesktopMount, vars, hostVars,
                dwVars
  <2> QED
    BY <2>1, <2>2
<1> QED
  BY <1>2, <1>3, <1>4, <1>5, <1>6 DEF DWNext, Backend

(* The user's data does not come back, nor does the old partition table.   *)
LEMMA DataOnlyLeaves ==
  ASSUME DWTypes, IntactInv, [DWNext]_vars
  PROVE  /\ Intact' => Intact /\ raw' = {} /\ fs' = fs
         /\ table' = OldTable => table = OldTable
         /\ IntactInv'
<1>1. content \in Contents
  BY DEF DWTypes, DWTypeOK, PMTypeOK, HostTypeOK, Contents
<1>2. ASSUME Intact' PROVE Intact /\ raw' = {} /\ fs' = fs
  <2>1. \A p \in Part : <<"userdata", "whole">> \in content'[p]
    BY <1>2 DEF Intact, Whole
  <2>2. \A f \in Installable : f # "userdata" /\ f \in FileName
    BY DEF Installable, FileName, File, InstallFile, BootWim, EfiBootFile, LiveFile, swm
  <2>3. ASSUME NEW q \in Part PROVE <<"userdata", "whole">> \in content[q]
    <3>1. CASE content' = content
      BY <2>1, <3>1
    <3>2. ASSUME NEW ms, RemoveTempDir(ms) PROVE <<"userdata", "whole">> \in content[q]
      BY <2>1, <3>2 DEF RemoveTempDir
    <3>3. ASSUME NEW p \in Part, NEW f \in Installable, NEW state \in {"whole", "cut"},
                 content' = Put(p, f, state)
          PROVE  <<"userdata", "whole">> \in content[q]
      <4>1. content'[q] = content[q] \/ content'[q] = {e \in content[q] : e[1] # f} \cup {<<f, state>>}
        BY <1>1, <2>2, <3>3, PutFacts
      <4> QED
        BY <2>1, <2>2, <4>1
    <3> QED
      BY <2>1, <3>1, <3>2, <3>3, ContentSteps DEF ContentStep
  <2>4. Intact
    BY <2>3 DEF Intact, Whole
  <2> QED
    BY <2>1, <2>4, ContentSteps DEF IntactInv
<1>3. table' = OldTable => table = OldTable
  <2>1. NewTable # OldTable /\ <<>> # OldTable
    <3>1. config.filesystem \in FileSystem
      BY DEF DWTypes, DWTypeOK, PMTypeOK, PartitionConfig
    <3>2. MbrType[config.filesystem] # "old"
      BY <3>1 DEF MbrType, FileSystem
    <3>3. NewTable[1] # "old"
      BY <3>2 DEF NewTable, partitionGPT, partitionMBR
    <3> QED
      BY <3>3 DEF OldTable
  <2> QED
    BY <2>1, ContentSteps
<1> QED
  BY <1>2, <1>3 DEF IntactInv

(* The drive is the user's as long as nothing has happened to it.          *)
LEMMA UserMeansIntact ==
  ASSUME DWTypes, IntactInv, Intact
  PROVE  ~ImageOnDrive
<1>1. raw = {} /\ fs[dataPartition] = "old" /\ config.filesystem \in FileSystem
  BY RequestFacts DEF IntactInv, DWTypes, DWTypeOK, PMTypeOK, PartitionConfig
<1>2. 1 \in 1..Chunks
  BY DWAssumption
<1> QED
  BY <1>1, <1>2 DEF ImageOnDrive, Holds, FileSystem

(* A return, and a kill, put nothing on the drive.                         *)
LEMMA EndingAdds ==
  ASSUME DWTypes, pc # "idle", pc' = "idle", Backend \/ Kill
  PROVE  /\ UNCHANGED <<table, fs, config, req, raw>>
         /\ \A p \in Part : content'[p] \subseteq content[p]
         /\ result' \in {"ok", "failed", "killed"}
<1>1. ASSUME NEW ms, RemoveTempDir(ms)
      PROVE  \A p \in Part : content'[p] \subseteq content[p]
  BY <1>1 DEF RemoveTempDir
<1>2. CASE Kill \/ configUnreadable \/ writeDdMode \/ ddFails \/ ddReturns
  BY <1>2 DEF Kill, configUnreadable, writeDdMode, ddFails, Overwritten, ddReturns, Leave, hostVars
<1>3. CASE \/ diskPrepared \/ mountIso \/ mountTarget \/ copyDirRecursive \/ copyDirReturns
           \/ copyFileChunked \/ handleWim \/ copyWim \/ splitWimLib \/ fallbackSplit \/ unmountIso
           \/ writeReturns
  <2>1. \E ms, outcome : RemoveTempDir(ms) /\ Leave(outcome) /\ outcome \in {"ok", "failed"}
    BY <1>3 DEF diskPrepared, mountIso, mountTarget, copyDirRecursive, copyDirReturns, copyFileChunked,
       handleWim, copyWim, splitWimLib, fallbackSplit, unmountIso, writeReturns, SplitEnds, FailCopy, Fail,
       Step, Goto
  <2> QED
    BY <1>1, <2>1 DEF Leave
<1>4. CASE \/ writeIsoMode \/ ddWriteChunk \/ PMStep \/ unmountTarget \/ mountEfi \/ copyEfi
           \/ mountBoot \/ installGrubBios \/ umountBoot
  BY <1>4 DEF writeIsoMode, StartPrepare, ddWriteChunk, pmVars, PMStep, unmountAll, unmountAllReturns,
     wipeDisk, partitionDisk, formatPartition, PrepareFails, unmountTarget, mountEfi, copyEfi, mountBoot,
     installGrubBios, umountBoot, Step, Goto
<1> QED
  BY <1>2, <1>3, <1>4 DEF Backend

(* Success is read off a drive that has held the image already.            *)
LEMMA SuccessSees ==
  ASSUME WholeListed, DWTypes, CompleteInv, ShownInv, Backend, pc' = "idle", result' = "ok"
  PROVE  ImageOnDrive
<1>1. CASE writeReturns
  <2>1. Copied /\ shown \in ImageViews
    BY <1>1 DEF writeReturns, CompleteInv, ShownInv, Looking, OnDisk, Installed
  <2> QED
    BY <2>1, CopiedIsWhole
<1>2. CASE ddReturns
  <2>1. raw = 1..chunk /\ req.mode = "DD" /\ chunk \in 0..Chunks /\ ~(chunk < Chunks)
    BY <1>2 DEF ddReturns, MoreChunks, CompleteInv, DWTypes, DWTypeOK
  <2>2. chunk = Chunks
    BY <2>1, DWAssumption
  <2> QED
    BY <2>1, <2>2 DEF ImageOnDrive, Holds
<1> QED
  BY <1>1, <1>2, SuccessReturns

(* What the drive is to the user, before and after a step.                 *)
LEMMA DriveFacts ==
  ASSUME DWTypes, IntactInv, [DWNext]_vars
  PROVE  /\ Drive' = "user" => Drive = "user"
         /\ Drive' \in {"user", "scratch", "image"} /\ Drive \in {"user", "scratch", "image"}
         /\ Drive = "image" <=> ImageOnDrive
         /\ Drive' = "image" <=> ImageOnDrive'
<1>1. ASSUME Drive' = "user" PROVE Drive = "user"
  <2>1. table' = OldTable /\ Intact'
    BY <1>1 DEF Drive, Intact
  <2>2. table = OldTable /\ Intact /\ raw = {}
    BY <2>1, DataOnlyLeaves DEF IntactInv
  <2> QED
    BY <2>2, UserMeansIntact DEF Drive, Intact
<1> QED
  BY <1>1 DEF Drive

(* Every step is one that the user has been promised, or none at all.      *)
LEMMA StepImplements ==
  ASSUME WholeListed, DWTypes, CompleteInv, ShownInv, IntactInv, SuccessMeansComplete', [DWNext]_vars
  PROVE  [UW!Next]_(UW!uwVars)
<1>1. CASE pc # "idle" /\ pc' # "idle"
  <2>1. Outcome = "pending" /\ Outcome' = "pending"
    BY <1>1 DEF Outcome
  <2>2. Drive' = Drive \/ Drive' \in {"scratch", "image"}
    BY DriveFacts
  <2> QED
    BY <2>1, <2>2 DEF UW!Next, UW!Destroy, UW!Finish, UW!uwVars
<1>2. CASE pc # "idle" /\ pc' = "idle"
  <2>1. Backend \/ Kill
    BY <1>2 DEF DWNext, StartWrite, Environment, WimlibFinishes, cancel, pmVars, WriteBack, vars
  <2>2. Outcome = "pending"
    BY <1>2 DEF Outcome
  <2>3. CASE result' = "ok"
    <3>1. Backend
      BY <2>1, <2>3 DEF Kill, Leave
    <3>2. ImageOnDrive /\ ImageOnDrive'
      BY <1>2, <2>3, <3>1, SuccessSees DEF SuccessMeansComplete
    <3>3. Drive = "image" /\ Drive' = "image" /\ Outcome' = "ok"
      BY <1>2, <2>3, <3>2 DEF Drive, Outcome
    <3> QED
      BY <2>2, <3>3 DEF UW!Next, UW!Succeed
  <2>4. CASE result' # "ok"
    <3>1. Outcome' = "failed"
      BY <1>2, <2>1, <2>4, EndingAdds DEF Outcome
    <3>2. ImageOnDrive' => ImageOnDrive
      <4>1. /\ UNCHANGED <<table, fs, config, req, raw>>
            /\ \A p \in Part : content'[p] \subseteq content[p]
        BY <1>2, <2>1, EndingAdds
      <4>2. dataPartition' = dataPartition /\ dataPartition \in Part /\ \A f : InImage(f)' = InImage(f)
        BY <4>1, RequestFacts DEF dataPartition, dualPartition, isWindows, InImage, DWTypes
      <4>3. \A f : Whole(dataPartition, f)' => Whole(dataPartition, f)
        BY <4>1, <4>2 DEF Whole
      <4> QED
        BY <4>1, <4>2, <4>3 DEF ImageOnDrive, Holds, Delivered
    <3>3. Drive' \in {Drive, "scratch"}
      BY <3>2, DriveFacts
    <3> QED
      BY <2>2, <3>1, <3>3 DEF UW!Next, UW!GiveUp
  <2> QED
    BY <2>3, <2>4
<1>3. CASE StartWrite
  <2>1. Outcome # "pending" /\ Outcome' = "pending"
    BY <1>3 DEF StartWrite, Outcome, DWTypes, DWTypeOK
  <2>2. ASSUME Drive = "user" PROVE Drive' = "user"
    <3>1. table = OldTable /\ Intact
      BY <2>2 DEF Drive, Intact
    <3>2. /\ fs = [p \in Part |-> "old"] /\ UNCHANGED <<table, fs, content, config>> /\ raw' = {}
          /\ config.filesystem \in FileSystem
      BY <1>3, <3>1 DEF StartWrite, hostVars, IntactInv, DWTypes, DWTypeOK, PMTypeOK, HostTypeOK,
                        PartitionConfig
    <3>3. ~ImageOnDrive'
      <4>1. fs'[dataPartition'] = "old"
        BY <3>2 DEF dataPartition
      <4>2. 1 \in 1..Chunks
        BY DWAssumption
      <4> QED
        BY <3>2, <4>1, <4>2 DEF ImageOnDrive, Holds, FileSystem
    <3>4. table' = OldTable /\ (\A p \in Part : Whole(p, "userdata")') /\ raw' = {}
      BY <3>1, <3>2 DEF Intact, Whole
    <3> QED
      BY <3>3, <3>4 DEF Drive
  <2>3. Drive' \in IF Drive = "user" THEN {"user"} ELSE {"scratch", "image"}
    BY <2>2, DriveFacts
  <2> QED
    BY <2>1, <2>3 DEF UW!Next, UW!Begin
<1>4. CASE pc = "idle" /\ ~StartWrite
  <2>1. Environment \/ UNCHANGED vars
    BY <1>4 DEF DWNext, Backend, configUnreadable, writeIsoMode, writeDdMode, ddWriteChunk, ddFails, ddReturns, PMStep,
       unmountAll, unmountAllReturns, wipeDisk, partitionDisk, formatPartition, diskPrepared, mountIso,
       mountTarget, copyDirRecursive, copyDirReturns, copyFileChunked, handleWim, copyWim, splitWimLib,
       fallbackSplit, unmountIso, unmountTarget, mountEfi, copyEfi, mountBoot, installGrubBios, umountBoot,
       writeReturns
  <2>2. UNCHANGED <<content, table, fs, config, req, raw, pc, result>>
    BY <1>4, <2>1 DEF Environment, WimlibFinishes, Splitting, cancel, Kill, WriteBack, DesktopMount, vars,
                      hostVars, pmVars, dwVars
  <2>3. Drive' = Drive /\ Outcome' = Outcome
    BY <2>2 DEF Drive, Outcome, ImageOnDrive, Holds, Delivered, Whole, dataPartition, dualPartition,
                isWindows, InImage
  <2> QED
    BY <2>3 DEF UW!uwVars
<1>5. pc = "idle" \/ pc # "idle"
  OBVIOUS
<1> QED
  BY <1>1, <1>2, <1>3, <1>4, <1>5 DEF StartWrite

(* Whatever the host does within these assumptions, a write of an image    *)
(* that has no stub keeps to what the user was promised (write,            *)
(* disk_writer.cpp, as runBackend calls it).                               *)
THEOREM KeepsThePromise ==
  ASSUME Faults \cap {"umountError", "mountLate", "writeBack", "flushLost"} = {}, OneInstaller,
         WholeListed
  PROVE  DWSpec => UW!Safety
<1>1. DWInit => MountInv /\ PrepareInv /\ CompleteInv /\ ShownInv
  BY DEF DWInit, HostInit, MountInv, PrepareInv, CompleteInv, ShownInv, Looking, OnDisk, Installed
<1>2. DWInit => IntactInv
  BY DEF DWInit, HostInit, IntactInv
<1>3. DWInit => UW!Init
  <2> SUFFICES ASSUME DWInit PROVE UW!Init
    OBVIOUS
  <2>1. DWTypes /\ IntactInv /\ Intact
    BY <1>2, TypesInit DEF DWInit, HostInit, Intact, Whole
  <2>2. ~ImageOnDrive
    BY <2>1, UserMeansIntact
  <2>3. Drive = "user" /\ Outcome = "idle"
    BY <2>1, <2>2 DEF DWInit, HostInit, Drive, Outcome, Intact
  <2> QED
    BY <2>3 DEF UW!Init
<1>4. Faults \cap {"umountError", "mountLate"} = {}
  OBVIOUS
<1>5. ASSUME DWTypes, IntactInv, [DWNext]_vars PROVE IntactInv'
  BY <1>5, DataOnlyLeaves
<1> QED
  BY <1>1, <1>2, <1>3, <1>4, <1>5, TypesInit, TypesNext, MountNext, PrepareNext, CompleteNext, ShownNext,
     SuccessIsComplete, StepImplements, PTL DEF DWSpec, UW!Safety
=============================================================================
