-------------------------- MODULE DiskWriterProofs --------------------------
(***************************************************************************)
(* A write that fails says why, for every set of requests, every number of *)
(* chunks and of runs, and every misbehaviour of the host.                 *)
(***************************************************************************)
EXTENDS DiskWriter, PartitionManagerProofs

(* No error has been reported on the way to a point from which write can   *)
(* still succeed, and no command of consequence has failed for good.       *)
NoError ==
  /\ ~reported /\ "wipefs" \notin errorLines
  /\ "mkfs" \in errorLines => config.filesystem \in RetriedFs

ReportInv ==
  /\ pc # "idle" => result = "none"
  /\ pc \notin {"idle", "prepared"} => NoError
  /\ (pc = "prepared" /\ partitions # <<>>) => NoError
  /\ pc = "entered" => "mkfs" \notin errorLines
  /\ FailureReported

(* Before the first write there is no result to report.                    *)
LEMMA ReportInit == DWInit => ReportInv
BY DEF DWInit, ReportInv, NoError, FailureReported

(* Within write, a step that goes on and one that gives up.                *)
LEMMA GotoKeeps ==
  ASSUME ReportInv, pc \notin {"idle", "prepared"}, NEW next, next # "entered", Goto(next)
  PROVE  ReportInv'
BY DEF Goto, ReportInv, NoError, FailureReported

LEMMA StepKeeps ==
  ASSUME ReportInv, pc \notin {"idle", "prepared"}, NEW next, next # "entered", Step(next)
  PROVE  ReportInv'
BY GotoKeeps DEF Step

(* A return of false that has reported, or was cancelled, is in order.     *)
LEMMA GiveUpKeeps ==
  ASSUME Leave("failed"), reported' \/ cancelled
  PROVE  ReportInv'
BY DEF Leave, ReportInv, NoError, FailureReported

(* Fail with an error reports it.                                          *)
LEMMA FailKeeps ==
  ASSUME NEW places, NEW error, Fail(places, error), error \/ cancelled
  PROVE  ReportInv'
<1>1. Leave("failed") /\ (reported' \/ cancelled)
  BY DEF Fail
<1> QED
  BY <1>1, GiveUpKeeps

(* A failed copy reports unless it was cancelled.                          *)
LEMMA FailCopyKeeps ==
  ASSUME FailCopy
  PROVE  ReportInv'
<1>1. Leave("failed") /\ (reported' \/ cancelled)
  BY DEF FailCopy, Fail
<1> QED
  BY <1>1, GiveUpKeeps

(* A write that returns true has come by no error.                         *)
LEMMA SucceedKeeps ==
  ASSUME ReportInv, pc \notin {"idle", "prepared"}, Leave("ok"), reported' = reported
  PROVE  ReportInv'
BY DEF Leave, ReportInv, NoError, FailureReported

(* prepareDisk reports, or returns no nodes, which its caller reports.     *)
LEMMA PMStepKeeps ==
  ASSUME ReportInv, PMStep, UNCHANGED dwVars
  PROVE  ReportInv'
<1>1. pc \in {"unmountAll", "wipeDisk", "partitionDisk", "format"}
  BY DEF PMStep, unmountAll, unmountAllReturns, wipeDisk, partitionDisk, formatPartition
<1>2. result' = result /\ result = "none" /\ NoError /\ config' = config
  BY <1>1 DEF ReportInv, dwVars, PMStep, unmountAll, unmountAllReturns, wipeDisk, partitionDisk,
              formatPartition
<1>3. ASSUME PrepareFails PROVE ReportInv'
  BY <1>2, <1>3 DEF PrepareFails, ReportInv, FailureReported
<1>4. CASE unmountAll
  BY <1>2, <1>4 DEF unmountAll, UmountVolume, MayPrint, Prints, ReportInv, NoError, FailureReported
<1>5. CASE unmountAllReturns
  BY <1>2, <1>3, <1>5 DEF unmountAllReturns, ReportInv, NoError, FailureReported
<1>6. CASE wipeDisk
  BY <1>2, <1>3, <1>6 DEF wipeDisk, ReportInv, NoError, FailureReported
<1>7. CASE partitionDisk
  BY <1>2, <1>3, <1>7 DEF partitionDisk, MayPrint, Prints, ReportInv, NoError, FailureReported
(* mkfs prints where it has a second attempt.  Partition 1 of a dual       *)
(* layout is FAT32, which has none.                                        *)
<1>8. CASE formatPartition
  <2>1. \A p : AskedFs(p) \in RetriedFs => config.filesystem \in RetriedFs
    BY DEF AskedFs, RetriedFs
  <2> QED
    BY <1>2, <1>3, <1>8, <2>1 DEF formatPartition, Prints, ReportInv, NoError, FailureReported
<1> QED
  BY <1>4, <1>5, <1>6, <1>7, <1>8 DEF PMStep

(* Every step of the backend thread.                                       *)
LEMMA BackendKeeps ==
  ASSUME ReportInv, Backend
  PROVE  ReportInv'
<1>0. CASE configUnreadable
  BY <1>0, GiveUpKeeps DEF configUnreadable
<1>1. CASE writeIsoMode
  BY <1>1 DEF writeIsoMode, StartPrepare, ReportInv, NoError, FailureReported
<1>2. CASE writeDdMode
  BY <1>2 DEF writeDdMode, ReportInv, NoError, FailureReported
<1>3. CASE ddWriteChunk
  BY <1>3 DEF ddWriteChunk, pmVars, ReportInv, NoError, FailureReported
<1>4. CASE ddFails
  BY <1>4, GiveUpKeeps DEF ddFails
<1>5. CASE ddReturns
  BY <1>5, SucceedKeeps DEF ddReturns
<1>6. CASE PMStep /\ UNCHANGED dwVars
  BY <1>6, PMStepKeeps
<1>7. CASE diskPrepared
  <2>1. CASE partitions # <<>> /\ Step("mountIso")
    BY <1>7, <2>1 DEF diskPrepared, Step, Goto, ReportInv, NoError, FailureReported
  <2>2. CASE cancelled /\ Fail({}, FALSE)
    BY <2>2, FailKeeps
  <2>3. CASE Fail({}, TRUE)
    BY <2>3, FailKeeps
  <2> QED
    BY <1>7, <2>1, <2>2, <2>3 DEF diskPrepared
<1>8. CASE mountIso
  BY <1>8, GotoKeeps, GiveUpKeeps DEF mountIso
<1>9. CASE mountTarget
  BY <1>9, StepKeeps, GiveUpKeeps DEF mountTarget
<1>10. CASE copyDirRecursive
  BY <1>10, StepKeeps, FailCopyKeeps DEF copyDirRecursive
<1>11. CASE copyDirReturns
  BY <1>11, StepKeeps, FailCopyKeeps DEF copyDirReturns
<1>12. CASE copyFileChunked
  BY <1>12, StepKeeps, FailCopyKeeps DEF copyFileChunked
<1>13. CASE handleWim
  BY <1>13, StepKeeps, FailKeeps DEF handleWim
<1>14. CASE copyWim
  BY <1>14, StepKeeps, FailCopyKeeps DEF copyWim
<1>15. CASE splitWimLib
  BY <1>15, StepKeeps, GiveUpKeeps DEF splitWimLib, SplitEnds
<1>16. CASE fallbackSplit
  BY <1>16, StepKeeps, GiveUpKeeps DEF fallbackSplit, SplitEnds
<1>17. CASE unmountIso
  BY <1>17, StepKeeps, FailKeeps DEF unmountIso
<1>18. CASE unmountTarget \/ mountEfi \/ copyEfi \/ mountBoot \/ installGrubBios \/ umountBoot
  <2>1. pc \notin {"idle", "prepared"} /\ \E next : next # "entered" /\ Step(next)
    BY <1>18 DEF unmountTarget, mountEfi, copyEfi, mountBoot, installGrubBios, umountBoot
  <2> QED
    BY <2>1, StepKeeps
<1>19. CASE writeReturns
  BY <1>19, SucceedKeeps DEF writeReturns
<1> QED
  BY <1>1, <1>2, <1>3, <1>4, <1>5, <1>6, <1>7, <1>8, <1>9, <1>10, <1>11, <1>12, <1>13,
     <1>14, <1>15, <1>16, <1>17, <1>18, <1>19, <1>0 DEF Backend

(* Every step, those of the environment included.                          *)
LEMMA ReportNext ==
  ASSUME ReportInv, [DWNext]_vars
  PROVE  ReportInv'
<1>1. CASE StartWrite
  BY <1>1 DEF StartWrite, ReportInv, NoError, FailureReported
<1>2. CASE Backend
  BY <1>2, BackendKeeps
<1>3. CASE WimlibFinishes
  BY <1>3 DEF WimlibFinishes, dwVars, ReportInv, NoError, FailureReported
<1>4. CASE cancel
  BY <1>4 DEF cancel, pmVars, ReportInv, NoError, FailureReported
<1>5. CASE Kill
  BY <1>5 DEF Kill, Leave, ReportInv, NoError, FailureReported
<1>6. CASE WriteBack
  BY <1>6 DEF WriteBack, pmVars, ReportInv, NoError, FailureReported
<1>7. CASE DesktopMount /\ UNCHANGED <<pmVars, dwVars>>
  BY <1>7 DEF pmVars, dwVars, ReportInv, NoError, FailureReported
<1>8. CASE UNCHANGED vars
  BY <1>8 DEF vars, pmVars, dwVars, ReportInv, NoError, FailureReported
<1> QED
  BY <1>1, <1>2, <1>3, <1>4, <1>5, <1>6, <1>7, <1>8 DEF DWNext, Environment

(* Every path on which write returns false without having been cancelled   *)
(* has emitted errorOccurred, and none that returns true has; the ERROR:   *)
(* lines a success may show are those runCommand prints of umount, of      *)
(* partprobe, and of a mkfs that a second attempt has made good.           *)
THEOREM FailureReportedThm == DWSpec => []FailureReported
<1>1. ReportInv => FailureReported
  BY DEF ReportInv
<1> QED
  BY <1>1, ReportInit, ReportNext, PTL DEF DWSpec

-----------------------------------------------------------------------------
(* Types.  A copy is under way only of a file the image has.               *)

USE DEF Volume, Disk, IsoVolume, Part, Place, TempPlace, PMControl

MountTable == SUBSET (Volume \X Place)
Contents   == [Part -> SUBSET (FileName \X {"whole", "cut"})]

DWTypes ==
  /\ DWTypeOK
  /\ pc \in PMControl => FormatInv
  /\ pc \in {"copyFile", "copyWim"} => cur \in File

(* What write knows of its request.                                        *)
LEMMA RequestFacts ==
  ASSUME DWTypeOK
  PROVE  /\ req \in Request /\ DOMAIN req.tree \subseteq File
         /\ isWindows \in BOOLEAN /\ dualPartition \in BOOLEAN /\ dataPartition \in Part
         /\ req.iso9660 \subseteq DOMAIN req.tree
         /\ exists(wimSrc) => wimSrc \in DOMAIN req.tree
<1>1. req \in Request /\ req.iso9660 \subseteq DOMAIN req.tree
  BY DWAssumption DEF DWTypeOK
<1>2. PICK fs0 \in SUBSET File : req.tree \in [fs0 -> Size]
  BY <1>1 DEF Request
<1>3. req.dualPartition \in BOOLEAN
  BY <1>1 DEF Request
<1> QED
  BY <1>1, <1>2, <1>3 DEF isWindows, dualPartition, dataPartition, exists, InImage

(* Files are put into a partition without touching the others.             *)
LEMMA PutFacts ==
  ASSUME content \in Contents, NEW p \in Part, NEW f \in FileName, NEW state \in {"whole", "cut"}
  PROVE  /\ Put(p, f, state) \in Contents
         /\ \A q \in Part \ {p} : Put(p, f, state)[q] = content[q]
         /\ Put(p, f, state)[p] = {e \in content[p] : e[1] # f} \cup {<<f, state>>}
BY DEF Put, Contents

(* Mounting and unmounting keep to volumes and places.                     *)
LEMMA MountTypes ==
  ASSUME NEW ms \in MountTable
  PROVE  /\ \A v \in Volume, place \in Place :
              AfterMount(ms, v, place) \in MountTable /\ AfterFailedMount(ms, v, place) \subseteq MountTable
         /\ \A places : AfterUmount(ms, places) \subseteq MountTable
<1>1. \A v \in Volume, place \in Place : AfterMount(ms, v, place) \in MountTable
  BY DEF MountTable, AfterMount
<1>2. \A v \in Volume, place \in Place : AfterFailedMount(ms, v, place) \subseteq MountTable
  BY <1>1 DEF AfterFailedMount
<1>3. \A places : AfterUmount(ms, places) \subseteq MountTable
  BY DEF MountTable, AfterUmount
<1> QED
  BY <1>1, <1>2, <1>3

(* The temporary directory goes, with what it can delete.                  *)
LEMMA RemoveTypes ==
  ASSUME content \in Contents, NEW ms \in MountTable, RemoveTempDir(ms)
  PROVE  mounts' \in MountTable /\ content' \in Contents
<1>1. \A m \in ms : m[1] \in Volume
  BY DEF MountTable
<1>2. mounts' \in MountTable
  BY <1>1 DEF RemoveTempDir, TempMounts, MountTable
<1>3. content' \in Contents
  BY DEF RemoveTempDir, Contents
<1> QED
  BY <1>2, <1>3

(* A return from write.                                                    *)
LEMMA LeaveTypes ==
  ASSUME DWTypes, NEW outcome \in {"ok", "failed", "killed"}, Leave(outcome),
         mounts' \in MountTable, content' \in Contents,
         reported' \in BOOLEAN, wim' \in {"off", "running", "ok", "bad"}, UNCHANGED <<todo, cur>>
  PROVE  DWTypes'
<1>1. HostTypeOK'
  BY DEF Leave, DWTypes, DWTypeOK, PMTypeOK, HostTypeOK, MountTable, Contents
<1>2. PMTypeOK'
  BY <1>1 DEF Leave, DWTypes, DWTypeOK, PMTypeOK
<1>3. DWTypeOK'
  BY <1>2 DEF Leave, DWTypes, DWTypeOK, DWControl
<1> QED
  BY <1>3 DEF Leave, DWTypes

(* A return of false.                                                      *)
LEMMA FailTypes ==
  ASSUME DWTypes, NEW places, NEW error \in BOOLEAN, Fail(places, error)
  PROVE  DWTypes'
<1>1. mounts \in MountTable /\ content \in Contents
  BY DEF DWTypes, DWTypeOK, PMTypeOK, HostTypeOK, MountTable, Contents
<1>2. PICK ms \in AfterUmount(mounts, places) : RemoveTempDir(ms)
  BY DEF Fail
<1>3. mounts' \in MountTable /\ content' \in Contents
  BY <1>1, <1>2, MountTypes, RemoveTypes
<1>4. reported' \in BOOLEAN /\ wim' \in {"off", "running", "ok", "bad"}
  BY DEF Fail, DWTypes, DWTypeOK, PMTypeOK
<1> QED
  BY <1>3, <1>4, LeaveTypes DEF Fail

(* A step within write.                                                    *)
LEMMA GotoTypes ==
  ASSUME DWTypes, NEW next \in DWControl, Goto(next), shown' \subseteq File,
         mounts' \in MountTable, content' \in Contents, wim' \in {"off", "running", "ok", "bad"},
         todo' \subseteq File, cur' \in File \cup {"none"},
         next \in {"copyFile", "copyWim"} => cur' \in File
  PROVE  DWTypes'
<1>1. HostTypeOK'
  BY DEF Goto, DWTypes, DWTypeOK, PMTypeOK, HostTypeOK, MountTable, Contents
<1>2. PMTypeOK'
  BY <1>1 DEF Goto, DWTypes, DWTypeOK, PMTypeOK
<1>3. DWTypeOK'
  BY <1>2 DEF Goto, DWTypes, DWTypeOK
<1>4. pc' \notin PMControl
  BY DEF Goto, DWControl
<1> QED
  BY <1>3, <1>4 DEF Goto, DWTypes

LEMMA StepTypes ==
  ASSUME DWTypes, NEW next \in DWControl, Step(next),
         mounts' \in MountTable, content' \in Contents, wim' \in {"off", "running", "ok", "bad"},
         todo' \subseteq File, cur' \in File \cup {"none"},
         next \in {"copyFile", "copyWim"} => cur' \in File
  PROVE  DWTypes'
<1>1. Goto(next) /\ shown' \subseteq File
  BY DEF Step, DWTypes, DWTypeOK
<1> QED
  BY <1>1, GotoTypes

(* The part of write that copies, with wimlib-imagex.                      *)
LEMMA CopyTypes ==
  ASSUME DWTypes, \/ copyDirRecursive \/ copyDirReturns \/ copyFileChunked \/ handleWim
                  \/ copyWim \/ splitWimLib \/ fallbackSplit
  PROVE  DWTypes'
<1>1. /\ mounts \in MountTable /\ content \in Contents /\ wim \in {"off", "running", "ok", "bad"}
      /\ todo \subseteq File /\ cur \in File \cup {"none"} /\ cancelled \in BOOLEAN
      /\ reported \in BOOLEAN
  BY DEF DWTypes, DWTypeOK, PMTypeOK, HostTypeOK, MountTable, Contents
<1>2. /\ DOMAIN req.tree \subseteq File /\ dataPartition \in Part
      /\ exists(wimSrc) => wimSrc \in File
  BY RequestFacts DEF DWTypes
<1>3. /\ File \subseteq FileName /\ swm \in FileName
      /\ {"copyDir", "copyFile", "wim", "copyWim", "split", "fallback", "unmountIso"} \subseteq DWControl
  BY DEF FileName, DWControl
<1>4. \A f \in FileName, state \in {"whole", "cut"} : Put(dataPartition, f, state) \in Contents
  BY <1>1, <1>2, PutFacts
<1>5. FailCopy => DWTypes'
  BY <1>1, FailTypes DEF FailCopy
<1>6. ChunksCopied /\ cur \in File => /\ content' \in Contents /\ mounts' = mounts /\ wim' = wim
                                       /\ todo' = todo /\ cur' = cur
  BY <1>1, <1>3, <1>4 DEF ChunksCopied
<1>7. \A error \in BOOLEAN : SplitEnds(error) /\ wim' = "off" /\ UNCHANGED <<todo, cur>> => DWTypes'
  <2> SUFFICES ASSUME NEW error \in BOOLEAN, SplitEnds(error), wim' = "off", UNCHANGED <<todo, cur>>
               PROVE  DWTypes'
    OBVIOUS
  <2>1. mounts' \in MountTable /\ content' \in Contents
    BY <1>1, MountTypes, RemoveTypes DEF SplitEnds
  <2> QED
    BY <1>1, <2>1, LeaveTypes DEF SplitEnds
<1>8. CASE copyDirRecursive
  <2>1. CASE ~cancelled /\ \E f \in todo :
               /\ todo' = todo \ {f} /\ UNCHANGED <<mounts, wim>>
               /\ \/ Step("copyDir") /\ UNCHANGED <<cur, content>>
                  \/ Step("copyFile") /\ cur' = f /\ content' = Put(dataPartition, f, "cut")
    BY <1>1, <1>3, <1>4, <2>1, StepTypes
  <2> QED
    BY <1>5, <1>8, <2>1 DEF copyDirRecursive
<1>9. CASE copyDirReturns
  BY <1>1, <1>3, <1>5, <1>9, StepTypes DEF copyDirReturns
<1>10. CASE copyFileChunked
  <2>1. cur \in File
    BY <1>10 DEF copyFileChunked, DWTypes
  <2>2. CASE ChunksCopied /\ Step("copyDir")
    BY <1>1, <1>3, <1>6, <2>1, <2>2, StepTypes
  <2> QED
    BY <1>5, <1>10, <2>2 DEF copyFileChunked
<1>11. CASE handleWim
  <2>1. CASE Step("unmountIso") /\ UNCHANGED <<mounts, content, wim, cur, todo>>
    BY <1>1, <1>3, <2>1, StepTypes
  <2>2. CASE /\ exists(wimSrc) /\ cur' = wimSrc /\ content' = Put(dataPartition, wimSrc, "cut")
             /\ Step("copyWim") /\ UNCHANGED <<mounts, wim, todo>>
    BY <1>1, <1>2, <1>3, <1>4, <2>2, StepTypes
  <2>3. CASE /\ wim' = "running" /\ content' = Put(dataPartition, swm, "cut")
             /\ Step("split") /\ UNCHANGED <<mounts, cur, todo>>
    BY <1>1, <1>3, <1>4, <2>3, StepTypes
  <2>4. CASE Fail({"iso", "target"}, TRUE)
    BY <2>4, FailTypes
  <2> QED
    BY <1>11, <2>1, <2>2, <2>3, <2>4 DEF handleWim
<1>12. CASE copyWim
  <2>1. cur \in File
    BY <1>12 DEF copyWim, DWTypes
  <2>2. CASE ChunksCopied /\ Step("unmountIso")
    BY <1>1, <1>3, <1>6, <2>1, <2>2, StepTypes
  <2>3. CASE /\ wim' = "running" /\ content' = Put(dataPartition, swm, "cut")
             /\ Step("fallback") /\ UNCHANGED <<mounts, todo, cur>>
    BY <1>1, <1>3, <1>4, <2>3, StepTypes
  <2> QED
    BY <1>5, <1>12, <2>2, <2>3 DEF copyWim
<1>13. CASE splitWimLib \/ fallbackSplit
  <2>1. CASE Step("unmountIso") /\ wim' = "off" /\ UNCHANGED <<mounts, content, todo, cur>>
    BY <1>1, <1>3, <2>1, StepTypes
  <2>2. CASE \E error \in BOOLEAN : SplitEnds(error) /\ wim' = "off" /\ UNCHANGED <<todo, cur>>
    BY <1>7, <2>2
  <2>3. CASE /\ RemoveTempDir(mounts) /\ reported' = TRUE /\ Leave("failed") /\ wim' = "off"
             /\ UNCHANGED <<todo, cur>>
    <3>1. mounts' \in MountTable /\ content' \in Contents
      BY <1>1, <2>3, RemoveTypes
    <3> QED
      BY <2>3, <3>1, LeaveTypes
  <2> QED
    BY <1>13, <2>1, <2>2, <2>3 DEF splitWimLib, fallbackSplit
<1> QED
  BY <1>8, <1>9, <1>10, <1>11, <1>12, <1>13

(* Mounting before the copy, unmounting and installing after it.           *)
LEMMA MountStepTypes ==
  ASSUME DWTypes, \/ diskPrepared \/ mountIso \/ mountTarget \/ unmountIso \/ unmountTarget
                  \/ mountEfi \/ copyEfi \/ mountBoot \/ installGrubBios \/ umountBoot
                  \/ writeReturns
  PROVE  DWTypes'
<1>1. /\ mounts \in MountTable /\ content \in Contents /\ wim \in {"off", "running", "ok", "bad"}
      /\ todo \subseteq File /\ cur \in File \cup {"none"} /\ reported \in BOOLEAN
  BY DEF DWTypes, DWTypeOK, PMTypeOK, HostTypeOK, MountTable, Contents
<1>2. /\ DOMAIN req.tree \subseteq File /\ dataPartition \in Part
      /\ req.iso9660 \subseteq File /\ shown \subseteq File
  BY RequestFacts DEF DWTypes, DWTypeOK
<1>3. /\ File \subseteq FileName /\ "boot/grub" \in FileName /\ EfiBootFile \in FileName
      /\ {"mountIso", "mountTarget", "copyDir", "unmountIso", "unmountTarget", "mountEfi",
          "copyEfi", "bootloader", "grub", "umountBoot", "sync"} \subseteq DWControl
  BY DEF FileName, DWControl, File
<1>4. \A f \in FileName, state \in {"whole", "cut"} : Put(1, f, state) \in Contents
  BY <1>1, PutFacts
(* Steps that change only what is mounted.                                 *)
<1>5. ASSUME NEW next \in DWControl \ {"copyFile", "copyWim"}, Step(next), mounts' \in MountTable,
             content' \in Contents, UNCHANGED <<wim, cur>>, todo' \subseteq File
      PROVE  DWTypes'
  BY <1>1, <1>5, StepTypes
(* The failure of a mount.                                                 *)
<1>6. ASSUME NEW ms \in MountTable, RemoveTempDir(ms), reported' = TRUE, Leave("failed"),
             UNCHANGED <<wim, todo, cur>>
      PROVE  DWTypes'
  <2>1. mounts' \in MountTable /\ content' \in Contents
    BY <1>1, <1>6, RemoveTypes
  <2> QED
    BY <1>1, <1>6, <2>1, LeaveTypes
<1>7. CASE diskPrepared
  <2>1. CASE Fail({}, FALSE) \/ Fail({}, TRUE)
    BY <2>1, FailTypes
  <2>2. CASE Step("mountIso") /\ UNCHANGED <<mounts, content, wim, todo, cur>>
    BY <1>1, <1>3, <1>5, <2>2
  <2> QED
    BY <1>7, <2>1, <2>2 DEF diskPrepared
<1>8. CASE mountIso
  <2>1. CASE /\ mounts' = AfterMount(mounts, IsoVolume, "iso")
             /\ shown' \in ImageViews
             /\ Goto("mountTarget") /\ UNCHANGED <<content, wim, todo, cur>>
    <3>1. mounts' \in MountTable
      BY <1>1, <2>1, MountTypes
    <3>2. shown' \subseteq File
      BY <1>2, <2>1 DEF ImageViews
    <3> QED
      BY <1>1, <1>3, <2>1, <3>1, <3>2, GotoTypes
  <2>2. CASE \E ms \in AfterFailedMount(mounts, IsoVolume, "iso") :
               /\ RemoveTempDir(ms) /\ reported' = TRUE /\ Leave("failed")
               /\ UNCHANGED <<wim, todo, cur>>
    <3>1. AfterFailedMount(mounts, IsoVolume, "iso") \subseteq MountTable
      BY <1>1, MountTypes
    <3> QED
      BY <1>6, <2>2, <3>1
  <2> QED
    BY <1>8, <2>1, <2>2 DEF mountIso
<1>9. CASE mountTarget
  <2>1. CASE /\ mounts' = AfterMount(mounts, dataPartition, "target") /\ todo' = shown
             /\ Step("copyDir") /\ UNCHANGED <<content, wim, cur>>
    <3>1. mounts' \in MountTable
      BY <1>1, <1>2, <2>1, MountTypes
    <3> QED
      BY <1>1, <1>2, <1>3, <1>5, <2>1, <3>1
  <2>2. CASE /\ \E ms \in AfterFailedMount(mounts, dataPartition, "target") :
                  \E left \in AfterUmount(ms, {"iso"}) : RemoveTempDir(left)
             /\ reported' = TRUE /\ Leave("failed") /\ UNCHANGED <<wim, todo, cur>>
    <3>1. PICK ms \in AfterFailedMount(mounts, dataPartition, "target") :
            \E left \in AfterUmount(ms, {"iso"}) : RemoveTempDir(left)
      BY <2>2
    <3>2. ms \in MountTable
      BY <1>1, <1>2, MountTypes
    <3>3. AfterUmount(ms, {"iso"}) \subseteq MountTable
      BY <3>2, MountTypes
    <3> QED
      BY <1>6, <2>2, <3>1, <3>3
  <2> QED
    BY <1>9, <2>1, <2>2 DEF mountTarget
<1>10. CASE unmountIso
  <2>1. CASE Fail({"iso", "target"}, FALSE)
    BY <2>1, FailTypes
  <2>2. CASE /\ mounts' \in AfterUmount(mounts, {"iso"})
             /\ Step("unmountTarget") /\ UNCHANGED <<content, wim, todo, cur>>
    <3>1. mounts' \in MountTable
      BY <1>1, <2>2, MountTypes
    <3> QED
      BY <1>1, <1>3, <1>5, <2>2, <3>1
  <2> QED
    BY <1>10, <2>1, <2>2 DEF unmountIso
<1>11. CASE unmountTarget \/ umountBoot
  <2>1. mounts' \in MountTable
    BY <1>1, <1>11, MountTypes DEF unmountTarget, umountBoot
  <2>2. /\ UNCHANGED <<content, wim, todo, cur>>
        /\ \E next \in {"mountEfi", "bootloader", "sync"} : Step(next)
    BY <1>11 DEF unmountTarget, umountBoot
  <2> QED
    BY <1>1, <1>3, <1>5, <2>1, <2>2
<1>12. CASE mountEfi \/ mountBoot
  <2>1. mounts' \in MountTable
    <3>1. /\ AfterMount(mounts, 1, "efi") \in MountTable /\ AfterMount(mounts, 1, "bl_mount") \in MountTable
          /\ AfterFailedMount(mounts, 1, "efi") \subseteq MountTable
          /\ AfterFailedMount(mounts, 1, "bl_mount") \subseteq MountTable
      BY <1>1, MountTypes
    <3> QED
      BY <1>12, <3>1 DEF mountEfi, mountBoot
  <2>2. /\ UNCHANGED <<content, wim, todo, cur>>
        /\ \E next \in {"copyEfi", "bootloader", "grub", "umountBoot", "sync"} : Step(next)
    BY <1>12 DEF mountEfi, mountBoot
  <2> QED
    BY <1>1, <1>3, <1>5, <2>1, <2>2
<1>13. CASE copyEfi
  <2>1. mounts' \in MountTable
    <3>1. /\ AfterMount(mounts, IsoVolume, "iso2") \in MountTable
          /\ AfterFailedMount(mounts, IsoVolume, "iso2") \subseteq MountTable
      BY <1>1, MountTypes
    <3>2. /\ AfterUmount(AfterMount(mounts, IsoVolume, "iso2"), {"iso2", "efi"}) \subseteq MountTable
          /\ \A ms \in AfterFailedMount(mounts, IsoVolume, "iso2") :
               AfterUmount(ms, {"efi"}) \subseteq MountTable
      BY <3>1, MountTypes
    <3> QED
      BY <1>13, <3>2 DEF copyEfi
  <2>2. content' \in Contents
    BY <1>1, <1>3, <1>4, <1>13 DEF copyEfi
  <2> QED
    BY <1>1, <1>3, <1>5, <1>13, <2>1, <2>2 DEF copyEfi
<1>14. CASE installGrubBios
  <2>1. content' \in Contents
    BY <1>1, <1>3, <1>4, <1>14 DEF installGrubBios
  <2> QED
    BY <1>1, <1>3, <1>5, <1>14, <2>1 DEF installGrubBios
<1>15. CASE writeReturns
  <2>1. mounts' \in MountTable /\ content' \in Contents
    BY <1>1, <1>15, RemoveTypes DEF writeReturns
  <2> QED
    BY <1>1, <1>15, <2>1, LeaveTypes DEF writeReturns
<1> QED
  BY <1>7, <1>8, <1>9, <1>10, <1>11, <1>12, <1>13, <1>14, <1>15

(* No nodes and no volumes.                                                *)
LEMMA EmptyFacts ==
  /\ <<>> \in Seq(Volume) /\ <<>> \in Seq(Part) /\ Len(<<>>) <= 2
  /\ \A i \in 1..Len(<<>>) : <<>>[i] = i
OBVIOUS

Entry ==
  \/ StartWrite \/ configUnreadable
  \/ writeIsoMode \/ writeDdMode \/ ddWriteChunk \/ ddFails \/ ddReturns
  \/ PMStep /\ UNCHANGED dwVars

(* A raw write, and the call of prepareDisk.                               *)
LEMMA EntryTypes ==
  ASSUME DWTypes, Entry
  PROVE  DWTypes'
<1>1. /\ mounts \in MountTable /\ content \in Contents /\ wim \in {"off", "running", "ok", "bad"}
      /\ PMTypeOK /\ reported \in BOOLEAN
  BY DEF DWTypes, DWTypeOK, PMTypeOK, HostTypeOK, MountTable, Contents
<1>2. DWAssumption
  BY DWAssumption DEF DWAssumption
<1>3. CASE StartWrite
  <2>1. HostTypeOK'
    BY <1>1, <1>3 DEF StartWrite, hostVars, PMTypeOK, HostTypeOK
  <2>2. PMTypeOK'
    <3>1. /\ partitions' = <<>> /\ reported' = FALSE /\ errorLines' = {}
          /\ UNCHANGED <<config, umList, umOk, wim>>
      BY <1>3 DEF StartWrite
    <3> QED
      BY <1>1, <2>1, <3>1, EmptyFacts DEF PMTypeOK
  <2>3. runs' \in 0..MaxRuns /\ pc' = "entered" /\ req' \in Requests
    BY <1>3, DWAssumption DEF StartWrite, DWTypes, DWTypeOK
  <2>4. DWTypeOK'
    <3>1. 0 \in 0..Chunks /\ {} \subseteq 1..Chunks /\ "entered" \in DWControl
      BY DWAssumption DEF DWControl
    <3>2. /\ shown' = {} /\ todo' = {} /\ cur' = "none" /\ chunk' = 0 /\ raw' = {}
          /\ cancelled' = FALSE /\ result' = "none"
      BY <1>3 DEF StartWrite
    <3> QED
      BY <2>2, <2>3, <3>1, <3>2 DEF DWTypeOK
  <2> QED
    BY <2>3, <2>4 DEF DWTypes
<1>4. CASE writeIsoMode
  <2>1. req \in Request /\ dualPartition \in BOOLEAN
    BY RequestFacts DEF DWTypes
  <2>2. config' \in PartitionConfig
    BY <1>4, <2>1 DEF writeIsoMode, PartitionConfig, Request, FileSystem
  <2>3. umList' \in Seq(Volume)
    <3> DEFINE n == Len(kernel)
    <3>1. n \in Nat /\ n <= 2
      BY <1>1 DEF PMTypeOK, HostTypeOK
    <3>2. umList' = [i \in 1..(n + 1) |-> i - 1]
      BY <1>4 DEF writeIsoMode, StartPrepare, UnmountList
    <3> HIDE DEF n
    <3>3. \A i \in 1..(n + 1) : i - 1 \in Volume
      BY <3>1
    <3> QED
      BY <3>1, <3>2, <3>3
  <2>4. HostTypeOK'
    BY <1>1, <1>4 DEF writeIsoMode, hostVars, PMTypeOK, HostTypeOK
  <2>5. PMTypeOK' /\ FormatInv'
    BY <1>1, <1>4, <2>2, <2>3, <2>4 DEF writeIsoMode, StartPrepare, PMTypeOK, FormatInv
  <2>6. DWTypeOK'
    BY <1>4, <2>5 DEF writeIsoMode, StartPrepare, DWTypes, DWTypeOK
  <2> QED
    BY <1>4, <2>5, <2>6 DEF writeIsoMode, StartPrepare, DWTypes
<1>5. CASE writeDdMode
  <2>1. PMTypeOK'
    BY <1>1, <1>5 DEF writeDdMode, hostVars, PMTypeOK, HostTypeOK
  <2>2. pc' \in {"dd", "idle"}
    BY <1>5 DEF writeDdMode
  <2>3. DWTypeOK'
    BY <1>5, <2>1, <2>2 DEF writeDdMode, DWTypes, DWTypeOK, DWControl
  <2> QED
    BY <2>2, <2>3 DEF DWTypes
<1>6. CASE ddWriteChunk
  <2>1. content' \in Contents
    BY <1>6 DEF ddWriteChunk, Overwritten, Contents
  <2>2. PMTypeOK'
    BY <1>1, <1>6, <2>1 DEF ddWriteChunk, pmVars, PMTypeOK, HostTypeOK, Contents
  <2>3. chunk' \in 1..Chunks
    BY <1>6, DWAssumption DEF ddWriteChunk, MoreChunks, DWTypes, DWTypeOK
  <2>4. DWTypeOK'
    BY <1>6, <2>2, <2>3, DWAssumption DEF ddWriteChunk, pmVars, DWTypes, DWTypeOK, DWControl
  <2> QED
    BY <1>6, <2>4 DEF ddWriteChunk, pmVars, DWTypes
<1>7. CASE ddFails
  <2>1. content' \in Contents
    BY <1>1, <1>7 DEF ddFails, Overwritten, Contents
  <2> QED
    BY <1>1, <1>7, <2>1, LeaveTypes DEF ddFails
<1>8. CASE ddReturns
  BY <1>1, <1>8, LeaveTypes DEF ddReturns
<1>10. CASE configUnreadable
  BY <1>1, <1>10, LeaveTypes DEF configUnreadable
<1>9. CASE PMStep /\ UNCHANGED dwVars
  <2>1. pc \in PMControl
    BY <1>9 DEF PMStep, unmountAll, unmountAllReturns, wipeDisk, partitionDisk, formatPartition
  <2>2. PMTypeOK' /\ FormatInv'
    BY <1>1, <1>9, <2>1, TypeNext DEF DWTypes, PMNext
  <2>3. DWTypeOK'
    BY <1>9, <2>2 DEF FormatInv, DWTypes, DWTypeOK, dwVars
  <2> QED
    BY <2>2, <2>3 DEF FormatInv, DWTypes
<1> QED
  BY <1>3, <1>4, <1>5, <1>6, <1>7, <1>8, <1>9, <1>10 DEF Entry

(* The child, the user, the kernel and the desktop.                        *)
LEMMA EnvironmentTypes ==
  ASSUME DWTypes, Environment
  PROVE  DWTypes'
<1>1. /\ mounts \in MountTable /\ content \in Contents /\ wim \in {"off", "running", "ok", "bad"}
      /\ PMTypeOK /\ reported \in BOOLEAN
  BY DEF DWTypes, DWTypeOK, PMTypeOK, HostTypeOK, MountTable, Contents
<1>2. CASE WimlibFinishes
  <2>1. content' \in Contents
    <3>1. dataPartition \in Part /\ swm \in FileName
      BY RequestFacts DEF DWTypes, FileName
    <3> QED
      BY <1>1, <1>2, <3>1, PutFacts DEF WimlibFinishes
  <2>2. PMTypeOK'
    BY <1>1, <1>2, <2>1 DEF WimlibFinishes, PMTypeOK, HostTypeOK, Contents
  <2> QED
    BY <1>2, <2>2 DEF WimlibFinishes, dwVars, DWTypes, DWTypeOK, FormatInv
<1>3. CASE cancel \/ WriteBack
  <2>1. PMTypeOK' /\ pc' = pc /\ FormatInv' = FormatInv
    BY <1>1, <1>3 DEF cancel, WriteBack, hostVars, pmVars, PMTypeOK, HostTypeOK, FormatInv
  <2>2. cancelled' \in BOOLEAN /\ raw' \subseteq 1..Chunks
    BY <1>3 DEF cancel, WriteBack, DWTypes, DWTypeOK
  <2> QED
    BY <1>3, <2>1, <2>2 DEF cancel, WriteBack, pmVars, DWTypes, DWTypeOK
<1>4. CASE Kill
  <2>1. \A m \in mounts : m[1] \in Volume
    BY <1>1 DEF MountTable
  <2>2. mounts' \in MountTable
    BY <1>1, <1>4, <2>1 DEF Kill, TempMounts, MountTable
  <2> QED
    BY <1>1, <1>4, <2>2, LeaveTypes DEF Kill
<1>5. CASE DesktopMount /\ UNCHANGED <<pmVars, dwVars>>
  <2>1. mounts' \in MountTable
    BY <1>1, <1>5, MountTypes DEF DesktopMount
  <2>2. PMTypeOK'
    BY <1>1, <1>5, <2>1 DEF DesktopMount, pmVars, PMTypeOK, HostTypeOK, MountTable
  <2> QED
    BY <1>5, <2>2 DEF pmVars, dwVars, DWTypes, DWTypeOK, FormatInv
<1> QED
  BY <1>2, <1>3, <1>4, <1>5 DEF Environment

(* The drive as it is plugged in, and no write yet.                        *)
LEMMA TypesInit == DWInit => DWTypes
<1> SUFFICES ASSUME DWInit PROVE DWTypes
  OBVIOUS
<1>1. mounts \subseteq Volume \X Place
  BY DEF DWInit, HostInit
<1>2. table = <<"old", "old">> /\ kernel = <<"old", "old">>
  BY DEF DWInit, HostInit, OldTable
<1>3. /\ table \in Seq(PartType) /\ Len(table) <= 2
      /\ kernel \in Seq(PartType) /\ Len(kernel) <= 2
  BY <1>2 DEF PartType
<1>4. fs \in [Part -> FileSystem \cup {"old"}]
  BY DEF DWInit, HostInit
<1>5. content \in Contents
  BY DEF DWInit, HostInit, FileName, Contents
<1>6. umList = <<>> /\ partitions = <<>>
  BY DEF DWInit
<1>7. config \in PartitionConfig
  BY DEF DWInit, PartitionConfig, FileSystem
<1>8. HostTypeOK
  BY <1>1, <1>3, <1>4, <1>5 DEF HostTypeOK, Contents
<1>9. PMTypeOK
  <2>1. umOk = TRUE /\ reported = FALSE /\ errorLines = {} /\ wim = "off"
    BY DEF DWInit
  <2> QED
    BY <1>6, <1>7, <1>8, <2>1, EmptyFacts DEF PMTypeOK
<1>10. 0 \in 0..Chunks /\ 0 \in 0..MaxRuns /\ {} \subseteq 1..Chunks /\ "idle" \in DWControl
  BY DWAssumption DEF DWControl
<1>11. DWTypeOK
  BY <1>9, <1>10 DEF DWInit, DWTypeOK
<1> QED
  BY <1>11 DEF DWInit, DWTypes

(* Every step keeps the types.                                             *)
LEMMA TypesNext ==
  ASSUME DWTypes, [DWNext]_vars
  PROVE  DWTypes'
<1>1. CASE StartWrite
  BY <1>1, EntryTypes DEF Entry
<1>2. CASE Backend
  <2>1. CASE Entry
    BY <2>1, EntryTypes
  <2>2. CASE \/ diskPrepared \/ mountIso \/ mountTarget \/ unmountIso \/ unmountTarget
             \/ mountEfi \/ copyEfi \/ mountBoot \/ installGrubBios \/ umountBoot
             \/ writeReturns
    BY <2>2, MountStepTypes
  <2>3. CASE \/ copyDirRecursive \/ copyDirReturns \/ copyFileChunked \/ handleWim
             \/ copyWim \/ splitWimLib \/ fallbackSplit
    BY <2>3, CopyTypes
  <2> QED
    BY <1>2, <2>1, <2>2, <2>3 DEF Backend, Entry
<1>3. CASE Environment
  BY <1>3, EnvironmentTypes
<1>4. CASE UNCHANGED vars
  BY <1>4 DEF vars, hostVars, pmVars, dwVars, DWTypes, DWTypeOK, PMTypeOK, HostTypeOK, FormatInv
<1> QED
  BY <1>1, <1>2, <1>3, <1>4 DEF DWNext

(* write keeps the types of its state, whatever fails, whoever kills it.   *)
THEOREM WriteTypes == DWSpec => []DWTypeOK
<1>1. DWTypes => DWTypeOK
  BY DEF DWTypes
<1> QED
  BY <1>1, TypesInit, TypesNext, PTL DEF DWSpec

-----------------------------------------------------------------------------
(* Mounts.  What is mounted below the temporary directory is known at each *)
(* control point, provided that umount unmounts and a mount that was given *)
(* up does not attach after all.                                           *)

Copying == {"copyDir", "copyFile", "wim", "copyWim", "split", "fallback", "unmountIso"}

MountInv ==
  \A m \in mounts :
    /\ m[2] = "iso" => pc \in {"mountTarget"} \cup Copying
    /\ m[2] = "target" => pc \in Copying \cup {"unmountTarget"}
    /\ m[2] = "efi" => pc = "copyEfi"
    /\ m[2] # "iso2"
    /\ m[2] = "bl_mount" => pc \in {"grub", "umountBoot"}

Untouched(ms) == \A m \in ms : m[2] \notin TempPlace

NoStale == \A m \in mounts : m[2] # "stale"

(* umount, when it works.                                                  *)
LEMMA UmountFacts ==
  ASSUME "umountError" \notin Faults, NEW ms, NEW places, NEW left \in AfterUmount(ms, places)
  PROVE  left = {m \in ms : m[2] \notin places}
BY DEF AfterUmount

(* The temporary directory goes, and with it what was mounted there.       *)
LEMMA RemoveLeaves ==
  ASSUME content \in Contents, NEW ms \in MountTable, RemoveTempDir(ms)
  PROVE  /\ Untouched(mounts')
         /\ Untouched(ms) => mounts' = ms /\ content' = content
<1>1. Untouched(mounts')
  BY DEF RemoveTempDir, TempMounts, Untouched
<1>2. ASSUME Untouched(ms) PROVE mounts' = ms /\ content' = content
  <2>1. TempMounts(ms) = {}
    BY <1>2 DEF TempMounts, Untouched
  <2> QED
    BY <2>1 DEF RemoveTempDir, Contents
<1> QED
  BY <1>1, <1>2

(* A return of false from where only these places are mounted.             *)
LEMMA FailLeaves ==
  ASSUME "umountError" \notin Faults, DWTypes, NEW places, Untouched({m \in mounts : m[2] \notin places}),
         \E ms \in AfterUmount(mounts, places) : RemoveTempDir(ms)
  PROVE  /\ mounts' = {m \in mounts : m[2] \notin places} /\ content' = content
<1>1. PICK ms \in AfterUmount(mounts, places) : RemoveTempDir(ms)
  OBVIOUS
<1>2. ms = {m \in mounts : m[2] \notin places}
  BY <1>1, UmountFacts
<1>3. content \in Contents /\ ms \in MountTable
  BY <1>2 DEF DWTypes, DWTypeOK, PMTypeOK, HostTypeOK, Contents, MountTable
<1> QED
  BY <1>1, <1>2, <1>3, RemoveLeaves

(* Every way out of write unmounts what the way in has mounted, but for    *)
(* the fallback that gives up waiting for its child.                       *)
LEMMA ReturnsClean ==
  ASSUME Faults \cap {"umountError", "mountLate"} = {}, DWTypes, MountInv, Backend, pc' = "idle"
  PROVE  /\ Untouched(mounts')
         /\ \/ mounts' \subseteq mounts /\ (content' = content \/ result' = "failed")
            \/ "wimHang" \in Faults /\ result' = "failed"
<1>1. /\ "umountError" \notin Faults /\ "mountLate" \notin Faults
      /\ mounts \in MountTable /\ content \in Contents
  BY DEF DWTypes, DWTypeOK, PMTypeOK, HostTypeOK, Contents, MountTable
<1>2. pc \in {"entered", "dd", "prepared", "mountIso", "sync"} => Untouched(mounts)
  BY DEF MountInv, Untouched, Copying
<1>3. pc \in Copying => Untouched({m \in mounts : m[2] \notin {"iso", "target"}})
  BY DEF MountInv, Untouched, Copying
<1>4. ASSUME NEW places, Untouched({m \in mounts : m[2] \notin places}),
             \E ms \in AfterUmount(mounts, places) : RemoveTempDir(ms)
      PROVE  Untouched(mounts') /\ mounts' \subseteq mounts /\ content' = content
  BY <1>1, <1>4, FailLeaves
<1>5. CASE configUnreadable \/ writeDdMode \/ ddFails \/ ddReturns
  <2>1. /\ pc \in {"entered", "dd"} /\ mounts' = mounts
        /\ content' = content \/ result' = "failed"
    BY <1>5 DEF configUnreadable, writeDdMode, ddFails, ddReturns, Leave, hostVars
  <2> QED
    BY <1>2, <2>1 DEF Untouched
<1>6. CASE diskPrepared
  <2>1. pc = "prepared" /\ \E error : Fail({}, error)
    BY <1>6 DEF diskPrepared, Step, Goto
  <2>2. Untouched({m \in mounts : m[2] \notin {}})
    BY <1>2, <2>1 DEF Untouched
  <2> QED
    BY <1>4, <2>1, <2>2 DEF Fail
<1>7. CASE mountIso
  <2>1. RemoveTempDir(mounts) /\ Untouched(mounts)
    BY <1>1, <1>2, <1>7 DEF mountIso, Step, Goto, AfterFailedMount
  <2> QED
    BY <1>1, <2>1, RemoveLeaves
<1>8. CASE mountTarget
  <2>1. pc = "mountTarget" /\ \E left \in AfterUmount(mounts, {"iso"}) : RemoveTempDir(left)
    BY <1>1, <1>8 DEF mountTarget, Step, Goto, AfterFailedMount
  <2>2. Untouched({m \in mounts : m[2] \notin {"iso"}})
    BY <2>1 DEF MountInv, Untouched, Copying
  <2> QED
    BY <1>4, <2>1, <2>2
<1>9. CASE \/ copyDirRecursive \/ copyDirReturns \/ copyFileChunked \/ handleWim \/ copyWim
           \/ unmountIso
  <2>1. pc \in Copying /\ \E error : Fail({"iso", "target"}, error)
    BY <1>9 DEF copyDirRecursive, copyDirReturns, copyFileChunked, handleWim, copyWim, unmountIso,
                FailCopy, Step, Goto, Copying
  <2> QED
    BY <1>3, <1>4, <2>1 DEF Fail
<1>10. CASE splitWimLib \/ fallbackSplit
  <2>1. CASE \E error : SplitEnds(error)
    <3>1. pc \in Copying
      BY <1>10 DEF splitWimLib, fallbackSplit, Copying
    <3> QED
      BY <1>3, <1>4, <2>1, <3>1 DEF SplitEnds
  <2>2. CASE "wimHang" \in Faults /\ RemoveTempDir(mounts) /\ Leave("failed")
    BY <1>1, <2>2, RemoveLeaves DEF Leave
  <2> QED
    BY <1>10, <2>1, <2>2 DEF splitWimLib, fallbackSplit, Step, Goto
<1>11. CASE writeReturns
  <2>1. RemoveTempDir(mounts) /\ Untouched(mounts)
    BY <1>2, <1>11 DEF writeReturns
  <2> QED
    BY <1>1, <2>1, RemoveLeaves
<1>12. CASE \/ writeIsoMode \/ ddWriteChunk \/ PMStep \/ unmountTarget \/ mountEfi \/ copyEfi
            \/ mountBoot \/ installGrubBios \/ umountBoot
  BY <1>12 DEF writeIsoMode, StartPrepare, ddWriteChunk, pmVars, PMStep, unmountAll,
               unmountAllReturns, wipeDisk, partitionDisk, formatPartition, PrepareFails,
               unmountTarget, mountEfi, copyEfi, mountBoot, installGrubBios, umountBoot, Step, Goto
<1> QED
  BY <1>5, <1>6, <1>7, <1>8, <1>9, <1>10, <1>11, <1>12 DEF Backend

(* A step within write knows what it mounts and unmounts.                  *)
LEMMA MountNext ==
  ASSUME Faults \cap {"umountError", "mountLate"} = {}, DWTypes, MountInv, [DWNext]_vars
  PROVE  MountInv'
<1>1. "umountError" \notin Faults /\ "mountLate" \notin Faults
  OBVIOUS
<1>2. Untouched(mounts') => MountInv'
  BY DEF Untouched, MountInv
<1>3. pc \in PMControl \cup {"idle", "entered", "dd"} => Untouched(mounts)
  BY DEF MountInv, Untouched, Copying
<1>4. CASE StartWrite \/ writeIsoMode \/ writeDdMode \/ ddWriteChunk
  BY <1>2, <1>3, <1>4 DEF StartWrite, writeIsoMode, writeDdMode, ddWriteChunk, hostVars
<1>5. CASE PMStep
  <2>1. Untouched(mounts)
    BY <1>3, <1>5 DEF PMStep, unmountAll, unmountAllReturns, wipeDisk, partitionDisk, formatPartition
  <2>2. Untouched(mounts')
    BY <1>5, <2>1 DEF PMStep, unmountAll, UmountVolume, unmountAllReturns, hostVars, wipeDisk,
                      partitionDisk, formatPartition, Untouched
  <2> QED
    BY <1>2, <2>2
<1>6. CASE Backend /\ pc' = "idle"
  BY <1>2, <1>6, ReturnsClean
<1>7. CASE diskPrepared /\ pc' # "idle"
  BY <1>2, <1>3, <1>7 DEF diskPrepared, Fail, Leave
<1>8. CASE mountIso /\ pc' # "idle"
  BY <1>8 DEF mountIso, Leave, Step, Goto, AfterMount, MountInv, Copying
<1>9. CASE mountTarget /\ pc' # "idle"
  BY <1>9 DEF mountTarget, Leave, Step, Goto, AfterMount, MountInv, Copying
<1>10. CASE /\ pc' # "idle"
            /\ \/ copyDirRecursive \/ copyDirReturns \/ copyFileChunked \/ handleWim \/ copyWim
               \/ splitWimLib \/ fallbackSplit
  <2>1. pc \in Copying /\ pc' \in Copying /\ mounts' = mounts
    BY <1>10 DEF copyDirRecursive, copyDirReturns, copyFileChunked, handleWim, copyWim, splitWimLib,
                 fallbackSplit, ChunksCopied, FailCopy, Fail, SplitEnds, Leave, Step, Goto, Copying
  <2> QED
    BY <2>1 DEF MountInv, Copying
<1>11. CASE unmountIso /\ pc' # "idle"
  <2>1. mounts' = {m \in mounts : m[2] \notin {"iso"}}
    BY <1>1, <1>11, UmountFacts DEF unmountIso, Fail, Leave
  <2> QED
    BY <1>11, <2>1 DEF unmountIso, Fail, Leave, Step, Goto, MountInv, Copying
<1>12. CASE unmountTarget
  <2>1. mounts' = {m \in mounts : m[2] \notin {"target"}}
    BY <1>1, <1>12, UmountFacts DEF unmountTarget
  <2> QED
    BY <1>2, <1>12, <2>1 DEF unmountTarget, MountInv, Copying, Untouched
<1>13. CASE mountEfi
  BY <1>1, <1>13 DEF mountEfi, AfterMount, AfterFailedMount, Step, Goto, MountInv, Copying
<1>14. CASE copyEfi
  <2>1. \E ms : mounts' = {m \in ms : m[2] \notin {"iso2", "efi"}} /\ ms \subseteq AfterMount(mounts, IsoVolume, "iso2")
    <3>1. CASE mounts' \in AfterUmount(AfterMount(mounts, IsoVolume, "iso2"), {"iso2", "efi"})
      BY <1>1, <3>1, UmountFacts
    <3>2. CASE mounts' \in AfterUmount(mounts, {"efi"})
      <4>1. mounts' = {m \in mounts : m[2] \notin {"efi"}}
        BY <1>1, <3>2, UmountFacts
      <4>2. mounts' = {m \in mounts : m[2] \notin {"iso2", "efi"}}
        BY <4>1 DEF MountInv
      <4> QED
        BY <4>2 DEF AfterMount
    <3> QED
      BY <1>1, <1>14, <3>1, <3>2 DEF copyEfi, AfterFailedMount
  <2>2. pc = "copyEfi"
    BY <1>14 DEF copyEfi
  <2> QED
    BY <1>2, <2>1, <2>2 DEF AfterMount, MountInv, Copying, Untouched
<1>15. CASE mountBoot
  BY <1>1, <1>15 DEF mountBoot, AfterMount, AfterFailedMount, Step, Goto, MountInv, Copying
<1>16. CASE installGrubBios
  BY <1>16 DEF installGrubBios, Step, Goto, MountInv, Copying
<1>17. CASE umountBoot
  <2>1. mounts' = {m \in mounts : m[2] \notin {"bl_mount"}}
    BY <1>1, <1>17, UmountFacts DEF umountBoot
  <2> QED
    BY <1>2, <1>17, <2>1 DEF umountBoot, MountInv, Copying, Untouched
<1>18. CASE writeReturns \/ ddReturns \/ ddFails \/ configUnreadable
  <2>1. Backend /\ pc' = "idle"
    BY <1>18 DEF writeReturns, ddReturns, ddFails, configUnreadable, Leave, Backend
  <2> QED
    BY <1>6, <2>1
<1>19. CASE Kill
  BY <1>2, <1>19 DEF Kill, TempMounts, Untouched
<1>20. CASE DesktopMount /\ UNCHANGED <<pmVars, dwVars>>
  BY <1>20 DEF DesktopMount, AfterMount, pmVars, MountInv
<1>21. CASE WimlibFinishes \/ cancel \/ WriteBack \/ UNCHANGED vars
  BY <1>21 DEF WimlibFinishes, cancel, WriteBack, vars, hostVars, pmVars, MountInv
<1>22. CASE Backend /\ pc' # "idle"
  BY <1>4, <1>5, <1>7, <1>8, <1>9, <1>10, <1>11, <1>12, <1>13, <1>14, <1>15, <1>16, <1>17, <1>18,
     <1>22 DEF Backend
<1> QED
  BY <1>4, <1>6, <1>19, <1>20, <1>21, <1>22 DEF DWNext, Environment

(* No mount outlives the write that made it: whatever way out of write is  *)
(* taken, it unmounts what was mounted on the way in (writeIsoMode).       *)
THEOREM NothingStaysMounted ==
  ASSUME Faults \cap {"umountError", "mountLate", "wimHang", "kill"} = {}
  PROVE  DWSpec => []NoLeakedMounts
<1>1. Faults \cap {"umountError", "mountLate"} = {} /\ "wimHang" \notin Faults /\ "kill" \notin Faults
  OBVIOUS
<1>2. DWInit => MountInv /\ NoStale
  BY DEF DWInit, HostInit, MountInv, NoStale
<1>3. ASSUME DWTypes, MountInv, NoStale, [DWNext]_vars
      PROVE  NoStale'
  <2>1. CASE Backend /\ pc' = "idle"
    BY <1>1, <1>3, <2>1, ReturnsClean DEF NoStale
  <2>2. CASE Backend /\ pc' # "idle"
    <3>1. \A m \in mounts' : m \in mounts \/ m[2] \in TempPlace \cup {"detached"}
      <4>1. CASE \/ writeIsoMode \/ writeDdMode \/ ddWriteChunk \/ diskPrepared
                 \/ copyDirRecursive \/ copyDirReturns \/ copyFileChunked \/ handleWim \/ copyWim
                 \/ splitWimLib \/ fallbackSplit \/ installGrubBios
        BY <2>2, <4>1 DEF writeIsoMode, writeDdMode, ddWriteChunk, diskPrepared, copyDirRecursive,
           copyDirReturns, copyFileChunked, handleWim, copyWim, splitWimLib, fallbackSplit,
           installGrubBios, hostVars, ChunksCopied, FailCopy, Fail, SplitEnds, Leave
      <4>2. CASE PMStep
        BY <4>2 DEF PMStep, unmountAll, UmountVolume, unmountAllReturns, hostVars, wipeDisk,
           partitionDisk, formatPartition
      <4>3. CASE mountIso \/ mountTarget \/ mountEfi \/ mountBoot
        BY <1>1, <2>2, <4>3 DEF mountIso, mountTarget, mountEfi, mountBoot, AfterMount,
           AfterFailedMount, Leave
      <4>4. CASE unmountIso \/ unmountTarget \/ umountBoot
        BY <1>1, <2>2, <4>4, UmountFacts DEF unmountIso, unmountTarget, umountBoot, Fail, Leave
      <4>5. CASE copyEfi
        <5>1. \A ms, places : \A left \in AfterUmount(ms, places) : left \subseteq ms
          BY DEF AfterUmount
        <5>2. mounts' \subseteq AfterMount(mounts, IsoVolume, "iso2")
          BY <1>1, <4>5, <5>1 DEF copyEfi, AfterMount, AfterFailedMount
        <5> QED
          BY <5>2 DEF AfterMount
      <4>6. CASE writeReturns \/ ddReturns \/ ddFails \/ configUnreadable
        BY <2>2, <4>6 DEF writeReturns, ddReturns, ddFails, configUnreadable, Leave
      <4> QED
        BY <2>2, <4>1, <4>2, <4>3, <4>4, <4>5, <4>6 DEF Backend
    <3> QED
      BY <1>3, <3>1 DEF NoStale
  <2>3. CASE StartWrite \/ Environment \/ UNCHANGED vars
    BY <1>1, <1>3, <2>3 DEF StartWrite, Environment, WimlibFinishes, cancel, WriteBack, Kill,
       DesktopMount, AfterMount, vars, hostVars, NoStale
  <2> QED
    BY <1>3, <2>1, <2>2, <2>3 DEF DWNext
<1>4. NoStale => NoLeakedMounts
  BY DEF NoStale, NoLeakedMounts
<1> QED
  BY <1>1, <1>2, <1>3, <1>4, TypesInit, TypesNext, MountNext, PTL DEF DWSpec

-----------------------------------------------------------------------------
(* The image.  Partitions are formatted as asked for, every file that has  *)
(* been passed is whole, and the installer follows, in one piece or in     *)
(* parts.                                                                  *)

Installed == {"unmountIso", "unmountTarget", "mountEfi", "copyEfi", "bootloader", "grub",
              "umountBoot", "sync"}
OnDisk    == {"mountIso", "mountTarget", "copyDir", "copyFile", "wim", "copyWim", "split",
              "fallback"} \cup Installed

(* Of install.wim and install.esd write handles one, and it looks for no   *)
(* other spelling.                                                         *)
OneInstaller ==
  \A r \in Requests : \E f \in {"sources/install.wim", "sources/install.esd"} :
    \A g \in InstallFile \cap DOMAIN r.tree : r.tree[g] = Link \/ g = f

(* The analysis has seen the installer, as without it a wim that does not  *)
(* fit is tried whole before it is split; and the layout is the GUI's.     *)
InstallerSeen ==
  \A r \in Requests :
    /\ ~r.dualPartition
    /\ r.isoType \in {"WindowsInstaller", "WindowsPE"} \/ \A f \in InstallFile \cap DOMAIN r.tree : r.tree[f] = Link

(* The ISO 9660 directory of the image is no stub: it lists every file.    *)
WholeListed ==
  \A r \in Requests : \A f \in DOMAIN r.tree : r.tree[f] = Link \/ f \in r.iso9660

(* While the mounted image is looked at, and once it is said to be copied, *)
(* shown is what a mount of it can show.                                   *)
Looking ==
  pc \in OnDisk \ {"mountIso"} \/ (pc = "idle" /\ result = "ok" /\ req.mode = "ISO")

ShownInv == Looking => shown \in ImageViews

PrepareInv ==
  pc \in PMControl =>
    /\ req.mode = "ISO" /\ config.dual = dualPartition
    /\ Formatted
    /\ (pc = "prepared" /\ partitions # <<>>) => Len(partitions) = IF config.dual THEN 2 ELSE 1

Has(files) == \A f \in files : (exists(f) /\ f \notin InstallFile) => Whole(dataPartition, f)

CompleteInv ==
  /\ pc = "entered" => chunk = 0 /\ raw = {}
  /\ pc = "dd" => req.mode = "DD" /\ raw = 1..chunk
  /\ pc \in OnDisk => req.mode = "ISO" /\ fs[dataPartition] = config.filesystem
  /\ pc = "copyDir" => Has(DOMAIN req.tree \ todo)
  /\ pc = "copyFile" => Has(DOMAIN req.tree \ (todo \cup {cur})) /\ cur \notin InstallFile
  /\ pc \in {"wim", "copyWim", "split", "fallback"} => Has(DOMAIN req.tree)
  /\ pc = "copyWim" => cur = wimSrc
  /\ (pc \in {"split", "fallback"} /\ wim = "ok") => Whole(dataPartition, swm)
  /\ pc \in {"mountEfi", "copyEfi"} => dualPartition
  /\ pc \in Installed \/ (pc = "idle" /\ result = "ok") => Copied

Clean(e) ==
  \/ e[1] \in DOMAIN req.tree \cup {swm} /\ e[2] = "whole"
  \/ e[1] = "boot/grub"

AtWork ==
  /\ pc \notin {"fallback", "mountEfi", "copyEfi"}
  /\ pc = "dd" => req.mode = "DD"
  /\ pc = "copyWim" => isWindows
  /\ pc = "mountTarget" => shown \subseteq DOMAIN req.tree
  /\ pc \in {"copyDir", "copyFile"} => todo \subseteq DOMAIN req.tree
  /\ pc \in {"copyFile", "copyWim"} => cur \in DOMAIN req.tree
  /\ (pc = "format" \/ (pc = "prepared" /\ partitions # <<>>)) => table = NewTable

CleanInv ==
  /\ AtWork
  /\ (pc \in OnDisk \/ (pc = "idle" /\ result = "ok" /\ req.mode = "ISO")) =>
       /\ Len(table) = 1
       /\ \A e \in content[1] :
            \/ Clean(e)
            \/ pc \in {"copyFile", "copyWim"} /\ e = <<cur, "cut">>
            \/ pc = "split" /\ wim # "ok" /\ e = <<swm, "cut">>

(* prepareDisk formats one partition after the other.                      *)
LEMMA PrepareFormats ==
  ASSUME DWTypes, PrepareInv, formatPartition, UNCHANGED dwVars
  PROVE  PrepareInv'
<1> DEFINE p    == Len(partitions) + 1
           last == IF config.dual THEN 2 ELSE 1
<1>1. /\ partitions \in Seq(Part) /\ Len(partitions) \in Nat
      /\ p \in Part /\ p <= last
      /\ fs \in [Part -> FileSystem \cup {"old"}] /\ DOMAIN content = Part
  BY DEF DWTypes, DWTypeOK, PMTypeOK, HostTypeOK, FormatInv, formatPartition
<1>2. req' = req /\ config' = config /\ dualPartition' = dualPartition /\ pc = "format"
  BY DEF formatPartition, dwVars, dualPartition, isWindows
<1>3. req.mode = "ISO" /\ config.dual = dualPartition /\ Formatted
  BY <1>2 DEF PrepareInv
<1>4. CASE PrepareFails
  <2>1. partitions' = <<>> /\ Formatted'
    BY <1>4 DEF PrepareFails, Formatted
  <2> QED
    BY <1>2, <1>3, <2>1 DEF PrepareInv
<1>5. CASE /\ fs' = [fs EXCEPT ![p] = AskedFs(p)]
           /\ content' = [content EXCEPT ![p] = {}]
           /\ partitions' = Append(partitions, p)
           /\ pc' = IF p = last THEN "prepared" ELSE "format"
  <2>1. Len(partitions') = p
    BY <1>1, <1>5
  <2>2. ASSUME NEW i \in 1..p PROVE fs'[i] = AskedFs(i)' /\ content'[i] = {}
    <3>1. AskedFs(i)' = AskedFs(i)
      BY <1>2 DEF AskedFs
    <3>2. CASE i = p
      BY <1>1, <1>5, <3>1, <3>2
    <3>3. CASE i \in 1..Len(partitions) /\ i # p
      BY <1>1, <1>3, <1>5, <3>1, <3>3 DEF Formatted
    <3> QED
      BY <1>1, <3>2, <3>3
  <2>3. Formatted'
    BY <2>1, <2>2 DEF Formatted
  <2>4. pc' = "prepared" => p = last
    BY <1>5
  <2> QED
    BY <1>2, <1>3, <2>1, <2>3, <2>4 DEF PrepareInv
<1> QED
  BY <1>4, <1>5 DEF formatPartition, Erased, WithNode

(* What it is asked for, and what it has formatted.                        *)
LEMMA PrepareNext ==
  ASSUME DWTypes, PrepareInv, [DWNext]_vars
  PROVE  PrepareInv'
<1>1. CASE pc' \notin PMControl
  BY <1>1 DEF PrepareInv
<1>2. CASE writeIsoMode
  <2>1. partitions' = <<>> /\ req' = req /\ req.mode = "ISO" /\ config'.dual = dualPartition
    BY <1>2 DEF writeIsoMode, StartPrepare
  <2>2. Formatted' /\ dualPartition' = dualPartition
    BY <2>1 DEF Formatted, dualPartition, isWindows
  <2> QED
    BY <2>1, <2>2 DEF PrepareInv
<1>3. CASE PMStep /\ UNCHANGED dwVars
  <2>1. CASE formatPartition
    BY <1>3, <2>1, PrepareFormats
  <2>2. CASE unmountAll \/ unmountAllReturns \/ wipeDisk \/ partitionDisk
    <3>1. /\ pc \in {"unmountAll", "wipeDisk", "partitionDisk"}
          /\ UNCHANGED <<fs, content, config, req>> /\ partitions' \in {partitions, <<>>}
      BY <1>3, <2>2 DEF unmountAll, unmountAllReturns, wipeDisk, partitionDisk, PrepareFails, hostVars,
                        dwVars
    <3>2. partitions' = <<>>
      BY <3>1 DEF DWTypes, FormatInv
    <3>3. Formatted' /\ dualPartition' = dualPartition
      BY <3>1, <3>2 DEF Formatted, dualPartition, isWindows
    <3> QED
      BY <3>1, <3>2, <3>3 DEF PrepareInv
  <2> QED
    BY <1>3, <2>1, <2>2 DEF PMStep
<1>4. CASE Environment \/ UNCHANGED vars
  <2>1. SUFFICES ASSUME pc' \in PMControl PROVE PrepareInv'
    BY <1>1
  <2>2. UNCHANGED <<pc, fs, content, config, req, partitions>>
    BY <1>4, <2>1 DEF Environment, WimlibFinishes, Splitting, cancel, Kill, Leave, WriteBack, DesktopMount,
                      vars, hostVars, pmVars, dwVars
  <2>3. Formatted' = Formatted /\ dualPartition' = dualPartition
    BY <2>2 DEF Formatted, AskedFs, dualPartition, isWindows
  <2> QED
    BY <2>2, <2>3 DEF PrepareInv
<1>5. CASE StartWrite \/ (Backend /\ ~writeIsoMode /\ ~(PMStep /\ UNCHANGED dwVars))
  <2>1. pc' \notin PMControl
    BY <1>5 DEF StartWrite, Backend, writeDdMode, ddWriteChunk, pmVars, ddFails, ddReturns, diskPrepared,
       configUnreadable, mountIso, mountTarget, copyDirRecursive, copyDirReturns, copyFileChunked,
       handleWim, copyWim, splitWimLib, fallbackSplit, unmountIso, unmountTarget, mountEfi, copyEfi, mountBoot,
       installGrubBios, umountBoot, writeReturns, FailCopy, Fail, SplitEnds, Leave, Step, Goto
  <2> QED
    BY <1>1, <2>1
<1> QED
  BY <1>2, <1>3, <1>4, <1>5 DEF DWNext

(* The partition for the files is formatted as the user, or Windows, asks. *)
LEMMA DataFormatted ==
  ASSUME DWTypes, PrepareInv, pc = "prepared", partitions # <<>>
  PROVE  fs[dataPartition] = config.filesystem
<1>1. dualPartition \in BOOLEAN /\ config.dual = dualPartition /\ Formatted
      /\ Len(partitions) = IF config.dual THEN 2 ELSE 1
  BY RequestFacts DEF PrepareInv, DWTypes
<1>2. dataPartition \in 1..Len(partitions) /\ AskedFs(dataPartition) = config.filesystem
  BY <1>1 DEF dataPartition, AskedFs
<1> QED
  BY <1>1, <1>2 DEF Formatted

(* A file is put where the others stay.                                    *)
LEMMA PutKeeps ==
  ASSUME DWTypes, NEW f \in FileName, NEW state \in {"whole", "cut"},
         content' = Put(dataPartition, f, state), req' = req
  PROVE  /\ \A g : g # f /\ Whole(dataPartition, g) => Whole(dataPartition, g)'
         /\ state = "whole" => Whole(dataPartition, f)'
<1>1. content \in Contents /\ dataPartition \in Part /\ dataPartition' = dataPartition
  BY RequestFacts DEF DWTypes, DWTypeOK, PMTypeOK, HostTypeOK, Contents, dataPartition, dualPartition,
                      isWindows
<1>2. content'[dataPartition] = {e \in content[dataPartition] : e[1] # f} \cup {<<f, state>>}
  BY <1>1, PutFacts
<1> QED
  BY <1>1, <1>2 DEF Whole

(* The image stays as long as its files do, GRUB's aside.                  *)
LEMMA CopiedKept ==
  ASSUME UNCHANGED <<req, shown, config, raw, fs>>, Copied, shown \subseteq File,
         \A f : f # "boot/grub" /\ Whole(dataPartition, f) => Whole(dataPartition, f)'
  PROVE  Copied'
<1>1. dataPartition' = dataPartition
  BY DEF dataPartition, dualPartition, isWindows
<1>2. "boot/grub" \notin File /\ swm # "boot/grub"
  BY DEF File, InstallFile, BootWim, EfiBootFile, LiveFile, swm
<1>3. ASSUME NEW f \in shown, Delivered(f) PROVE Delivered(f)'
  BY <1>1, <1>2, <1>3 DEF Delivered
<1> QED
  BY <1>1, <1>3 DEF Copied, Holds, InImage

(* There are two ways to return true.                                      *)
LEMMA SuccessReturns ==
  ASSUME Backend, pc' = "idle", result' = "ok"
  PROVE  ddReturns \/ writeReturns
BY DEF Backend, writeIsoMode, StartPrepare, writeDdMode, ddWriteChunk, pmVars, ddFails, PMStep,
   unmountAll, unmountAllReturns, wipeDisk, partitionDisk, formatPartition, PrepareFails,
   diskPrepared, configUnreadable, mountIso, mountTarget, copyDirRecursive, copyDirReturns,
   copyFileChunked, handleWim, copyWim, splitWimLib, fallbackSplit, unmountIso, unmountTarget, mountEfi, copyEfi,
   mountBoot, installGrubBios, umountBoot, FailCopy, Fail, SplitEnds, Leave, Step, Goto

(* A return of true, of either mode.                                       *)
LEMMA ReturnComplete ==
  ASSUME Faults \cap {"umountError", "mountLate"} = {}, DWTypes, MountInv, CompleteInv,
         Backend, pc' = "idle"
  PROVE  CompleteInv'
<1>1. result' = "ok" => ddReturns \/ writeReturns
  BY SuccessReturns
<1>2. CASE ddReturns
  <2>1. raw = 1..chunk /\ chunk = Chunks /\ req.mode = "DD"
    <3>1. chunk \in 0..Chunks /\ ~(chunk < Chunks)
      BY <1>2 DEF ddReturns, MoreChunks, DWTypes, DWTypeOK
    <3> QED
      BY <1>2, <3>1, DWAssumption DEF ddReturns, CompleteInv
  <2>2. raw' = raw /\ req' = req /\ shown' = shown
    BY <1>2 DEF ddReturns, Leave
  <2>3. Copied'
    BY <2>1, <2>2 DEF Copied, Holds
  <2> QED
    BY <2>3 DEF CompleteInv, OnDisk, Installed
<1>3. CASE writeReturns
  <2>1. Copied /\ UNCHANGED <<req, shown, config, raw, fs>> /\ result' = "ok"
    BY <1>3 DEF writeReturns, Leave, CompleteInv, Installed
  <2>2. content' = content
    BY <2>1, ReturnsClean
  <2>3. \A f : Whole(dataPartition, f)' = Whole(dataPartition, f)
    BY <2>1, <2>2 DEF Whole, dataPartition, dualPartition, isWindows
  <2>4. Copied'
    BY <2>1, <2>3, CopiedKept DEF DWTypes, DWTypeOK
  <2> QED
    BY <2>4 DEF CompleteInv, OnDisk, Installed
<1>4. CASE result' # "ok"
  BY <1>4 DEF CompleteInv, OnDisk, Installed
<1> QED
  BY <1>1, <1>2, <1>3, <1>4

(* The installer write looks for is the one there is.                      *)
LEMMA TheInstaller ==
  ASSUME OneInstaller, DWTypeOK
  PROVE  /\ \A f \in InstallFile \cap DOMAIN req.tree : exists(f) => f = wimSrc
         /\ wimSrc \in InstallFile
<1>1. PICK f \in {"sources/install.wim", "sources/install.esd"} :
        \A g \in InstallFile \cap DOMAIN req.tree : req.tree[g] = Link \/ g = f
  BY DEF OneInstaller, DWTypeOK
<1>2. {"sources/install.wim", "sources/install.esd"} \subseteq InstallFile
  BY DEF InstallFile
<1>3. \A g \in InstallFile \cap DOMAIN req.tree : exists(g) => g = f
  BY <1>1 DEF exists, InImage
<1>4. exists("sources/install.wim") => f = "sources/install.wim"
  BY <1>2, <1>3 DEF exists, InImage
<1> QED
  BY <1>2, <1>3, <1>4 DEF wimSrc

CopyStep ==
  \/ copyDirRecursive \/ copyDirReturns \/ copyFileChunked \/ handleWim
  \/ copyWim \/ splitWimLib \/ fallbackSplit

(* The copy, the wim, and the child that splits it.                        *)
LEMMA CopyComplete ==
  ASSUME "flushLost" \notin Faults, OneInstaller, DWTypes, CompleteInv, pc' # "idle", CopyStep
  PROVE  CompleteInv'
<1> DEFINE files == DOMAIN req.tree
<1>1. /\ UNCHANGED <<fs, req, shown, config, raw, chunk>> /\ req.mode = "ISO"
      /\ fs[dataPartition] = config.filesystem
  BY DEF CopyStep, copyDirRecursive, copyDirReturns, copyFileChunked, handleWim, copyWim, splitWimLib,
     fallbackSplit, FailCopy, Fail, SplitEnds, Leave, Step, Goto, CompleteInv, OnDisk
<1>2. dataPartition' = dataPartition /\ (\A f : exists(f)' = exists(f)) /\ wimSrc' = wimSrc
  BY <1>1 DEF dataPartition, dualPartition, isWindows, exists, InImage, wimSrc
<1>3. /\ files \subseteq File /\ File \subseteq FileName /\ swm \in FileName /\ swm \notin File
      /\ InstallFile \subseteq File /\ wimSrc \in InstallFile
  BY RequestFacts, TheInstaller DEF DWTypes, FileName, File, swm, InstallFile, BootWim, EfiBootFile, LiveFile
<1>4. content' = content => \A f : Whole(dataPartition, f)' = Whole(dataPartition, f)
  BY <1>2 DEF Whole
<1>5. ASSUME Has(files), pc' = "unmountIso",
             \A g : g \notin InstallFile /\ Whole(dataPartition, g) => Whole(dataPartition, g)',
             exists(wimSrc) => Whole(dataPartition, wimSrc)' \/ Whole(dataPartition, swm)'
      PROVE  CompleteInv'
  <2>1. ASSUME NEW f \in files, exists(f) PROVE Delivered(f)'
    <3>1. CASE f \in InstallFile
      BY <1>2, <1>3, <1>5, <2>1, <3>1, TheInstaller DEF DWTypes, Delivered
    <3>2. CASE f \notin InstallFile
      BY <1>5, <2>1, <3>2 DEF Has, Delivered
    <3> QED
      BY <3>1, <3>2
  <2>2. \A f \in shown : InImage(f) => Delivered(f)'
    BY <2>1 DEF exists, InImage
  <2>3. Copied'
    BY <1>1, <1>2, <2>2 DEF Copied, Holds, InImage
  <2> QED
    BY <1>1, <1>2, <1>5, <2>3 DEF CompleteInv, OnDisk, Installed
<1>6. ASSUME Has(files), pc' \in {"copyWim", "split", "fallback"},
             \A g : g \notin InstallFile \cup {swm} /\ Whole(dataPartition, g) => Whole(dataPartition, g)',
             pc' = "copyWim" => cur' = wimSrc, wim' # "ok"
      PROVE  CompleteInv'
  <2>1. Has(files)'
    BY <1>1, <1>2, <1>3, <1>6 DEF Has
  <2> QED
    BY <1>1, <1>2, <1>6, <2>1 DEF CompleteInv, OnDisk, Installed
<1>7. CASE copyDirRecursive
  <2>1. pc = "copyDir" /\ Has(files \ todo)
    BY <1>7 DEF copyDirRecursive, CompleteInv
  <2>2. PICK f \in todo :
          /\ todo' = todo \ {f}
          /\ IF excluded(f) \/ req.tree[f] = Link
             THEN Step("copyDir") /\ UNCHANGED <<cur, content>>
             ELSE Step("copyFile") /\ cur' = f /\ content' = Put(dataPartition, f, "cut")
    BY <1>7 DEF copyDirRecursive, FailCopy, Fail, Leave
  <2>3. CASE excluded(f) \/ req.tree[f] = Link
    <3>1. ~exists(f) \/ f \in InstallFile
      BY <2>3 DEF exists, InImage, excluded
    <3>2. pc' = "copyDir" /\ content' = content
      BY <2>2, <2>3 DEF Step, Goto
    <3>3. Has(files \ todo)'
      BY <1>1, <1>2, <1>4, <2>1, <2>2, <3>1, <3>2 DEF Has
    <3> QED
      BY <1>1, <1>2, <3>2, <3>3 DEF CompleteInv, OnDisk, Installed
  <2>4. CASE ~(excluded(f) \/ req.tree[f] = Link)
    <3>1. pc' = "copyFile" /\ cur' = f /\ f \notin InstallFile /\ f \in FileName
          /\ content' = Put(dataPartition, f, "cut")
      BY <1>3, <2>2, <2>4 DEF Step, Goto, excluded, DWTypes, DWTypeOK
    <3>2. Has(files \ (todo \cup {cur}))'
      BY <1>1, <1>2, <2>1, <2>2, <3>1, PutKeeps DEF Has
    <3> QED
      BY <1>1, <1>2, <3>1, <3>2 DEF CompleteInv, OnDisk, Installed
  <2> QED
    BY <2>3, <2>4
<1>8. CASE copyDirReturns
  <2>1. pc' = "wim" /\ content' = content /\ Has(files)
    BY <1>8 DEF copyDirReturns, FailCopy, Fail, Leave, Step, Goto, CompleteInv, Has
  <2>2. Has(files)'
    BY <1>1, <1>2, <1>4, <2>1 DEF Has
  <2> QED
    BY <1>1, <1>2, <2>1, <2>2 DEF CompleteInv, OnDisk, Installed
<1>9. CASE copyFileChunked
  <2>1. /\ pc' = "copyDir" /\ content' = Put(dataPartition, cur, "whole") /\ todo' = todo
        /\ cur \in FileName
    BY <1>3, <1>9 DEF copyFileChunked, ChunksCopied, FailCopy, Fail, Leave, Step, Goto, DWTypes
  <2>2. Has(files \ (todo \cup {cur}))
    BY <1>9 DEF copyFileChunked, CompleteInv
  <2>3. Has(files \ todo)'
    BY <1>1, <1>2, <2>1, <2>2, PutKeeps DEF Has
  <2> QED
    BY <1>1, <1>2, <2>1, <2>3 DEF CompleteInv, OnDisk, Installed
<1>10. CASE handleWim
  <2>1. Has(files)
    BY <1>10 DEF handleWim, CompleteInv
  <2>2. CASE ~exists(wimSrc) /\ Step("unmountIso") /\ UNCHANGED content
    BY <1>4, <1>5, <2>1, <2>2 DEF Step, Goto
  <2>3. CASE /\ cur' = wimSrc /\ content' = Put(dataPartition, wimSrc, "cut")
             /\ Step("copyWim") /\ UNCHANGED wim
    <3>1. pc' = "copyWim" /\ \A g : g # wimSrc /\ Whole(dataPartition, g) => Whole(dataPartition, g)'
      BY <1>1, <1>3, <2>3, PutKeeps DEF Step, Goto
    <3>2. Has(files)'
      BY <1>1, <1>2, <1>3, <2>1, <3>1 DEF Has
    <3> QED
      BY <1>1, <1>2, <2>3, <3>1, <3>2 DEF CompleteInv, OnDisk, Installed
  <2>4. CASE wim' = "running" /\ content' = Put(dataPartition, swm, "cut") /\ Step("split")
    <3>1. pc' = "split" /\ \A g : g # swm /\ Whole(dataPartition, g) => Whole(dataPartition, g)'
      BY <1>1, <1>3, <2>4, PutKeeps DEF Step, Goto
    <3> QED
      BY <1>6, <2>1, <2>4, <3>1
  <2> QED
    BY <1>10, <2>2, <2>3, <2>4 DEF handleWim, Fail, Leave
<1>11. CASE copyWim
  <2>1. Has(files) /\ cur = wimSrc
    BY <1>11 DEF copyWim, CompleteInv
  <2>2. CASE ChunksCopied /\ Step("unmountIso")
    <3>1. content' = Put(dataPartition, wimSrc, "whole")
      BY <2>1, <2>2 DEF ChunksCopied
    <3> QED
      BY <1>1, <1>2, <1>3, <1>5, <2>1, <2>2, <3>1, PutKeeps DEF Step, Goto
  <2>3. CASE wim' = "running" /\ content' = Put(dataPartition, swm, "cut") /\ Step("fallback")
    <3>1. pc' = "fallback" /\ \A g : g # swm /\ Whole(dataPartition, g) => Whole(dataPartition, g)'
      BY <1>1, <1>3, <2>3, PutKeeps DEF Step, Goto
    <3> QED
      BY <1>6, <2>1, <2>3, <3>1
  <2> QED
    BY <1>11, <2>2, <2>3 DEF copyWim, FailCopy, Fail, Leave
<1>12. CASE splitWimLib \/ fallbackSplit
  <2>1. /\ Has(files) /\ Whole(dataPartition, swm) /\ pc' = "unmountIso" /\ content' = content
    BY <1>12 DEF splitWimLib, fallbackSplit, SplitEnds, Leave, Step, Goto, CompleteInv
  <2> QED
    BY <1>4, <1>5, <2>1
<1> QED
  BY <1>7, <1>8, <1>9, <1>10, <1>11, <1>12 DEF CopyStep

(* Everything that leaves the files and the request alone.                 *)
LEMMA NothingWritten ==
  ASSUME DWTypes, CompleteInv, UNCHANGED <<content, fs, config, req, shown, chunk, raw, todo, cur>>,
         \/ pc' = pc /\ wim' = wim /\ result' = result
         \/ pc \in Installed /\ pc' \in Installed /\ (pc' \in {"mountEfi", "copyEfi"} => dualPartition)
  PROVE  CompleteInv'
<1>1. dataPartition' = dataPartition /\ dualPartition' = dualPartition /\ (\A f : exists(f)' = exists(f))
      /\ wimSrc' = wimSrc
  BY DEF dataPartition, dualPartition, isWindows, exists, InImage, wimSrc
<1>2. \A f : Whole(dataPartition, f)' = Whole(dataPartition, f)
  BY <1>1 DEF Whole
<1>3. Copied => Copied'
  BY <1>2, CopiedKept DEF DWTypes, DWTypeOK
<1>4. \A files : Has(files) => \A f \in files : (exists(f)' /\ f \notin InstallFile) => Whole(dataPartition, f)'
  BY <1>1, <1>2 DEF Has
<1>5. CASE pc' = pc /\ wim' = wim /\ result' = result
  <2>1. Has(DOMAIN req.tree \ todo) => Has(DOMAIN req.tree \ todo)'
    BY <1>4 DEF Has
  <2>2. Has(DOMAIN req.tree \ (todo \cup {cur})) => Has(DOMAIN req.tree \ (todo \cup {cur}))'
    BY <1>4 DEF Has
  <2>3. Has(DOMAIN req.tree) => Has(DOMAIN req.tree)'
    BY <1>4 DEF Has
  <2>4. Whole(dataPartition, swm) => Whole(dataPartition, swm)'
    BY <1>2
  <2> QED
    BY <1>1, <1>3, <1>5, <2>1, <2>2, <2>3, <2>4 DEF CompleteInv
<1>6. CASE pc \in Installed /\ pc' \in Installed /\ (pc' \in {"mountEfi", "copyEfi"} => dualPartition)
  <2>1. Copied' /\ req'.mode = "ISO" /\ fs'[dataPartition'] = config'.filesystem
    BY <1>1, <1>3, <1>6 DEF CompleteInv, OnDisk, Installed
  <2> QED
    BY <1>1, <1>6, <2>1 DEF CompleteInv, OnDisk, Installed
<1> QED
  BY <1>5, <1>6

(* From the call to the mounted partition, and a raw write.                *)
LEMMA EntryComplete ==
  ASSUME DWTypes, PrepareInv, CompleteInv, pc' # "idle", Entry \/ diskPrepared \/ mountIso \/ mountTarget
  PROVE  CompleteInv'
<1>1. CASE StartWrite
  BY <1>1 DEF StartWrite, CompleteInv, OnDisk, Installed
<1>2. CASE writeDdMode
  <2>1. pc' = "dd" /\ req'.mode = "DD" /\ raw' = {} /\ chunk' = 0
    BY <1>2 DEF writeDdMode, CompleteInv
  <2>2. raw' = 1..chunk'
    BY <2>1
  <2> QED
    BY <2>1, <2>2 DEF CompleteInv, OnDisk, Installed
<1>3. CASE ddWriteChunk
  <2>1. /\ pc = "dd" /\ pc' = "dd" /\ req' = req /\ chunk' = chunk + 1 /\ raw' = raw \cup {chunk + 1}
        /\ chunk \in Nat
    BY <1>3, DWAssumption DEF ddWriteChunk, pmVars, DWTypes, DWTypeOK
  <2>2. raw' = 1..chunk' /\ req'.mode = "DD"
    BY <2>1 DEF CompleteInv
  <2> QED
    BY <2>1, <2>2 DEF CompleteInv, OnDisk, Installed
<1>4. CASE writeIsoMode \/ (PMStep /\ UNCHANGED dwVars)
  <2>1. pc' \in PMControl
    BY <1>4 DEF writeIsoMode, StartPrepare, PMStep, unmountAll, unmountAllReturns, wipeDisk,
                partitionDisk, formatPartition, PrepareFails
  <2> QED
    BY <2>1 DEF CompleteInv, OnDisk, Installed
<1>5. CASE ddFails \/ ddReturns \/ configUnreadable
  BY <1>5 DEF ddFails, ddReturns, configUnreadable, Leave
<1>6. CASE diskPrepared
  <2>1. pc = "prepared" /\ pc' = "mountIso" /\ partitions # <<>> /\ UNCHANGED <<req, config, fs>>
    BY <1>6 DEF diskPrepared, Fail, Leave, Step, Goto
  <2>2. req.mode = "ISO" /\ fs[dataPartition] = config.filesystem /\ dataPartition' = dataPartition
    BY <2>1, DataFormatted DEF PrepareInv, dataPartition, dualPartition, isWindows
  <2> QED
    BY <2>1, <2>2 DEF CompleteInv, OnDisk, Installed
<1>7. CASE mountIso \/ mountTarget
  <2>1. /\ pc' \in {"mountTarget", "copyDir"} /\ UNCHANGED <<req, config, fs>>
        /\ pc \in OnDisk /\ (pc' = "copyDir" => todo' = shown /\ shown' = shown)
    BY <1>7 DEF mountIso, mountTarget, Leave, Step, Goto, OnDisk
  <2>2. req.mode = "ISO" /\ fs[dataPartition] = config.filesystem /\ dataPartition' = dataPartition
    BY <2>1 DEF CompleteInv, dataPartition, dualPartition, isWindows
  <2>3. pc' = "copyDir" => Has(DOMAIN req.tree \ todo)'
    BY <2>1 DEF Has, exists
  <2> QED
    BY <2>1, <2>2, <2>3 DEF CompleteInv, OnDisk, Installed
<1>8. CASE Entry
  BY <1>1, <1>2, <1>3, <1>4, <1>5, <1>8 DEF Entry
<1> QED
  BY <1>6, <1>7, <1>8

(* What is on the drive stays there while the rest of write runs.          *)
LEMMA EndComplete ==
  ASSUME DWTypes, CompleteInv, pc' # "idle",
         \/ unmountIso \/ unmountTarget \/ mountEfi \/ copyEfi
         \/ mountBoot \/ installGrubBios \/ umountBoot
  PROVE  CompleteInv'
<1>1. /\ pc \in Installed /\ pc' \in Installed
      /\ UNCHANGED <<fs, config, req, shown, chunk, raw, todo, cur>>
      /\ pc' \in {"mountEfi", "copyEfi"} => dualPartition
  BY DEF unmountIso, unmountTarget, mountEfi, copyEfi, mountBoot, installGrubBios, umountBoot, Fail, Leave,
         Step, Goto, Installed, CompleteInv
<1>2. CASE content' = content
  BY <1>1, <1>2, NothingWritten
<1>3. CASE content' # content
  <2>1. /\ dataPartition' = dataPartition /\ dualPartition' = dualPartition
        /\ content \in Contents /\ dataPartition \in Part
    BY <1>1, RequestFacts DEF dataPartition, dualPartition, isWindows, DWTypes, DWTypeOK, PMTypeOK,
                              HostTypeOK, Contents
  <2>2. copyEfi \/ installGrubBios
    BY <1>3 DEF unmountIso, unmountTarget, mountEfi, mountBoot, umountBoot, Fail, Leave
  <2>3. \A f : f # "boot/grub" /\ Whole(dataPartition, f) => Whole(dataPartition, f)'
    <3>1. CASE copyEfi
      <4>1. dataPartition = 2
        BY <3>1 DEF copyEfi, CompleteInv, dataPartition
      <4>2. \E state \in {"whole", "cut"} : content' = Put(1, EfiBootFile, state)
        BY <1>3, <3>1 DEF copyEfi
      <4>3. content'[2] = content[2]
        BY <2>1, <4>2, PutFacts DEF FileName, File
      <4> QED
        BY <2>1, <4>1, <4>3 DEF Whole
    <3>2. CASE installGrubBios
      <4>1. \E state \in {"whole", "cut"} : content' = Put(1, "boot/grub", state)
        BY <1>3, <3>2 DEF installGrubBios
      <4>2. \A f : f # "boot/grub" /\ Whole(1, f) => <<f, "whole">> \in content'[1]
        BY <2>1, <4>1, PutFacts DEF FileName, Whole
      <4>3. content'[2] = content[2]
        BY <2>1, <4>1, PutFacts DEF FileName
      <4> QED
        BY <2>1, <4>2, <4>3 DEF Whole, dataPartition
    <3> QED
      BY <2>2, <3>1, <3>2
  <2>4. Copied' /\ req'.mode = "ISO" /\ fs'[dataPartition'] = config'.filesystem
    BY <1>1, <2>1, <2>3, CopiedKept DEF CompleteInv, OnDisk, Installed, DWTypes, DWTypeOK
  <2> QED
    BY <1>1, <2>1, <2>4 DEF CompleteInv, OnDisk, Installed
<1> QED
  BY <1>2, <1>3

(* What surrounds the thread adds the parts of a wim, and takes nothing.   *)
LEMMA EnvironmentComplete ==
  ASSUME "writeBack" \notin Faults, DWTypes, CompleteInv, Environment \/ UNCHANGED vars
  PROVE  CompleteInv'
<1>1. CASE WimlibFinishes /\ Splitting
  <2>1. /\ UNCHANGED <<pc, fs, req, shown, config, raw, chunk>> /\ pc \in {"split", "fallback"}
        /\ swm \in FileName /\ DOMAIN req.tree \subseteq File /\ swm \notin File
        /\ Has(DOMAIN req.tree) /\ req.mode = "ISO" /\ fs[dataPartition] = config.filesystem
    BY <1>1, RequestFacts DEF WimlibFinishes, Splitting, dwVars, FileName, File, InstallFile, BootWim,
                              EfiBootFile, LiveFile, swm, CompleteInv, DWTypes, OnDisk
  <2>2. /\ dataPartition' = dataPartition /\ \A f : exists(f)' = exists(f)
    BY <2>1 DEF dataPartition, dualPartition, isWindows, exists, InImage
  <2>3. CASE content' = Put(dataPartition, swm, "whole")
    <3>1. Has(DOMAIN req.tree)' /\ Whole(dataPartition, swm)'
      BY <2>1, <2>2, <2>3, PutKeeps DEF Has
    <3> QED
      BY <2>1, <2>2, <3>1 DEF CompleteInv, OnDisk, Installed
  <2>4. CASE content' = content /\ wim' = "bad"
    <3>1. Has(DOMAIN req.tree)'
      BY <2>1, <2>2, <2>4 DEF Has, Whole
    <3> QED
      BY <2>1, <2>2, <2>4, <3>1 DEF CompleteInv, OnDisk, Installed
  <2> QED
    BY <1>1, <2>3, <2>4 DEF WimlibFinishes
<1>2. CASE WimlibFinishes /\ ~Splitting
  <2>1. /\ UNCHANGED <<pc, content, fs, config, req, shown, chunk, raw, todo, cur, result>>
        /\ pc \notin {"split", "fallback"}
    BY <1>2 DEF WimlibFinishes, dwVars, Splitting
  <2>2. dataPartition' = dataPartition /\ dualPartition' = dualPartition /\ (\A f : exists(f)' = exists(f))
        /\ wimSrc' = wimSrc /\ Copied' = Copied
    BY <2>1 DEF dataPartition, dualPartition, isWindows, exists, InImage, wimSrc, Copied, Holds, Delivered, Whole
  <2>3. \A f : Whole(dataPartition, f)' = Whole(dataPartition, f)
    BY <2>1, <2>2 DEF Whole
  <2>4. /\ Has(DOMAIN req.tree \ todo) => Has(DOMAIN req.tree \ todo)'
        /\ Has(DOMAIN req.tree \ (todo \cup {cur})) => Has(DOMAIN req.tree \ (todo \cup {cur}))'
        /\ Has(DOMAIN req.tree) => Has(DOMAIN req.tree)'
    BY <2>1, <2>2, <2>3 DEF Has
  <2> QED
    BY <2>1, <2>2, <2>3, <2>4 DEF CompleteInv
<1>3. CASE cancel \/ (DesktopMount /\ UNCHANGED <<pmVars, dwVars>>) \/ UNCHANGED vars
  <2>1. UNCHANGED <<content, fs, config, req, shown, chunk, raw, todo, cur>> /\ UNCHANGED <<pc, wim, result>>
    BY <1>3 DEF cancel, DesktopMount, hostVars, pmVars, dwVars, vars
  <2> QED
    BY <2>1, NothingWritten
<1>4. CASE Kill
  BY <1>4 DEF Kill, Leave, CompleteInv, OnDisk, Installed
<1> QED
  BY <1>1, <1>2, <1>3, <1>4 DEF Environment, WriteBack

(* One step, of the thread or of what surrounds it.                        *)
LEMMA CompleteNext ==
  ASSUME Faults \cap {"umountError", "mountLate", "writeBack", "flushLost"} = {}, OneInstaller,
         DWTypes, MountInv, PrepareInv, CompleteInv, [DWNext]_vars
  PROVE  CompleteInv'
<1>1. Faults \cap {"umountError", "mountLate"} = {} /\ "writeBack" \notin Faults /\ "flushLost" \notin Faults
  OBVIOUS
<1>2. CASE Backend /\ pc' = "idle"
  BY <1>1, <1>2, ReturnComplete
<1>3. CASE CopyStep /\ pc' # "idle"
  BY <1>1, <1>3, CopyComplete
<1>4. CASE pc' # "idle" /\ (Entry \/ diskPrepared \/ mountIso \/ mountTarget)
  BY <1>4, EntryComplete
<1>5. CASE \/ (unmountIso /\ pc' # "idle") \/ unmountTarget \/ mountEfi \/ copyEfi
           \/ mountBoot \/ installGrubBios \/ umountBoot
  <2>1. pc' # "idle"
    BY <1>5 DEF unmountTarget, mountEfi, copyEfi, mountBoot, installGrubBios, umountBoot, Step, Goto
  <2> QED
    BY <1>5, <2>1, EndComplete
<1>6. CASE Environment \/ UNCHANGED vars
  BY <1>1, <1>6, EnvironmentComplete
<1>7. CASE StartWrite
  <2>1. pc' # "idle"
    BY <1>7 DEF StartWrite
  <2> QED
    BY <1>7, <2>1, EntryComplete DEF Entry
<1>8. CASE Backend /\ pc' # "idle"
  <2>1. writeReturns => pc' = "idle"
    BY DEF writeReturns, Leave
  <2> QED
    BY <1>3, <1>4, <1>5, <1>8, <2>1 DEF Backend, Entry, CopyStep
<1> QED
  BY <1>2, <1>6, <1>7, <1>8 DEF DWNext

(* A write that is said to have succeeded has put all that the mounted     *)
(* image showed on the drive (write, disk_writer.cpp), unless the host or  *)
(* the drive loses what it has acknowledged: each fault left out here      *)
(* breaks it in a run or in the code.                                      *)
THEOREM SuccessIsCopied ==
  ASSUME Faults \cap {"umountError", "mountLate", "writeBack", "flushLost"} = {}, OneInstaller
  PROVE  DWSpec => []SuccessMeansCopied
<1>1. DWInit => MountInv /\ PrepareInv /\ CompleteInv /\ ReportInv
  BY ReportInit DEF DWInit, HostInit, MountInv, PrepareInv, CompleteInv, OnDisk, Installed
<1>2. ReportInv /\ CompleteInv => SuccessMeansCopied
  BY DEF ReportInv, CompleteInv, SuccessMeansCopied
<1>3. Faults \cap {"umountError", "mountLate"} = {}
  OBVIOUS
<1> QED
  BY <1>1, <1>2, <1>3, TypesInit, TypesNext, MountNext, PrepareNext, CompleteNext, ReportNext, PTL DEF DWSpec

(* Only mountIso decides what is shown.                                    *)
LEMMA ShownNext ==
  ASSUME CompleteInv, ShownInv, [DWNext]_vars
  PROVE  ShownInv'
<1>1. CASE mountIso
  BY <1>1 DEF mountIso, Goto, Leave, ShownInv, Looking, ImageViews, OnDisk, Installed
<1>2. ASSUME UNCHANGED <<shown, req>>, Looking' => Looking PROVE ShownInv'
  BY <1>2 DEF ShownInv, ImageViews
<1>3. CASE Backend /\ pc' = "idle"
  <2>1. CASE ddReturns \/ writeReturns
    BY <1>2, <2>1 DEF ddReturns, writeReturns, Leave, Looking, CompleteInv, OnDisk, Installed
  <2>2. CASE ~(ddReturns \/ writeReturns)
    BY <1>3, <2>2, SuccessReturns DEF ShownInv, Looking, OnDisk, Installed
  <2> QED
    BY <2>1, <2>2
<1>4. CASE CopyStep \/ mountTarget \/ unmountIso \/ unmountTarget \/ mountEfi \/ copyEfi \/ mountBoot
           \/ installGrubBios \/ umountBoot
  <2>1. pc \in OnDisk \ {"mountIso"} /\ (pc' # "idle" => UNCHANGED <<shown, req>>)
    BY <1>4 DEF CopyStep, mountTarget, copyDirRecursive, copyDirReturns, copyFileChunked, handleWim, copyWim,
       splitWimLib, fallbackSplit, unmountIso, unmountTarget, mountEfi, copyEfi, mountBoot, installGrubBios,
       umountBoot, FailCopy, Fail, SplitEnds, Leave, Step, Goto, OnDisk, Installed
  <2>2. pc' # "idle" => ShownInv'
    BY <1>2, <2>1 DEF Looking
  <2> QED
    BY <1>3, <1>4, <2>2 DEF CopyStep, Backend
<1>5. CASE StartWrite \/ writeIsoMode \/ writeDdMode \/ ddWriteChunk \/ diskPrepared
           \/ (PMStep /\ UNCHANGED dwVars)
  <2>1. pc' \in PMControl \cup {"entered", "dd", "mountIso"} \/ (pc' = "idle" /\ Backend)
    BY <1>5 DEF StartWrite, writeIsoMode, StartPrepare, writeDdMode, ddWriteChunk, diskPrepared, PMStep,
       unmountAll, unmountAllReturns, wipeDisk, partitionDisk, formatPartition, PrepareFails, PMControl,
       Step, Goto, Fail, Leave, Backend, pmVars
  <2> QED
    BY <1>3, <2>1 DEF ShownInv, Looking, OnDisk, Installed, PMControl
<1>6. CASE Environment \/ UNCHANGED vars
  <2>1. CASE Kill
    BY <2>1 DEF Kill, Leave, ShownInv, Looking, OnDisk, Installed
  <2>2. CASE ~Kill
    BY <1>2, <1>6, <2>2 DEF Environment, WimlibFinishes, cancel, WriteBack, DesktopMount, vars, pmVars, dwVars,
       Looking
  <2> QED
    BY <2>1, <2>2
<1> QED
  BY <1>1, <1>3, <1>4, <1>5, <1>6 DEF DWNext, Backend, CopyStep, configUnreadable, ddFails, ddReturns,
     writeReturns, Leave

(* A mount of an image whose ISO 9660 directory lists every file shows     *)
(* every file.                                                             *)
LEMMA CopiedIsWhole ==
  ASSUME WholeListed, DWTypes, Copied, req.mode = "ISO" => shown \in ImageViews
  PROVE  ImageOnDrive
<1>1. req \in Requests /\ req.mode \in {"ISO", "DD"}
  BY DWAssumption DEF DWTypes, DWTypeOK, Request
<1>2. ASSUME NEW f \in DOMAIN req.tree, InImage(f), req.mode = "ISO" PROVE f \in shown
  BY <1>1, <1>2 DEF WholeListed, InImage, ImageViews
<1> QED
  BY <1>1, <1>2 DEF Copied, ImageOnDrive, Holds

(* A write that is said to have succeeded ("USB drive created              *)
(* successfully!", mainwindow.cpp:740) has put the whole image on the      *)
(* drive, when the image has no stub for the second attempt of             *)
(* mountPartition to show (disk_writer.cpp:386).                           *)
THEOREM SuccessIsComplete ==
  ASSUME Faults \cap {"umountError", "mountLate", "writeBack", "flushLost"} = {}, OneInstaller,
         WholeListed
  PROVE  DWSpec => []SuccessMeansComplete
<1>1. DWInit => MountInv /\ PrepareInv /\ CompleteInv /\ ReportInv /\ ShownInv
  BY ReportInit DEF DWInit, HostInit, MountInv, PrepareInv, CompleteInv, ShownInv, Looking, OnDisk, Installed
<1>2. DWTypes /\ ReportInv /\ CompleteInv /\ ShownInv => SuccessMeansComplete
  BY CopiedIsWhole DEF ReportInv, CompleteInv, ShownInv, Looking, SuccessMeansComplete
<1>3. Faults \cap {"umountError", "mountLate"} = {}
  OBVIOUS
<1> QED
  BY <1>1, <1>2, <1>3, TypesInit, TypesNext, MountNext, PrepareNext, CompleteNext, ReportNext, ShownNext,
     PTL DEF DWSpec

-----------------------------------------------------------------------------
(* Nothing but the image.                                                  *)

(* The GUI's layout, and an image whose installer has been seen.           *)
LEMMA SeenFacts ==
  ASSUME InstallerSeen, DWTypes
  PROVE  /\ ~dualPartition /\ dataPartition = 1 /\ content \in Contents
         /\ exists(wimSrc) => isWindows
<1>1. req \in Requests /\ DOMAIN req.tree \subseteq File /\ content \in Contents
  BY RequestFacts DEF DWTypes, DWTypeOK, PMTypeOK, HostTypeOK, Contents
<1>2. ~req.dualPartition
  BY <1>1 DEF InstallerSeen
<1>3. wimSrc \in InstallFile
  BY DEF wimSrc, InstallFile
<1>4. exists(wimSrc) => isWindows
  BY <1>1, <1>3 DEF InstallerSeen, exists, InImage, isWindows
<1> QED
  BY <1>1, <1>2, <1>4 DEF dualPartition, dataPartition

(* A step that copies nothing, and a return that claims nothing.           *)
LEMMA CleanStays ==
  ASSUME CleanInv, UNCHANGED <<req, table, config>>, AtWork',
         \/ pc' \notin OnDisk \cup {"idle"}
         \/ pc' = "idle" /\ (result' # "ok" \/ req.mode = "DD")
         \/ /\ pc \in OnDisk \ {"copyFile", "copyWim", "split"}
            /\ \A e \in content'[1] : e \in content[1] \/ Clean(e)
  PROVE  CleanInv'
<1>1. \A e : Clean(e)' = Clean(e)
  BY DEF Clean
<1> QED
  BY <1>1 DEF CleanInv, OnDisk, Installed

(* The tree, the wim and its parts.                                        *)
LEMMA CopyClean ==
  ASSUME "flushLost" \notin Faults, InstallerSeen, DWTypes, CleanInv, pc' # "idle", CopyStep
  PROVE  CleanInv'
<1>1. /\ UNCHANGED <<req, table, config>> /\ Len(table) = 1 /\ pc \in OnDisk
      /\ AtWork /\ \A e : Clean(e)' = Clean(e)
  BY DEF CopyStep, copyDirRecursive, copyDirReturns, copyFileChunked, handleWim, copyWim, splitWimLib,
     fallbackSplit, FailCopy, Fail, SplitEnds, Leave, Step, Goto, CleanInv, OnDisk, Clean
<1>2. /\ dataPartition = 1 /\ content \in Contents /\ 1 \in Part /\ isWindows' = isWindows
      /\ DOMAIN req.tree \subseteq FileName /\ swm \in FileName /\ (exists(wimSrc) => isWindows)
  BY <1>1, SeenFacts, RequestFacts DEF DWTypes, isWindows, FileName
<1>3. ASSUME NEW f \in FileName, NEW state \in {"whole", "cut"}, content' = Put(dataPartition, f, state)
      PROVE  content'[1] = {e \in content[1] : e[1] # f} \cup {<<f, state>>}
  BY <1>2, <1>3, PutFacts
<1>4. pc \notin {"copyFile", "copyWim", "split"} => \A e \in content[1] : Clean(e)
  BY <1>1 DEF CleanInv
<1>5. CASE copyDirRecursive
  <2>1. pc = "copyDir" /\ todo \subseteq DOMAIN req.tree
    BY <1>1, <1>5 DEF copyDirRecursive, AtWork
  <2>2. PICK f \in todo :
          /\ todo' = todo \ {f}
          /\ IF excluded(f) \/ req.tree[f] = Link
             THEN Step("copyDir") /\ UNCHANGED <<cur, content>>
             ELSE Step("copyFile") /\ cur' = f /\ content' = Put(dataPartition, f, "cut")
    BY <1>5 DEF copyDirRecursive, FailCopy, Fail, Leave
  <2>3. CASE excluded(f) \/ req.tree[f] = Link
    <3>1. pc' = "copyDir" /\ content' = content /\ todo' \subseteq DOMAIN req.tree
      BY <2>1, <2>2, <2>3 DEF Step, Goto
    <3>2. AtWork'
      BY <1>1, <3>1 DEF AtWork
    <3> QED
      BY <1>1, <2>1, <3>1, <3>2, CleanStays
  <2>4. CASE ~(excluded(f) \/ req.tree[f] = Link)
    <3>1. /\ pc' = "copyFile" /\ cur' = f /\ f \in DOMAIN req.tree /\ todo' \subseteq DOMAIN req.tree
          /\ content'[1] = {e \in content[1] : e[1] # f} \cup {<<f, "cut">>}
      BY <1>2, <1>3, <2>1, <2>2, <2>4 DEF Step, Goto
    <3>2. AtWork'
      BY <1>1, <3>1 DEF AtWork
    <3> QED
      BY <1>1, <1>4, <2>1, <3>1, <3>2 DEF CleanInv
  <2> QED
    BY <2>3, <2>4
<1>6. CASE copyDirReturns
  <2>1. pc = "copyDir" /\ pc' = "wim" /\ content' = content
    BY <1>6 DEF copyDirReturns, FailCopy, Fail, Leave, Step, Goto
  <2>2. AtWork'
    BY <2>1 DEF AtWork
  <2> QED
    BY <1>1, <2>1, <2>2, CleanStays
<1>7. CASE copyFileChunked
  <2>1. /\ pc = "copyFile" /\ pc' = "copyDir" /\ content' = Put(dataPartition, cur, "whole")
        /\ UNCHANGED todo /\ cur \in DOMAIN req.tree /\ todo \subseteq DOMAIN req.tree
    BY <1>1, <1>7 DEF copyFileChunked, ChunksCopied, FailCopy, Fail, Leave, Step, Goto, AtWork
  <2>2. content'[1] = {e \in content[1] : e[1] # cur} \cup {<<cur, "whole">>}
    BY <1>2, <1>3, <2>1
  <2>3. \A e \in content'[1] : Clean(e)
    <3>1. Clean(<<cur, "whole">>)
      BY <2>1 DEF Clean
    <3> QED
      BY <2>1, <2>2, <3>1 DEF CleanInv, OnDisk
  <2>4. AtWork'
    BY <1>1, <2>1 DEF AtWork
  <2> QED
    BY <1>1, <2>1, <2>3, <2>4 DEF CleanInv
<1>8. CASE handleWim
  <2>1. pc = "wim"
    BY <1>8 DEF handleWim
  <2>2. CASE Step("unmountIso") /\ UNCHANGED content
    <3>1. pc' = "unmountIso" /\ AtWork'
      BY <2>2 DEF Step, Goto, AtWork
    <3> QED
      BY <1>1, <2>1, <2>2, <3>1, CleanStays
  <2>3. CASE /\ exists(wimSrc) /\ cur' = wimSrc /\ content' = Put(dataPartition, wimSrc, "cut")
             /\ Step("copyWim")
    <3>1. pc' = "copyWim" /\ cur' \in DOMAIN req.tree /\ wimSrc \in DOMAIN req.tree
      BY <2>3 DEF Step, Goto, exists, InImage
    <3>2. content'[1] = {e \in content[1] : e[1] # wimSrc} \cup {<<wimSrc, "cut">>}
      BY <1>2, <1>3, <2>3, <3>1
    <3>3. AtWork'
      BY <1>1, <1>2, <2>3, <3>1 DEF AtWork
    <3> QED
      BY <1>1, <1>4, <2>1, <2>3, <3>1, <3>2, <3>3 DEF CleanInv
  <2>4. CASE wim' = "running" /\ content' = Put(dataPartition, swm, "cut") /\ Step("split")
    <3>1. pc' = "split" /\ AtWork'
      BY <2>4 DEF Step, Goto, AtWork
    <3>2. content'[1] = {e \in content[1] : e[1] # swm} \cup {<<swm, "cut">>}
      BY <1>2, <1>3, <2>4
    <3> QED
      BY <1>1, <1>4, <2>1, <2>4, <3>1, <3>2 DEF CleanInv
  <2> QED
    BY <1>8, <2>2, <2>3, <2>4 DEF handleWim, Fail, Leave
<1>9. CASE copyWim
  <2>1. /\ pc = "copyWim" /\ pc' = "unmountIso" /\ content' = Put(dataPartition, cur, "whole")
        /\ cur \in DOMAIN req.tree
    BY <1>1, <1>9 DEF copyWim, ChunksCopied, FailCopy, Fail, Leave, Step, Goto, AtWork
  <2>2. content'[1] = {e \in content[1] : e[1] # cur} \cup {<<cur, "whole">>}
    BY <1>2, <1>3, <2>1
  <2>3. \A e \in content'[1] : Clean(e)
    <3>1. Clean(<<cur, "whole">>)
      BY <2>1 DEF Clean
    <3> QED
      BY <2>1, <2>2, <3>1 DEF CleanInv, OnDisk
  <2>4. AtWork'
    BY <2>1 DEF AtWork
  <2> QED
    BY <1>1, <2>1, <2>3, <2>4 DEF CleanInv
<1>10. CASE splitWimLib
  <2>1. pc = "split" /\ wim = "ok" /\ pc' = "unmountIso" /\ content' = content
    BY <1>10 DEF splitWimLib, SplitEnds, Leave, Step, Goto
  <2>2. AtWork' /\ \A e \in content'[1] : Clean(e)
    BY <1>1, <2>1 DEF AtWork, CleanInv
  <2> QED
    BY <1>1, <2>1, <2>2 DEF CleanInv
<1> QED
  BY <1>1, <1>5, <1>6, <1>7, <1>8, <1>9, <1>10 DEF CopyStep, fallbackSplit, AtWork

(* prepareDisk leaves a single, empty partition to mount.                  *)
LEMMA PreparedClean ==
  ASSUME InstallerSeen, DWTypes, PrepareInv, CleanInv, pc' # "idle",
         diskPrepared \/ (PMStep /\ UNCHANGED dwVars)
  PROVE  CleanInv'
<1>1. CASE diskPrepared
  <2>1. /\ pc = "prepared" /\ partitions # <<>> /\ pc' = "mountIso"
        /\ UNCHANGED <<content, table, req>>
    BY <1>1 DEF diskPrepared, Fail, Leave, Step, Goto
  <2>2. config.dual = FALSE /\ table = NewTable /\ Len(partitions) = 1 /\ content[1] = {}
    <3>1. config.dual = FALSE /\ Formatted /\ Len(partitions) = 1
      BY <2>1, SeenFacts DEF PrepareInv
    <3> QED
      BY <2>1, <3>1 DEF Formatted, CleanInv, AtWork
  <2>3. Len(table) = 1
    BY <2>2, NewTableType DEF DWTypes, DWTypeOK, PMTypeOK
  <2> QED
    BY <2>1, <2>2, <2>3 DEF CleanInv, AtWork
<1>2. CASE PMStep /\ UNCHANGED dwVars
  <2>1. /\ pc' \in {"unmountAll", "wipeDisk", "partitionDisk", "format", "prepared"}
        /\ req' = req /\ config' = config
    BY <1>2 DEF PMStep, unmountAll, unmountAllReturns, wipeDisk, partitionDisk, formatPartition,
                PrepareFails, dwVars
  <2>2. NewTable' = NewTable
    BY <2>1 DEF NewTable
  <2>3. (pc' = "format" \/ (pc' = "prepared" /\ partitions' # <<>>)) => table' = NewTable
    BY <1>2 DEF PMStep, unmountAll, unmountAllReturns, wipeDisk, partitionDisk, formatPartition,
                PrepareFails, hostVars, CleanInv, AtWork
  <2> QED
    BY <2>1, <2>2, <2>3 DEF CleanInv, AtWork, OnDisk, Installed
<1> QED
  BY <1>1, <1>2

EndStep ==
  \/ mountIso \/ mountTarget \/ unmountIso \/ unmountTarget \/ mountEfi \/ copyEfi
  \/ mountBoot \/ installGrubBios \/ umountBoot

(* What mounts, unmounts, or adds the boot loader.                         *)
LEMMA EndClean ==
  ASSUME InstallerSeen, DWTypes, CleanInv, pc' # "idle", EndStep
  PROVE  CleanInv'
<1>1. /\ UNCHANGED <<req, table, config>> /\ pc \in OnDisk \ {"copyFile", "copyWim", "split", "copyEfi"}
      /\ pc' \in OnDisk \ {"copyFile", "copyWim", "split", "copyEfi", "mountEfi", "fallback"}
      /\ pc' = "mountTarget" => shown' \subseteq DOMAIN req.tree
      /\ pc' = "copyDir" => todo' \subseteq DOMAIN req.tree
  BY SeenFacts, RequestFacts DEF DWTypes, ImageViews, EndStep, mountIso, mountTarget, unmountIso, unmountTarget, mountEfi, copyEfi, mountBoot,
     installGrubBios, umountBoot, Fail, Leave, Step, Goto, OnDisk, Installed, CleanInv, AtWork
<1>2. AtWork'
  BY <1>1 DEF AtWork, OnDisk, Installed
<1>3. ASSUME NEW e \in content'[1] PROVE e \in content[1] \/ Clean(e)
  <2>1. CASE content' = content
    BY <2>1
  <2>2. CASE \E state \in {"whole", "cut"} : content' = Put(1, "boot/grub", state)
    <3>1. \A x \in content'[1] : x \in content[1] \/ x[1] = "boot/grub"
      BY <2>2, SeenFacts, PutFacts DEF FileName
    <3>2. \A x : x[1] = "boot/grub" => Clean(x)
      BY DEF Clean
    <3> QED
      BY <3>1, <3>2
  <2> QED
    BY <1>1, <2>1, <2>2 DEF EndStep, mountIso, mountTarget, unmountIso, unmountTarget, mountEfi, copyEfi,
       mountBoot, installGrubBios, umountBoot, Fail, Leave
<1> QED
  BY <1>1, <1>2, <1>3, CleanStays

(* A return, and what goes on around the thread.                           *)
LEMMA AroundClean ==
  ASSUME InstallerSeen, DWTypes, CleanInv,
         \/ Backend /\ pc' = "idle"
         \/ StartWrite \/ writeIsoMode \/ (writeDdMode /\ pc' # "idle") \/ ddWriteChunk
         \/ Environment \/ UNCHANGED vars
  PROVE  CleanInv'
<1>1. CASE Backend /\ pc' = "idle"
  <2>1. AtWork'
    BY <1>1 DEF AtWork
  <2>2. CASE result' # "ok"
    BY <1>1, <2>1, <2>2 DEF CleanInv, OnDisk, Installed
  <2>3. CASE ddReturns
    BY <1>1, <2>1, <2>3 DEF ddReturns, Leave, CleanInv, AtWork, OnDisk, Installed
  <2>4. CASE writeReturns
    <3>1. /\ UNCHANGED <<req, table, config>> /\ pc = "sync" /\ content'[1] \subseteq content[1]
      BY <2>4 DEF writeReturns, RemoveTempDir, Leave
    <3> QED
      BY <2>1, <3>1, CleanStays DEF OnDisk, Installed
  <2> QED
    BY <1>1, <2>2, <2>3, <2>4, SuccessReturns
<1>2. CASE StartWrite \/ writeIsoMode \/ (writeDdMode /\ pc' # "idle") \/ ddWriteChunk
  <2>1. pc' \in {"entered", "unmountAll", "dd"} /\ (pc' = "dd" => req'.mode = "DD")
    BY <1>2 DEF StartWrite, writeIsoMode, StartPrepare, writeDdMode, ddWriteChunk, pmVars, CleanInv, AtWork
  <2> QED
    BY <2>1 DEF CleanInv, AtWork, OnDisk, Installed
<1>3. CASE cancel \/ WriteBack \/ (DesktopMount /\ UNCHANGED <<pmVars, dwVars>>) \/ UNCHANGED vars
  <2>1. UNCHANGED <<content, table, pc, config, partitions, wim, req, shown, todo, cur, result>>
    BY <1>3 DEF cancel, WriteBack, DesktopMount, hostVars, pmVars, dwVars, vars
  <2>2. isWindows' = isWindows /\ NewTable' = NewTable /\ \A e : Clean(e)' = Clean(e)
    BY <2>1 DEF isWindows, NewTable, Clean
  <2> QED
    BY <2>1, <2>2 DEF CleanInv, AtWork
<1>4. CASE Kill
  BY <1>4 DEF Kill, Leave, CleanInv, AtWork, OnDisk, Installed
<1>5. CASE WimlibFinishes
  <2>1. UNCHANGED <<table, pc, config, partitions, req, shown, todo, cur, result>>
    BY <1>5 DEF WimlibFinishes, dwVars
  <2>2. isWindows' = isWindows /\ NewTable' = NewTable /\ \A e : Clean(e)' = Clean(e)
    BY <2>1 DEF isWindows, NewTable, Clean
  <2>3. AtWork'
    BY <2>1, <2>2 DEF CleanInv, AtWork
  <2>4. CASE content' = content /\ (wim' # "ok" \/ pc # "split")
    BY <2>1, <2>2, <2>3, <2>4 DEF CleanInv
  <2>5. CASE Splitting /\ content' = Put(dataPartition, swm, "whole")
    <3>1. pc = "split" /\ pc \in OnDisk
      BY <2>5 DEF Splitting, CleanInv, AtWork, OnDisk
    <3>2. content'[1] = {e \in content[1] : e[1] # swm} \cup {<<swm, "whole">>}
      BY <2>5, SeenFacts, PutFacts DEF FileName
    <3>3. \A e \in content'[1] : Clean(e)
      BY <3>1, <3>2 DEF CleanInv, Clean
    <3> QED
      BY <2>1, <2>2, <2>3, <3>1, <3>3 DEF CleanInv
  <2> QED
    BY <1>5, <2>4, <2>5 DEF WimlibFinishes, Splitting
<1> QED
  BY <1>1, <1>2, <1>3, <1>4, <1>5 DEF Environment

(* One step of anyone.                                                     *)
LEMMA CleanNext ==
  ASSUME "flushLost" \notin Faults, InstallerSeen, DWTypes, PrepareInv, CleanInv, [DWNext]_vars
  PROVE  CleanInv'
<1>1. CASE Backend /\ pc' # "idle"
  <2>1. ~writeReturns /\ ~ddReturns /\ ~ddFails /\ ~configUnreadable
    BY <1>1 DEF writeReturns, ddReturns, ddFails, configUnreadable, Leave
  <2> QED
    BY <1>1, <2>1, CopyClean, PreparedClean, EndClean, AroundClean DEF Backend, CopyStep, EndStep
<1> QED
  BY <1>1, AroundClean DEF DWNext

(* A write in ISO mode that succeeds leaves nothing on the drive that is   *)
(* neither a whole file of the image nor of GRUB: prepareDisk and the copy *)
(* (disk_writer.cpp) see to it whatever the drive held and however an      *)
(* earlier write was stopped.                                              *)
THEOREM NothingButTheImage ==
  ASSUME "flushLost" \notin Faults, InstallerSeen
  PROVE  DWSpec => []OnlyTheImage
<1>1. DWInit => PrepareInv /\ CleanInv /\ ReportInv
  BY ReportInit DEF DWInit, HostInit, PrepareInv, CleanInv, AtWork, OnDisk, Installed
<1>2. ReportInv /\ CleanInv => OnlyTheImage
  <2> SUFFICES ASSUME ReportInv, CleanInv, result = "ok", req.mode = "ISO" PROVE OnlyTheImage
    BY DEF OnlyTheImage
  <2>1. pc = "idle"
    BY DEF ReportInv
  <2>2. Len(table) = 1 /\ \A e \in content[1] : Clean(e)
    BY <2>1 DEF CleanInv
  <2> QED
    BY <2>2 DEF OnlyTheImage, Clean
<1> QED
  BY <1>1, <1>2, TypesInit, TypesNext, PrepareNext, CleanNext, ReportNext, PTL DEF DWSpec
=============================================================================
