----------------------------- MODULE DiskWriter -----------------------------
(***************************************************************************)
(* DiskWriter::write of src/src/core/disk_writer.cpp with the              *)
(* Bootloader::install it calls (src/src/core/bootloader.cpp), run by      *)
(* runBackend (src/src/main.cpp) in a process of its own.  The backend     *)
(* thread is sequential: pc is its control point, shared with prepareDisk. *)
(* Around it run the wimlib-imagex child, a thread that may call cancel(), *)
(* the user who kills the backend and starts another, and the host.        *)
(***************************************************************************)
EXTENDS PartitionManager

CONSTANTS
  Requests,   \* the WriteConfigs that write is called with, and their images
  Chunks,     \* chunks of a raw write
  MaxRuns     \* bound: writes started

VARIABLES
  req,        \* the request being written
  shown,      \* files the mounted image shows
  todo,       \* files copyDirRecursive has not come to yet
  cur,        \* the file being copied
  chunk,      \* chunks writeDdMode has written
  raw,        \* chunks of the image that are on the drive
  cancelled,  \* m_cancelled
  result,     \* what the last write came to
  runs        \* writes started so far

dwVars == <<req, shown, todo, cur, chunk, raw, cancelled, result, runs>>

vars == <<hostVars, pmVars, dwVars>>

Request ==
  [mode : {"ISO", "DD"}, scheme : {"MBR", "GPT"}, filesystem : FileSystem,
   target : SUBSET {"bios", "uefi"}, dualPartition : BOOLEAN, isoType : STRING,
   needsSplitWim : BOOLEAN, tree : UNION {[fs0 -> Size] : fs0 \in SUBSET File},
   iso9660 : SUBSET File]

ASSUME DWAssumption ==
  /\ Requests \subseteq Request /\ Chunks \in Nat \ {0} /\ MaxRuns \in Nat \ {0}
  /\ \A r \in Requests : r.iso9660 \subseteq DOMAIN r.tree

DWControl ==
  {"idle", "entered", "dd", "mountIso", "mountTarget", "copyDir", "copyFile", "wim",
   "copyWim", "split", "fallback", "unmountIso", "unmountTarget", "mountEfi", "copyEfi",
   "bootloader", "grub", "umountBoot", "sync"}

isWindows     == req.isoType \in {"WindowsInstaller", "WindowsPE"}
dualPartition == ~isWindows /\ req.dualPartition

(* The partition the installer files go to.                                *)
dataPartition == IF dualPartition THEN 2 ELSE 1

(* The files of the image, links to nothing and to directories aside.      *)
InImage(f) == f \in DOMAIN req.tree /\ req.tree[f] # Link

(* The wim the code looks for by two names, case-sensitively, below the    *)
(* mount point of the image, and what copyDirRecursive leaves out,         *)
(* compared in any case.                                                   *)
exists(f) == f \in shown /\ InImage(f)

(* A plausible bug: install.esd is forgotten.                              *)
wimSrc_WimOnly == "sources/install.wim"

wimSrc ==
  IF exists("sources/install.wim") THEN "sources/install.wim" ELSE "sources/install.esd"

excluded(f) == f \in InstallFile

-----------------------------------------------------------------------------
(* Leaving write: what is unmounted first, and the QTemporaryDir going out *)
(* of scope, which removes everything below it that it can, the content of *)
(* a partition that is still mounted there included.                       *)

TempMounts(ms) == {m \in ms : m[2] \in TempPlace}

RemoveTempDir(ms) ==
  /\ mounts'  = (ms \ TempMounts(ms)) \cup {<<m[1], "stale">> : m \in TempMounts(ms)}
  /\ content' = [p \in Part |-> IF \E m \in TempMounts(ms) : m[1] = p THEN {} ELSE content[p]]

Leave(outcome) ==
  /\ pc' = "idle"
  /\ result' = outcome
  /\ UNCHANGED <<table, kernel, fs, config, umList, umOk, partitions, errorLines, req, shown,
                 chunk, raw, cancelled, runs>>

(* return false after unmounting some places, with or without an error     *)
Fail(places, error) ==
  /\ \E ms \in AfterUmount(mounts, places) : RemoveTempDir(ms)
  /\ reported' = (reported \/ error)
  /\ Leave("failed")
  /\ UNCHANGED <<wim, todo, cur>>

(* Plausible bugs: the image stays mounted; the failure is silent.         *)
FailCopy_ImageLeft == Fail({"target"}, ~cancelled)
FailCopy_Silent    == Fail({"iso", "target"}, FALSE)

(* copyDirRecursive or copyFileChunked has returned false.                 *)
FailCopy == Fail({"iso", "target"}, ~cancelled)

(* A step within write; the rest of its state is up to the action.         *)
Goto(next) ==
  /\ pc' = next
  /\ UNCHANGED <<table, kernel, fs, config, umList, umOk, partitions, reported, errorLines,
                 req, chunk, raw, cancelled, result, runs>>

Step(next) == Goto(next) /\ UNCHANGED shown

-----------------------------------------------------------------------------
(* runBackend starts a process with a DiskWriter of its own, and calls     *)
(* write.  m_cancelled is reset at its first line.                         *)

StartWrite ==
  /\ pc = "idle" /\ runs < MaxRuns
  /\ req' \in Requests
  /\ runs' = runs + 1
  /\ pc' = "entered"
  /\ result' = "none" /\ reported' = FALSE /\ errorLines' = {} /\ cancelled' = FALSE
  /\ partitions' = <<>> /\ shown' = {} /\ todo' = {} /\ cur' = "none"
  /\ chunk' = 0 /\ raw' = {}
  /\ UNCHANGED <<hostVars, config, umList, umOk, wim>>

(* runBackend cannot open its configuration file: an error, and exit code 1.*)
configUnreadable ==
  /\ pc = "entered"
  /\ reported' = TRUE
  /\ Leave("failed")
  /\ UNCHANGED <<mounts, content, wim, todo, cur>>

writeIsoMode ==
  /\ pc = "entered" /\ req.mode = "ISO"
  /\ cancelled' = FALSE
  /\ config' = [scheme     |-> req.scheme,
                filesystem |-> IF isWindows THEN "FAT32" ELSE req.filesystem,
                dual       |-> dualPartition]
  /\ StartPrepare
  /\ UNCHANGED <<hostVars, reported, errorLines, wim, req, shown, todo, cur, chunk, raw,
                 result, runs>>

writeDdMode ==
  /\ pc = "entered" /\ req.mode = "DD"
  /\ cancelled' = FALSE
  /\ \/ pc' = "dd" /\ UNCHANGED <<reported, result>>
     \/ pc' = "idle" /\ reported' = TRUE /\ result' = "failed"
  /\ UNCHANGED <<hostVars, config, umList, umOk, partitions, errorLines, wim, req, shown,
                 todo, cur, chunk, raw, runs>>

(* Plausible bugs: an end of the loop too late, and one too early.         *)
MoreChunks_TooLate  == chunk <= Chunks
MoreChunks_TooEarly == chunk + 1 < Chunks

MoreChunks == chunk < Chunks

(* The file systems the drive had.                                         *)
Overwritten == [p \in Part |-> {}]

(* One turn of the loop.                                                   *)
ddWriteChunk ==
  /\ pc = "dd" /\ MoreChunks /\ ~cancelled
  /\ chunk' = chunk + 1
  /\ raw' = raw \cup {chunk'}
  /\ content' = Overwritten
  /\ UNCHANGED <<mounts, table, kernel, fs, pmVars, req, shown, todo, cur, cancelled, result,
                 runs>>

(* A cancellation, a read error, or a write that fails or is short: part   *)
(* of the chunk may be on the drive.                                       *)
ddFails ==
  /\ pc = "dd" /\ MoreChunks
  /\ content' \in {content, Overwritten}
  /\ reported' = TRUE
  /\ Leave("failed")
  /\ UNCHANGED <<mounts, wim, todo, cur>>

ddReturns ==
  /\ pc = "dd" /\ ~MoreChunks
  /\ Leave("ok")
  /\ UNCHANGED <<mounts, content, reported, wim, todo, cur>>

-----------------------------------------------------------------------------
(* writeIsoMode after prepareDisk: mount both sides, copy, unmount.        *)

diskPrepared ==
  /\ pc = "prepared"
  /\ \/ partitions # <<>> /\ ~cancelled
        /\ Step("mountIso") /\ UNCHANGED <<mounts, content, wim, todo, cur>>
     \/ partitions # <<>> /\ cancelled /\ Fail({}, FALSE)
     \/ Fail({}, TRUE)

(* mount -t udf shows the whole image.  When that attempt fails, for an    *)
(* image without UDF or for any other reason, mount is left to choose and  *)
(* shows the ISO 9660 directory: the whole image again, or a stub.         *)
ImageViews == {DOMAIN req.tree, req.iso9660}

mountIso ==
  /\ pc = "mountIso"
  /\ \/ /\ mounts' = AfterMount(mounts, IsoVolume, "iso")
        /\ shown' \in ImageViews
        /\ Goto("mountTarget") /\ UNCHANGED <<content, wim, todo, cur>>
     \/ \E ms \in AfterFailedMount(mounts, IsoVolume, "iso") :
          /\ RemoveTempDir(ms)
          /\ reported' = TRUE
          /\ Leave("failed")
          /\ UNCHANGED <<wim, todo, cur>>

mountTarget ==
  /\ pc = "mountTarget"
  /\ \/ /\ Mountable(dataPartition)
        /\ mounts' = AfterMount(mounts, dataPartition, "target")
        /\ todo' = shown
        /\ Step("copyDir") /\ UNCHANGED <<content, wim, cur>>
     \/ \E ms \in AfterFailedMount(mounts, dataPartition, "target") :
          /\ \E left \in AfterUmount(ms, {"iso"}) : RemoveTempDir(left)
          /\ reported' = TRUE
          /\ Leave("failed")
          /\ UNCHANGED <<wim, todo, cur>>

(* The next entry of the tree, in no particular order; opening the copy    *)
(* truncates it.                                                           *)
copyDirRecursive ==
  /\ pc = "copyDir" /\ todo # {}
  /\ \/ cancelled /\ FailCopy
     \/ /\ ~cancelled
        /\ \E f \in todo :
             /\ todo' = todo \ {f}
             /\ IF excluded(f) \/ req.tree[f] = Link
                THEN Step("copyDir") /\ UNCHANGED <<cur, content>>
                ELSE Step("copyFile") /\ cur' = f /\ content' = Put(dataPartition, f, "cut")
        /\ UNCHANGED <<mounts, wim>>

(* Only the Windows branch looks at m_cancelled between the tree and the   *)
(* wim.                                                                    *)
copyDirReturns ==
  /\ pc = "copyDir" /\ todo = {}
  /\ IF isWindows /\ cancelled
     THEN FailCopy
     ELSE Step("wim") /\ UNCHANGED <<mounts, content, wim, todo, cur>>

(* FAT32 refuses a file's bytes beyond 4 GiB.                              *)
Fits(f) == ~(fs[dataPartition] = "FAT32" /\ req.tree[f] = Over4GiB)

(* The chunks of one file.  A short read or a failed flush of the last     *)
(* bytes goes unnoticed.                                                   *)
ChunksCopied ==
  /\ ~cancelled /\ Fits(cur)
  /\ content' \in {Put(dataPartition, cur, "whole")} \cup
                  IF "flushLost" \in Faults THEN {content} ELSE {}
  /\ UNCHANGED <<mounts, wim, todo, cur>>

copyFileChunked ==
  /\ pc = "copyFile"
  /\ (ChunksCopied /\ Step("copyDir")) \/ FailCopy

(* install.wim or install.esd, by those names: split when the analysis of  *)
(* a Windows image says so, else copied.                                   *)
handleWim ==
  /\ pc = "wim"
  /\ UNCHANGED <<todo>>
  /\ \/ /\ ~exists(wimSrc)
        /\ Step("unmountIso") /\ UNCHANGED <<mounts, content, wim, cur>>
     \/ /\ exists(wimSrc) /\ ~(isWindows /\ req.needsSplitWim)
        /\ cur' = wimSrc
        /\ content' = Put(dataPartition, wimSrc, "cut")
        /\ Step("copyWim") /\ UNCHANGED <<mounts, wim>>
     \/ /\ exists(wimSrc) /\ isWindows /\ req.needsSplitWim
        /\ wim' = "running"
        /\ content' = Put(dataPartition, swm, "cut")
        /\ Step("split") /\ UNCHANGED <<mounts, cur>>
     \/ /\ exists(wimSrc) /\ isWindows /\ req.needsSplitWim     \* not installed
        /\ Fail({"iso", "target"}, TRUE)

(* A copy that fails on a data partition may be tried again as a split.    *)
copyWim ==
  LET fallback == ~isWindows /\ ~cancelled /\ req.tree[cur] >= Over4e9 IN
  /\ pc = "copyWim"
  /\ \/ ChunksCopied /\ Step("unmountIso")
     \/ ~fallback /\ FailCopy
     \/ /\ fallback
        /\ wim' = "running"
        /\ content' = Put(dataPartition, swm, "cut")
        /\ Step("fallback") /\ UNCHANGED <<mounts, todo, cur>>

-----------------------------------------------------------------------------
(* The wimlib-imagex child.                                                *)

Splitting == pc \in {"split", "fallback"}

(* It exits on its own; one that survived its backend has no reader.       *)
WimlibFinishes ==
  /\ wim = "running"
  /\ \/ Splitting /\ wim' = "ok" /\ content' = Put(dataPartition, swm, "whole")
     \/ Splitting /\ wim' = "bad" /\ UNCHANGED content
     \/ ~Splitting /\ wim' = "off" /\ UNCHANGED content
  /\ UNCHANGED <<mounts, table, kernel, fs, pc, config, umList, umOk, partitions, reported,
                 errorLines, dwVars>>

SplitEnds(error) ==
  /\ \E ms \in AfterUmount(mounts, {"iso", "target"}) : RemoveTempDir(ms)
  /\ reported' = (reported \/ error)
  /\ Leave("failed")

(* Plausible bugs: a loop that does not look at m_cancelled, and one that  *)
(* waits for a success.                                                    *)
splitWimLib_Deaf ==
  /\ pc = "split"
  /\ \/ wim = "ok" /\ Step("unmountIso") /\ UNCHANGED <<mounts, content>>
     \/ wim = "bad" /\ SplitEnds(TRUE)
  /\ wim' = "off" /\ UNCHANGED <<todo, cur>>

splitWimLib_Optimistic ==
  /\ pc = "split"
  /\ \/ wim = "ok" /\ Step("unmountIso") /\ UNCHANGED <<mounts, content>>
     \/ wim = "running" /\ cancelled /\ SplitEnds(FALSE)
  /\ wim' = "off" /\ UNCHANGED <<todo, cur>>

(* The loop polls the child and m_cancelled; there is no time limit.       *)
splitWimLib ==
  /\ pc = "split"
  /\ \/ wim = "ok" /\ Step("unmountIso") /\ UNCHANGED <<mounts, content>>
     \/ wim = "bad" /\ SplitEnds(TRUE)
     \/ wim = "running" /\ cancelled /\ SplitEnds(FALSE)
  /\ wim' = "off"
  /\ UNCHANGED <<todo, cur>>

(* The fallback waits an hour, blind to m_cancelled.  A child that is      *)
(* still running then keeps both mounts busy, and dies only after them.    *)
fallbackSplit ==
  /\ pc = "fallback"
  /\ \/ wim = "ok" /\ Step("unmountIso") /\ UNCHANGED <<mounts, content>>
     \/ wim = "bad" /\ SplitEnds(TRUE)
     \/ /\ wim = "running" /\ "wimHang" \in Faults
        /\ RemoveTempDir(mounts)
        /\ reported' = TRUE
        /\ Leave("failed")
  /\ wim' = "off"
  /\ UNCHANGED <<todo, cur>>

-----------------------------------------------------------------------------
(* The end of writeIsoMode.                                                *)

unmountIso ==
  /\ pc = "unmountIso"
  /\ \/ cancelled /\ Fail({"iso", "target"}, FALSE)
     \/ /\ ~cancelled
        /\ mounts' \in AfterUmount(mounts, {"iso"})
        /\ Step("unmountTarget") /\ UNCHANGED <<content, wim, todo, cur>>

unmountTarget ==
  /\ pc = "unmountTarget"
  /\ mounts' \in AfterUmount(mounts, {"target"})
  /\ Step(IF dualPartition THEN "mountEfi" ELSE "bootloader")
  /\ UNCHANGED <<content, wim, todo, cur>>

(* A dual layout gets EFI/ on its first partition; no failure here counts. *)
mountEfi ==
  /\ pc = "mountEfi"
  /\ \/ /\ Mountable(1)
        /\ mounts' = AfterMount(mounts, 1, "efi")
        /\ Step("copyEfi")
     \/ mounts' \in AfterFailedMount(mounts, 1, "efi") /\ Step("bootloader")
  /\ UNCHANGED <<content, wim, todo, cur>>

copyEfi ==
  /\ pc = "copyEfi"
  /\ \/ /\ \E view \in ImageViews :
             content' \in {content} \cup
               IF EfiBootFile \in view /\ InImage(EfiBootFile)
               THEN {Put(1, EfiBootFile, state) : state \in {"whole", "cut"}} ELSE {}
        /\ mounts' \in AfterUmount(AfterMount(mounts, IsoVolume, "iso2"), {"iso2", "efi"})
     \/ \E ms \in AfterFailedMount(mounts, IsoVolume, "iso2") :
          mounts' \in AfterUmount(ms, {"efi"}) /\ UNCHANGED content
  /\ Step("bootloader")
  /\ UNCHANGED <<wim, todo, cur>>

(* Bootloader::install: mount, grub for a BIOS target, umount.             *)
mountBoot ==
  /\ pc = "bootloader"
  /\ \/ /\ Mountable(1)
        /\ mounts' = AfterMount(mounts, 1, "bl_mount")
        /\ Step(IF "bios" \in req.target /\ ~isWindows THEN "grub" ELSE "umountBoot")
     \/ mounts' \in AfterFailedMount(mounts, 1, "bl_mount") /\ Step("sync")
  /\ UNCHANGED <<content, wim, todo, cur>>

(* grub2-install and then grub-install: not installed, refused at once,    *)
(* done, or given up half way.  The write goes on.                         *)
installGrubBios ==
  /\ pc = "grub"
  /\ content' \in {content} \cup {Put(1, "boot/grub", state) : state \in {"whole", "cut"}}
  /\ Step("umountBoot")
  /\ UNCHANGED <<mounts, wim, todo, cur>>

umountBoot ==
  /\ pc = "umountBoot"
  /\ mounts' \in AfterUmount(mounts, {"bl_mount"})
  /\ Step("sync")
  /\ UNCHANGED <<content, wim, todo, cur>>

writeReturns ==
  /\ pc = "sync"
  /\ RemoveTempDir(mounts)
  /\ Leave("ok")
  /\ UNCHANGED <<reported, wim, todo, cur>>

-----------------------------------------------------------------------------
(* Around the backend thread.                                              *)

cancel ==
  /\ "cancel" \in Faults /\ pc # "idle" /\ ~cancelled
  /\ cancelled' = TRUE
  /\ UNCHANGED <<hostVars, pmVars, req, shown, todo, cur, chunk, raw, result, runs>>

(* No destructor runs: every mount stays, and so does a wimlib-imagex.     *)
Kill ==
  /\ "kill" \in Faults /\ pc # "idle"
  /\ mounts' = (mounts \ TempMounts(mounts)) \cup {<<m[1], "stale">> : m \in TempMounts(mounts)}
  /\ wim' = IF wim = "running" THEN "running" ELSE "off"
  /\ Leave("killed")
  /\ UNCHANGED <<content, reported, todo, cur>>

(* A raw write does not unmount: the kernel may flush what it holds of the *)
(* old file system over the image.                                         *)
WriteBack ==
  /\ "writeBack" \in Faults /\ pc = "dd" /\ raw # {} /\ DeviceMounts # {}
  /\ \E c \in raw : raw' = raw \ {c}
  /\ UNCHANGED <<hostVars, pmVars, req, shown, todo, cur, chunk, cancelled, result, runs>>

-----------------------------------------------------------------------------

DWInit ==
  /\ HostInit
  /\ pc = "idle"
  /\ config = [scheme |-> "GPT", filesystem |-> "FAT32", dual |-> FALSE]
  /\ umList = <<>> /\ umOk = TRUE /\ partitions = <<>> /\ wim = "off"
  /\ reported = FALSE /\ errorLines = {}
  /\ req \in Requests
  /\ shown = {} /\ todo = {} /\ cur = "none" /\ chunk = 0 /\ raw = {}
  /\ cancelled = FALSE /\ result = "none" /\ runs = 0

(* The steps of the backend thread once write has been called.             *)
Backend ==
  \/ configUnreadable
  \/ writeIsoMode \/ writeDdMode \/ ddWriteChunk \/ ddFails \/ ddReturns
  \/ PMStep /\ UNCHANGED dwVars
  \/ diskPrepared \/ mountIso \/ mountTarget
  \/ copyDirRecursive \/ copyDirReturns \/ copyFileChunked
  \/ handleWim \/ copyWim \/ splitWimLib \/ fallbackSplit
  \/ unmountIso \/ unmountTarget \/ mountEfi \/ copyEfi
  \/ mountBoot \/ installGrubBios \/ umountBoot \/ writeReturns

Environment ==
  \/ WimlibFinishes \/ cancel \/ Kill \/ WriteBack
  \/ DesktopMount /\ UNCHANGED <<pmVars, dwVars>>

DWNext == StartWrite \/ Backend \/ Environment

(* The thread runs, each command it waits for has a time limit, and a      *)
(* healthy wimlib-imagex ends.  Nobody has to start a write or cancel it.  *)
Fairness ==
  /\ WF_vars(Backend)
  /\ "wimHang" \notin Faults => WF_vars(WimlibFinishes)

DWSpec == DWInit /\ [][DWNext]_vars /\ Fairness

-----------------------------------------------------------------------------

DWTypeOK ==
  /\ PMTypeOK
  /\ pc \in PMControl \cup DWControl
  /\ req \in Requests
  /\ shown \subseteq File /\ todo \subseteq File /\ cur \in File \cup {"none"}
  /\ chunk \in 0..Chunks /\ raw \subseteq 1..Chunks
  /\ cancelled \in BOOLEAN
  /\ result \in {"none", "ok", "failed", "killed"}
  /\ runs \in 0..MaxRuns

(* How a file of the image gets to the data partition: as it is, or, an    *)
(* installer image, in parts.                                              *)
Delivered(f) ==
  \/ Whole(dataPartition, f)
  \/ f \in InstallFile /\ Whole(dataPartition, swm)

Holds(files) ==
  IF req.mode = "DD" THEN raw = 1..Chunks
  ELSE /\ fs[dataPartition] = config.filesystem
       /\ \A f \in files : InImage(f) => Delivered(f)

Copied       == Holds(shown)
ImageOnDrive == Holds(DOMAIN req.tree)

(* When write returns true, the drive holds every file that the mounted    *)
(* image showed: nothing was skipped, cut short or copied to the wrong     *)
(* place, whichever commands have failed on the way.                       *)
SuccessMeansCopied == result = "ok" => Copied

(* When write returns true ("USB drive created successfully!",             *)
(* mainwindow.cpp:740) the drive holds the image.  This takes more than    *)
(* SuccessMeansCopied: a mount that showed the whole image.                *)
SuccessMeansComplete == result = "ok" => ImageOnDrive

(* A write that fails without having been cancelled has told why.  One     *)
(* that succeeds has emitted no error of its own; the ERROR: lines its log *)
(* shows all the same are those of commands whose failure is of no         *)
(* consequence: umount, partprobe, and mkfs where a second attempt exists. *)
FailureReported ==
  /\ (result = "failed" /\ ~cancelled) => reported
  /\ result = "ok" =>
       /\ ~reported /\ "wipefs" \notin errorLines
       /\ "mkfs" \in errorLines => config.filesystem \in RetriedFs

(* When write returns, nothing is left mounted below its temporary         *)
(* directory, which no longer exists: every path out of writeIsoMode       *)
(* unmounts what the path has mounted.                                     *)
NoLeakedMounts == pc = "idle" => \A m \in mounts : m[2] # "stale"

(* A drive that was written in ISO mode holds nothing but the image: no    *)
(* file of an earlier owner or of a write that was killed, none cut short. *)
(* Of GRUB, whose installation may fail, it may hold any part.             *)
OnlyTheImage ==
  (result = "ok" /\ req.mode = "ISO") =>
    \A p \in 1..Len(table) : \A e \in content[p] :
      \/ e[1] \in DOMAIN req.tree \cup {swm} /\ e[2] = "whole"
      \/ e[1] = "boot/grub"

(* The control points of a write that still has a look at m_cancelled      *)
(* ahead of it, whichever branch it takes from there.  "entered" is not    *)
(* one: a request that comes before write resets m_cancelled is forgotten. *)
BeforeLastCheck ==
  \/ pc \in PMControl \cup {"mountIso", "mountTarget", "copyDir", "copyFile", "wim",
                            "copyWim", "split", "fallback", "unmountIso"}
  \/ pc = "dd" /\ chunk < Chunks

(* A cancellation that arrives by then makes the write stop, as failed or  *)
(* killed, even when wimlib-imagex never ends.                             *)
CancelStopsWrite ==
  (cancelled /\ BeforeLastCheck) ~> (pc = "idle" /\ result \in {"failed", "killed"})

(* write returns, whatever fails, unless it waits for a wimlib-imagex that *)
(* never ends.                                                             *)
WriteReturns == <>[](wim = "running") \/ ((pc = "entered") ~> (pc = "idle"))

(* Seen from outside, the backend is a UsbWrite: it does not touch the     *)
(* user's data before a write begins, never claims success on a drive that *)
(* holds less than the image, and answers every write it was asked for.    *)
Drive ==
  IF ImageOnDrive THEN "image"
  ELSE IF table = OldTable /\ (\A p \in Part : Whole(p, "userdata")) /\ raw = {} THEN "user"
  ELSE "scratch"

Outcome ==
  IF pc # "idle" THEN "pending"
  ELSE CASE result = "none" -> "idle" [] result = "ok" -> "ok"
         [] result \in {"failed", "killed"} -> "failed"

UW == INSTANCE UsbWrite WITH drive <- Drive, outcome <- Outcome

ImplementsUsbWrite == UW!Spec
=============================================================================
