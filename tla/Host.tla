-------------------------------- MODULE Host --------------------------------
(***************************************************************************)
(* What the write backend uses of the operating system and of the target   *)
(* drive: the mount table, the partition table on the medium, the kernel's *)
(* own copy of that table, and what each partition holds.  mount, umount,  *)
(* wipefs, sfdisk and mkfs are external commands: the operators below say  *)
(* what their callers can observe of them.                                 *)
(*                                                                         *)
(* A command that fails and has no effect is always possible, since the    *)
(* code handles an exit code.  Faults names the misbehaviours the code     *)
(* does not handle, or that only some environments show; each run enables  *)
(* its own.                                                                *)
(***************************************************************************)
EXTENDS Naturals, Sequences, IsoAnalyzer

CONSTANT Faults

Fault ==
  { "automount",    \* the desktop mounts a partition on its own
    "busy",         \* a volume is in use: umount exits 32, it stays mounted
    "lazy",         \* a volume is in use: umount exits otherwise, umount -l
                    \* detaches the volume, and it lives on
    "mountLate",    \* mount outlives its 15 s wait and still attaches
    "umountError",  \* umount of a private mount point fails or times out
    "writeBack",    \* the kernel flushes a mounted volume's dirty metadata
    "rereadFails",  \* the kernel keeps its old copy of the partition table
    "flushLost",    \* the last buffered bytes of a copied file do not reach it
    "wimHang",      \* wimlib-imagex never exits
    "kill",         \* the backend is killed (MainWindow::cancelWrite as root)
    "cancel" }      \* another thread calls DiskWriter::cancel

ASSUME FaultsAssumption == Faults \subseteq Fault

VARIABLES
  mounts,   \* set of <<volume, place>>: what is mounted where
  table,    \* partition table on the medium: sequence of partition types
  kernel,   \* the kernel's copy of it: /sys/block and the /dev nodes
  fs,       \* file system on each partition
  content   \* <<file, "whole" or "cut">> for the files in each partition

hostVars == <<mounts, table, kernel, fs, content>>

Disk   == 0            \* the whole-disk node, e.g. /dev/sdc
Part   == 1..2         \* /dev/sdc1 and /dev/sdc2
IsoVolume == 3         \* the ISO file, through a loop device
Volume == Disk..IsoVolume

PartType   == {"old", "0c", "07", "83", "ESP", "linux", "msdata"}
FileSystem == {"FAT32", "NTFS", "UDF", "exFAT", "ext4"}

(* The files a drive may hold: those of images, the parts of a split wim,  *)
(* what grub-install adds, and the data of the drive's owner.              *)
swm      == "sources/install.swm"
FileName == File \cup {swm, "boot/grub", "userdata"}

(* Mount points below the QTemporaryDir of the running write, those a dead *)
(* or finished write left behind, everybody else's, and none (umount -l).  *)
TempPlace == {"iso", "target", "efi", "iso2", "bl_mount"}
Place     == TempPlace \cup {"stale", "elsewhere", "detached"}

MountsOf(v)  == {m \in mounts : m[1] = v}
DeviceMounts == {m \in mounts : m[1] # IsoVolume}

(* A partition can be mounted when the kernel has a node for it; the image *)
(* always can.                                                             *)
Mountable(v) == v = IsoVolume \/ v \in 1..Len(kernel)

(* Mount tables that a successful mount, a failed one, and umount calls on *)
(* a set of places can leave behind when they start from ms.               *)
AfterMount(ms, v, place) == ms \cup {<<v, place>>}

AfterFailedMount(ms, v, place) ==
  {ms} \cup IF "mountLate" \in Faults THEN {AfterMount(ms, v, place)} ELSE {}

AfterUmount(ms, places) ==
  { {m \in ms : m[2] \notin gone} :
      gone \in IF "umountError" \in Faults THEN SUBSET places ELSE {places} }

(* The contents once file f of partition p is in the given state.          *)
Put(p, f, state) == [content EXCEPT ![p] = {e \in @ : e[1] # f} \cup {<<f, state>>}]

Whole(p, f) == <<f, "whole">> \in content[p]

HostTypeOK ==
  /\ mounts \subseteq Volume \X Place
  /\ table \in Seq(PartType) /\ Len(table) <= 2
  /\ kernel \in Seq(PartType) /\ Len(kernel) <= 2
  /\ fs \in [Part -> FileSystem \cup {"old"}]
  /\ content \in [Part -> SUBSET (FileName \X {"whole", "cut"})]

(* The drive as the user plugs it in: partitioned and formatted by someone *)
(* else, any of its partitions mounted by the desktop.                     *)
OldTable == <<"old", "old">>

HostInit ==
  /\ mounts \in SUBSET {<<v, "elsewhere">> : v \in Part}
  /\ table = OldTable
  /\ kernel = OldTable
  /\ fs = [p \in Part |-> "old"]
  /\ content = [p \in Part |-> {<<"userdata", "whole">>}]

(* The desktop's volume monitor mounts a file system it has noticed.       *)
DesktopMount ==
  /\ "automount" \in Faults
  /\ \E p \in Part :
       /\ Mountable(p) /\ MountsOf(p) = {}
       /\ mounts' = AfterMount(mounts, p, "elsewhere")
  /\ UNCHANGED <<table, kernel, fs, content>>
=============================================================================
