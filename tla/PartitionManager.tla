-------------------------- MODULE PartitionManager --------------------------
(***************************************************************************)
(* PartitionManager::prepareDisk of src/src/core/partition_manager.cpp:    *)
(* unmount every volume of the drive, wipe its signatures, write a new     *)
(* partition table, format the partitions.  One action per external        *)
(* command the code waits for; pc is the control point of the thread that  *)
(* runs prepareDisk.  DiskWriter extends this module and calls it.         *)
(***************************************************************************)
EXTENDS Host

CONSTANT Configs    \* the PartitionConfigs prepareDisk is called with

VARIABLES
  pc,          \* control point of the backend thread
  config,      \* PartitionConfig and the dualPartition argument
  umList,      \* volumes unmountAll has not tried yet
  umOk,        \* allOk of unmountAll
  partitions,  \* the node list prepareDisk returns
  reported,    \* errorOccurred has been emitted
  errorLines,  \* programs whose exit code runCommand has printed as ERROR:
  wim          \* the wimlib-imagex child: "off", "running", "ok" or "bad"

pmVars == <<pc, config, umList, umOk, partitions, reported, errorLines, wim>>

PartitionConfig ==
  [scheme : {"MBR", "GPT"}, filesystem : FileSystem, dual : BOOLEAN]

ASSUME ConfigsAssumption == Configs \subseteq PartitionConfig

PMControl == {"unmountAll", "wipeDisk", "partitionDisk", "format", "prepared"}

(* runCommand prints a line that the GUI shows as an error of the write    *)
(* for every exit code but 0, whether its caller minds the code or not; it *)
(* prints none for a command that cannot start or does not end in time.    *)
Program == {"umount", "wipefs", "partprobe", "mkfs"}

Prints(program)    == errorLines' = errorLines \cup {program}
MayPrint(program)  == Prints(program) \/ errorLines' = errorLines

(* The sfdisk script: the type of every partition it asks for.             *)
MbrType ==
  [FAT32 |-> "0c", NTFS |-> "07", exFAT |-> "07", ext4 |-> "83", UDF |-> "07"]

partitionMBR(filesystem, dual) ==
  IF dual
  THEN <<"0c", IF filesystem \in {"NTFS", "ext4"} THEN MbrType[filesystem] ELSE "0c">>
  ELSE <<MbrType[filesystem]>>

partitionGPT(filesystem, dual) ==
  IF dual
  THEN <<"ESP", IF filesystem = "ext4" THEN "linux" ELSE "msdata">>
  ELSE <<"msdata">>

NewTable ==
  IF config.scheme = "GPT" THEN partitionGPT(config.filesystem, config.dual)
                           ELSE partitionMBR(config.filesystem, config.dual)

(* A plausible bug: the boot partition gets the user's file system.        *)
AskedFs_UserChoice(p) == config.filesystem

(* The file system partition p gets: partition 1 of a dual layout is       *)
(* always FAT32.                                                           *)
AskedFs(p) == IF config.dual /\ p = 1 THEN "FAT32" ELSE config.filesystem

-----------------------------------------------------------------------------

PrepareFails ==
  /\ pc' = "prepared"
  /\ partitions' = <<>>

(* A plausible bug: the last partition is left out.                        *)
UnmountList_OffByOne == [i \in 1..Len(kernel) |-> i - 1]

(* unmountAll lists the device node and the partitions /sys/block shows at *)
(* that moment.                                                            *)
UnmountList == [i \in 1..(Len(kernel) + 1) |-> i - 1]

StartPrepare ==
  /\ pc' = "unmountAll"
  /\ umList' = UnmountList
  /\ umOk' = TRUE
  /\ partitions' = <<>>

(* wimlib-imagex keeps its output open below the mount point.  One that    *)
(* outlived a killed backend still does.                                   *)
HeldBusy(v) == wim = "running" /\ <<v, "stale">> \in mounts

(* umount, and umount -l unless the first one exited 0 or 32.  Exit code 0 *)
(* removes one mount of the volume; 32 is umount's code for every failure  *)
(* to unmount, of a volume that is not mounted as of one that is in use.   *)
UmountVolume(v) ==
  \/ /\ ~HeldBusy(v)
     /\ \E m \in MountsOf(v) :
          mounts' \in {mounts \ {m}} \cup
                      IF "lazy" \in Faults THEN {(mounts \ {m}) \cup {<<v, "detached">>}} ELSE {}
     /\ umOk' = umOk /\ MayPrint("umount")
  \/ /\ MountsOf(v) = {} \/ "busy" \in Faults \/ HeldBusy(v)
     /\ mounts' = mounts
     /\ umOk' = umOk /\ Prints("umount")
  \/ /\ mounts' = mounts
     /\ umOk' = FALSE /\ MayPrint("umount")

unmountAll ==
  /\ pc = "unmountAll" /\ umList # <<>>
  /\ UmountVolume(Head(umList))
  /\ umList' = Tail(umList)
  /\ UNCHANGED <<table, kernel, fs, content, pc, config, partitions, reported, wim>>

unmountAllReturns ==
  /\ pc = "unmountAll" /\ umList = <<>>
  /\ \/ umOk /\ pc' = "wipeDisk" /\ UNCHANGED partitions
     \/ ~umOk /\ PrepareFails
  /\ UNCHANGED <<hostVars, config, umList, umOk, reported, errorLines, wim>>

wipeDisk ==
  /\ pc = "wipeDisk"
  /\ \/ table' = <<>> /\ pc' = "partitionDisk" /\ UNCHANGED <<partitions, reported, errorLines>>
     \/ table' \in {table, <<>>} /\ reported' = TRUE /\ MayPrint("wipefs") /\ PrepareFails
  /\ UNCHANGED <<mounts, kernel, fs, content, config, umList, umOk, wim>>

(* sfdisk tells the kernel of the table it has written, and so does        *)
(* partprobe, whose exit code nobody looks at: when the kernel takes the   *)
(* table from neither, its old partition nodes stay.                       *)
partitionDisk ==
  /\ pc = "partitionDisk"
  /\ \/ /\ table' = NewTable
        /\ kernel' \in {NewTable} \cup IF "rereadFails" \in Faults THEN {kernel} ELSE {}
        /\ MayPrint("partprobe")
        /\ pc' = "format"
        /\ UNCHANGED <<partitions, reported>>
     \/ /\ table' \in {table, NewTable}
        /\ UNCHANGED <<kernel, errorLines>>
        /\ reported' = TRUE
        /\ PrepareFails
  /\ UNCHANGED <<mounts, fs, content, config, umList, umOk, wim>>

(* A plausible bug: mkfs is skipped where the file system is the right one *)
(* already.                                                                *)
Erased_IfNeeded(p) == IF fs[p] = AskedFs(p) THEN content ELSE [content EXCEPT ![p] = {}]

(* mkfs leaves an empty file system, and the node joins the result.        *)
Erased(p) == [content EXCEPT ![p] = {}]

WithNode(p) == Append(partitions, p)

(* The file systems formatPartition has a second command line for.         *)
RetriedFs == {"exFAT", "UDF"}

(* Partition 1 and then, in a dual layout, partition 2.  mkfs refuses a    *)
(* partition that is mounted.  The nodes are returned once all are done.   *)
formatPartition ==
  LET p    == Len(partitions) + 1
      last == IF config.dual THEN 2 ELSE 1
  IN
  /\ pc = "format"
  /\ \/ /\ p \in 1..Len(kernel) /\ MountsOf(p) = {}
        /\ fs' = [fs EXCEPT ![p] = AskedFs(p)]
        /\ content' = Erased(p)
        /\ partitions' = WithNode(p)
        /\ pc' = IF p = last THEN "prepared" ELSE "format"
        /\ errorLines' = errorLines \/ (AskedFs(p) \in RetriedFs /\ Prints("mkfs"))
        /\ UNCHANGED reported
     \/ /\ reported' = TRUE /\ MayPrint("mkfs")
        /\ PrepareFails
        /\ UNCHANGED <<fs, content>>
  /\ UNCHANGED <<mounts, table, kernel, config, umList, umOk, wim>>

PMStep == unmountAll \/ unmountAllReturns \/ wipeDisk \/ partitionDisk \/ formatPartition

-----------------------------------------------------------------------------
(* prepareDisk on its own: one call, on a drive somebody else used.        *)

PMInit ==
  /\ HostInit
  /\ config \in Configs
  /\ pc = "unmountAll"
  /\ umList = UnmountList
  /\ umOk = TRUE
  /\ partitions = <<>>
  /\ reported = FALSE /\ errorLines = {}
  /\ wim = "off"

PMNext == PMStep \/ (DesktopMount /\ UNCHANGED pmVars)

PMVars == <<hostVars, pmVars>>

PMSpec == PMInit /\ [][PMNext]_PMVars /\ WF_PMVars(PMStep)

-----------------------------------------------------------------------------

PMTypeOK ==
  /\ HostTypeOK
  /\ config \in PartitionConfig
  /\ umList \in Seq(Volume) /\ umOk \in BOOLEAN
  /\ partitions \in Seq(Part) /\ Len(partitions) <= 2
  /\ \A i \in 1..Len(partitions) : partitions[i] = i
  /\ reported \in BOOLEAN /\ errorLines \subseteq Program
  /\ wim \in {"off", "running", "ok", "bad"}

(* The partition table is rewritten only while no volume of the drive is   *)
(* mounted: the order of prepareDisk, 1. Unmount -> 2. Wipe -> 3. Partition.*)
WipeOnlyUnmounted == [][table' # table => DeviceMounts = {}]_PMVars

(* unmountAll returns true only when every volume is unmounted, so that    *)
(* the wipe that follows finds none of them in use.                        *)
UnmountAllKept == pc = "wipeDisk" => DeviceMounts = {}

(* The nodes prepareDisk returns are partitions of the table it has just   *)
(* written, as the kernel sees it too, each freshly formatted as asked and *)
(* the first one of a dual layout readable by UEFI firmware.               *)
PreparedAsAsked ==
  (pc = "prepared" /\ partitions # <<>>) =>
    /\ table = NewTable /\ kernel = table
    /\ Len(partitions) = Len(table)
    /\ \A i \in 1..Len(partitions) :
         /\ fs[partitions[i]] = IF config.dual /\ i = 1 THEN "FAT32" ELSE config.filesystem
         /\ content[partitions[i]] = {}
=============================================================================
