----------------------- MODULE PartitionManagerProofs -----------------------
(***************************************************************************)
(* prepareDisk wipes a drive only once nothing of it is mounted, provided  *)
(* nothing is in use and nobody mounts behind its back.                    *)
(***************************************************************************)
EXTENDS PartitionManager, TLAPS

(* The volumes of the drive are mounted once each, by the desktop; while   *)
(* unmountAll has had no failure, those still mounted are ahead of it, and *)
(* once it has returned true there are none.                               *)
Ahead == \A m \in mounts : \E i \in 1..Len(umList) : umList[i] = m[1]

UnmountInv ==
  /\ mounts \subseteq {<<v, "elsewhere">> : v \in Part}
  /\ umList \in Seq(Volume)
  /\ wim = "off"
  /\ (pc = "unmountAll" /\ umOk) => Ahead
  /\ pc \in {"wipeDisk", "partitionDisk"} => mounts = {}

USE DEF Volume, Disk, IsoVolume, Part

(* At the start every volume of the drive is ahead in the list.            *)
LEMMA UnmountInvInit == PMInit => UnmountInv
<1> SUFFICES ASSUME PMInit PROVE UnmountInv
  OBVIOUS
<1>1. umList = <<0, 1, 2>>
  <2>1. Len(kernel) = 2
    BY DEF PMInit, HostInit, OldTable
  <2> QED
    BY <2>1 DEF PMInit, UnmountList
<1>2. mounts \subseteq {<<v, "elsewhere">> : v \in Part}
  BY DEF PMInit, HostInit
<1>3. \A m \in mounts : \E i \in 1..Len(umList) : umList[i] = m[1]
  <2> SUFFICES ASSUME NEW m \in mounts PROVE \E i \in 1..Len(umList) : umList[i] = m[1]
    OBVIOUS
  <2>1. m[1] \in 1..2
    BY <1>2
  <2>2. umList[m[1] + 1] = m[1] /\ m[1] + 1 \in 1..Len(umList)
    BY <1>1, <2>1
  <2> QED
    BY <2>2
<1>4. umList \in Seq(Volume)
  BY <1>1
<1>5. wim = "off" /\ pc = "unmountAll"
  BY DEF PMInit
<1> QED
  BY <1>2, <1>3, <1>4, <1>5 DEF UnmountInv, Ahead

(* umount of the volume at the head of the list: a success leaves the      *)
(* volume unmounted, and so does exit code 32 when nothing is in use.      *)
LEMMA UnmountOne ==
  ASSUME Faults \cap {"busy", "lazy", "automount"} = {}, UnmountInv, unmountAll
  PROVE  UnmountInv'
<1> DEFINE v == Head(umList)
<1>1. /\ pc = "unmountAll" /\ pc' = "unmountAll" /\ wim' = "off"
      /\ umList \in Seq(Volume) /\ umList # <<>> /\ umList' = Tail(umList)
  BY DEF unmountAll, UnmountInv
<1>2. UmountVolume(v)
  BY DEF unmountAll
<1>3. mounts' \subseteq mounts
  BY <1>2 DEF UmountVolume
<1>4. mounts' \subseteq {<<x, "elsewhere">> : x \in Part}
  BY <1>3 DEF UnmountInv
<1>5. ASSUME umOk' PROVE Ahead'
  <2>1. umOk /\ \A m \in mounts' : m[1] # v
    <3>1. ASSUME NEW m \in MountsOf(v), mounts' = mounts \ {m}
          PROVE  \A n \in mounts' : n[1] # v
      BY <3>1 DEF MountsOf, UnmountInv
    <3>2. ~HeldBusy(v)
      BY DEF HeldBusy, UnmountInv
    <3>3. Faults \cap {"busy", "lazy"} = {}
      OBVIOUS
    <3>4. CASE mounts' = mounts /\ MountsOf(v) = {} /\ umOk' = umOk
      BY <1>5, <3>4 DEF MountsOf
    <3>5. CASE umOk' = umOk /\ \E m \in MountsOf(v) : mounts' = mounts \ {m}
      BY <1>5, <3>1, <3>5
    <3> QED
      BY <1>2, <1>5, <3>2, <3>3, <3>4, <3>5 DEF UmountVolume
  <2>2. Ahead
    BY <1>1, <2>1 DEF UnmountInv
  <2> SUFFICES ASSUME NEW m \in mounts' PROVE \E j \in 1..Len(umList') : umList'[j] = m[1]
    BY DEF Ahead
  <2>3. PICK i \in 1..Len(umList) : umList[i] = m[1]
    BY <1>3, <2>2 DEF Ahead
  <2>4. i # 1
    BY <1>1, <2>1, <2>3
  <2>5. i - 1 \in 1..Len(Tail(umList)) /\ Tail(umList)[i - 1] = umList[i]
    BY <1>1, <2>3, <2>4
  <2> QED
    BY <1>1, <2>3, <2>5
<1> QED
  BY <1>1, <1>4, <1>5 DEF UnmountInv

(* Volumes leave the list unmounted, and nothing mounts them again.        *)
LEMMA UnmountInvNext ==
  ASSUME Faults \cap {"busy", "lazy", "automount"} = {}, UnmountInv, [PMNext]_PMVars
  PROVE  UnmountInv'
<1>1. CASE unmountAll
  BY <1>1, UnmountOne
<1>2. CASE unmountAllReturns
  <2>1. umOk /\ pc = "unmountAll" /\ umList = <<>> => mounts = {}
    BY DEF UnmountInv, Ahead
  <2> QED
    BY <1>2, <2>1 DEF unmountAllReturns, PrepareFails, UnmountInv, Ahead, hostVars
<1>3. CASE wipeDisk
  BY <1>3 DEF wipeDisk, PrepareFails, UnmountInv, Ahead
<1>4. CASE partitionDisk
  BY <1>4 DEF partitionDisk, PrepareFails, UnmountInv, Ahead
<1>5. CASE formatPartition
  BY <1>5 DEF formatPartition, PrepareFails, UnmountInv, Ahead
<1>6. CASE DesktopMount
  BY <1>6 DEF DesktopMount
<1>7. CASE UNCHANGED PMVars
  BY <1>7 DEF PMVars, hostVars, pmVars, UnmountInv, Ahead
<1> QED
  BY <1>1, <1>2, <1>3, <1>4, <1>5, <1>6, <1>7 DEF PMNext, PMStep

(* When unmountAll has returned true, no volume of the drive is mounted.   *)
THEOREM UnmountAllKeptThm ==
  ASSUME Faults \cap {"busy", "lazy", "automount"} = {}
  PROVE  PMSpec => []UnmountAllKept
<1>1. UnmountInv => UnmountAllKept
  BY DEF UnmountInv, UnmountAllKept, DeviceMounts
<1> QED
  BY <1>1, UnmountInvInit, UnmountInvNext, PTL DEF PMSpec

(* No step rewrites the partition table of a drive with a mounted volume.  *)
THEOREM WipeOnlyUnmountedThm ==
  ASSUME Faults \cap {"busy", "lazy", "automount"} = {}
  PROVE  PMSpec => WipeOnlyUnmounted
<1>1. ASSUME UnmountInv, [PMNext]_PMVars
      PROVE  [table' # table => DeviceMounts = {}]_PMVars
  <2>1. CASE wipeDisk \/ partitionDisk
    BY <1>1, <2>1 DEF wipeDisk, partitionDisk, UnmountInv, DeviceMounts
  <2>2. CASE unmountAll \/ unmountAllReturns \/ formatPartition \/ DesktopMount
    BY <2>2 DEF unmountAll, unmountAllReturns, formatPartition, DesktopMount, hostVars
  <2> QED
    BY <1>1, <2>1, <2>2 DEF PMNext, PMStep
<1> QED
  BY <1>1, UnmountInvInit, UnmountInvNext, PTL DEF PMSpec, WipeOnlyUnmounted

-----------------------------------------------------------------------------
(* Types, and how far prepareDisk has come by each of its control points.  *)

FormatInv ==
  /\ pc \in PMControl
  /\ pc \in {"unmountAll", "wipeDisk", "partitionDisk"} => partitions = <<>>
  /\ pc = "format" => Len(partitions) < IF config.dual THEN 2 ELSE 1

USE DEF Place, TempPlace, PMControl

(* Every step of prepareDisk prints the lines of programs that it runs.    *)
LEMMA LinesType ==
  ASSUME errorLines \subseteq Program, PMStep
  PROVE  errorLines' \subseteq Program
<1>1. \A program \in Program : MayPrint(program) => errorLines' \subseteq Program
  BY DEF MayPrint, Prints
<1>2. "umount" \in Program /\ "wipefs" \in Program /\ "partprobe" \in Program /\ "mkfs" \in Program
  BY DEF Program
<1>3. CASE unmountAll
  BY <1>1, <1>2, <1>3 DEF unmountAll, UmountVolume, MayPrint
<1>4. CASE unmountAllReturns
  BY <1>4 DEF unmountAllReturns
<1>5. CASE wipeDisk
  BY <1>1, <1>2, <1>5 DEF wipeDisk
<1>6. CASE partitionDisk
  BY <1>1, <1>2, <1>6 DEF partitionDisk
<1>7. CASE formatPartition
  BY <1>1, <1>2, <1>7 DEF formatPartition, MayPrint
<1> QED
  BY <1>3, <1>4, <1>5, <1>6, <1>7 DEF PMStep

(* The types hold of the drive as it is plugged in.                        *)
LEMMA TypeInit == PMInit => PMTypeOK /\ FormatInv
<1> SUFFICES ASSUME PMInit PROVE PMTypeOK /\ FormatInv
  OBVIOUS
<1>1. mounts \subseteq Volume \X Place
  BY DEF PMInit, HostInit
<1>2. table = <<"old", "old">> /\ kernel = <<"old", "old">>
  BY DEF PMInit, HostInit, OldTable
<1>3. /\ table \in Seq(PartType) /\ Len(table) <= 2
      /\ kernel \in Seq(PartType) /\ Len(kernel) <= 2
  BY <1>2 DEF PartType
<1>4. fs \in [Part -> FileSystem \cup {"old"}]
  BY DEF PMInit, HostInit
<1>5. content \in [Part -> SUBSET (FileName \X {"whole", "cut"})]
  BY DEF PMInit, HostInit, FileName
<1>6. umList \in Seq(Volume) /\ wim = "off"
  BY UnmountInvInit DEF UnmountInv
<1>7. config \in PartitionConfig
  BY ConfigsAssumption DEF PMInit
<1>8. /\ umOk \in BOOLEAN /\ reported \in BOOLEAN /\ errorLines \subseteq Program
      /\ pc = "unmountAll" /\ partitions = <<>>
  BY DEF PMInit
<1>9. HostTypeOK
  BY <1>1, <1>3, <1>4, <1>5 DEF HostTypeOK
<1>10. PMTypeOK
  BY <1>6, <1>7, <1>8, <1>9 DEF PMTypeOK
<1>11. FormatInv
  BY <1>8 DEF FormatInv
<1> QED
  BY <1>10, <1>11

(* The table asked of sfdisk has one partition, or two in a dual layout.   *)
LEMMA NewTableType ==
  ASSUME config \in PartitionConfig
  PROVE  NewTable \in Seq(PartType) /\ Len(NewTable) = IF config.dual THEN 2 ELSE 1
<1>1. MbrType[config.filesystem] \in PartType
  BY DEF MbrType, PartType, PartitionConfig, FileSystem
<1> DEFINE TypeOf(t) == t \in Seq(PartType) /\ Len(t) = IF config.dual THEN 2 ELSE 1
<1>2. ASSUME NEW x \in PartType, NEW y \in PartType
      PROVE  /\ <<x>> \in Seq(PartType) /\ Len(<<x>>) = 1
             /\ <<x, y>> \in Seq(PartType) /\ Len(<<x, y>>) = 2
  OBVIOUS
<1>3. {"0c", "07", "83", "ESP", "linux", "msdata"} \subseteq PartType
  BY DEF PartType
<1>4. TypeOf(partitionMBR(config.filesystem, config.dual))
  <2> DEFINE second == IF config.filesystem \in {"NTFS", "ext4"}
                       THEN MbrType[config.filesystem] ELSE "0c"
  <2>1. second \in PartType /\ "0c" \in PartType
    BY <1>1, <1>3
  <2>2. TypeOf(IF config.dual THEN <<"0c", second>> ELSE <<MbrType[config.filesystem]>>)
    <3> HIDE DEF second
    <3> QED
      BY <1>1, <1>2, <2>1
  <2> QED
    BY <2>2 DEF partitionMBR
<1>5. TypeOf(partitionGPT(config.filesystem, config.dual))
  <2> DEFINE second == IF config.filesystem = "ext4" THEN "linux" ELSE "msdata"
  <2>1. second \in PartType /\ "ESP" \in PartType /\ "msdata" \in PartType
    BY <1>3
  <2>2. TypeOf(IF config.dual THEN <<"ESP", second>> ELSE <<"msdata">>)
    <3> HIDE DEF second
    <3> QED
      BY <1>2, <2>1
  <2> QED
    BY <2>2 DEF partitionGPT
<1> QED
  BY <1>4, <1>5 DEF NewTable

(* Every partition is asked to get a file system there is.                 *)
LEMMA AskedFsType ==
  ASSUME config \in PartitionConfig, NEW p
  PROVE  AskedFs(p) \in FileSystem
BY DEF AskedFs, PartitionConfig, FileSystem

(* Formatting keeps the types and the order of the nodes.                  *)
LEMMA FormatTypes ==
  ASSUME PMTypeOK, FormatInv, formatPartition
  PROVE  PMTypeOK' /\ FormatInv'
<1> DEFINE p == Len(partitions) + 1
           last == IF config.dual THEN 2 ELSE 1
<1>1. /\ partitions \in Seq(Part) /\ Len(partitions) \in Nat
      /\ \A i \in 1..Len(partitions) : partitions[i] = i
      /\ p \in Part /\ p <= last
  BY DEF PMTypeOK, FormatInv, formatPartition
<1>2. CASE PrepareFails /\ reported' = TRUE /\ UNCHANGED <<fs, content>>
  <2>1. errorLines' \subseteq Program
    BY LinesType DEF PMStep, PMTypeOK
  <2> QED
    BY <1>2, <2>1 DEF formatPartition, PrepareFails, PMTypeOK, HostTypeOK, FormatInv
<1>3. CASE /\ fs' = [fs EXCEPT ![p] = AskedFs(p)]
           /\ content' = [content EXCEPT ![p] = {}]
           /\ partitions' = Append(partitions, p)
           /\ pc' = IF p = last THEN "prepared" ELSE "format"
           /\ UNCHANGED reported
  <2>1. /\ partitions' \in Seq(Part) /\ Len(partitions') = p
        /\ \A i \in 1..Len(partitions') : partitions'[i] = i
    <3>1. Append(partitions, p) \in Seq(Part) /\ Len(Append(partitions, p)) = p
      BY <1>1
    <3>2. ASSUME NEW i \in 1..p PROVE Append(partitions, p)[i] = i
      BY <1>1, <3>2
    <3> QED
      BY <1>3, <3>1, <3>2
  <2>2. fs' \in [Part -> FileSystem \cup {"old"}]
    BY <1>1, <1>3, AskedFsType DEF PMTypeOK, HostTypeOK
  <2>3. content' \in [Part -> SUBSET (FileName \X {"whole", "cut"})]
    BY <1>1, <1>3 DEF PMTypeOK, HostTypeOK
  <2>4. HostTypeOK'
    BY <2>2, <2>3 DEF formatPartition, PMTypeOK, HostTypeOK
  <2>5. PMTypeOK'
    <3>1. errorLines' \subseteq Program
      BY LinesType DEF PMStep, PMTypeOK
    <3> QED
      BY <1>1, <1>3, <2>1, <2>4, <3>1 DEF formatPartition, PMTypeOK
  <2>6. FormatInv'
    BY <1>1, <1>3, <2>1 DEF formatPartition, FormatInv
  <2> QED
    BY <2>5, <2>6
<1> QED
  BY <1>2, <1>3 DEF formatPartition, Erased, WithNode

(* Every step keeps the types.                                             *)
LEMMA TypeNext ==
  ASSUME PMTypeOK, FormatInv, [PMNext]_PMVars
  PROVE  PMTypeOK' /\ FormatInv'
<1>0. PMStep => errorLines' \subseteq Program
  BY LinesType DEF PMTypeOK
<1>1. CASE unmountAll
  <2>1. mounts' \subseteq Volume \X Place /\ umOk' \in BOOLEAN
    <3>1. umList \in Seq(Volume) /\ Head(umList) \in Volume
      BY <1>1 DEF unmountAll, PMTypeOK
    <3> QED
      <4>1. mounts \subseteq Volume \X Place /\ umOk \in BOOLEAN
        BY DEF PMTypeOK, HostTypeOK
      <4>2. mounts' \subseteq mounts \cup {<<Head(umList), "detached">>}
        BY <1>1 DEF unmountAll, UmountVolume
      <4>3. umOk' \in {umOk, FALSE}
        BY <1>1 DEF unmountAll, UmountVolume
      <4>4. <<Head(umList), "detached">> \in Volume \X Place
        BY <3>1
      <4> QED
        BY <4>1, <4>2, <4>3, <4>4
  <2>2. umList' \in Seq(Volume)
    BY <1>1 DEF unmountAll, PMTypeOK
  <2> QED
    BY <1>0, <1>1, <2>1, <2>2 DEF PMStep, unmountAll, PMTypeOK, HostTypeOK, FormatInv
<1>2. CASE unmountAllReturns
  BY <1>2 DEF unmountAllReturns, PrepareFails, hostVars, PMTypeOK, HostTypeOK, FormatInv
<1>3. CASE wipeDisk
  <2>1. <<>> \in Seq(PartType) /\ Len(<<>>) <= 2
    OBVIOUS
  <2>2. table' \in {table, <<>>} /\ partitions = <<>> /\ partitions' = <<>>
    BY <1>3 DEF wipeDisk, PrepareFails, FormatInv
  <2>3. HostTypeOK'
    BY <1>3, <2>1, <2>2 DEF wipeDisk, PMTypeOK, HostTypeOK
  <2> QED
    <3>1. errorLines' \subseteq Program
      BY <1>0, <1>3 DEF PMStep
    <3> QED
      BY <1>3, <2>2, <2>3, <3>1 DEF wipeDisk, PrepareFails, PMTypeOK, FormatInv
<1>4. CASE partitionDisk
  <2>1. NewTable \in Seq(PartType) /\ Len(NewTable) <= 2
    <3>1. config \in PartitionConfig
      BY DEF PMTypeOK
    <3>2. \E n \in 1..2 : Len(NewTable) = n
      BY <3>1, NewTableType
    <3>3. Len(NewTable) <= 2
      BY <3>2
    <3> QED
      BY <3>1, <3>3, NewTableType
  <2>2. HostTypeOK'
    BY <1>4, <2>1 DEF partitionDisk, PMTypeOK, HostTypeOK
  <2>3. partitions = <<>> /\ partitions' = <<>> /\ reported' \in BOOLEAN
    BY <1>4 DEF partitionDisk, PrepareFails, PMTypeOK, FormatInv
  <2> QED
    <3>1. errorLines' \subseteq Program
      BY <1>0, <1>4 DEF PMStep
    <3> QED
      BY <1>4, <2>2, <2>3, <3>1 DEF partitionDisk, PrepareFails, PMTypeOK, FormatInv
<1>5. CASE formatPartition
  BY <1>5, FormatTypes
<1>6. CASE DesktopMount /\ UNCHANGED pmVars
  BY <1>6 DEF DesktopMount, AfterMount, pmVars, PMTypeOK, HostTypeOK, FormatInv
<1>7. CASE UNCHANGED PMVars
  BY <1>7 DEF PMVars, hostVars, pmVars, PMTypeOK, HostTypeOK, FormatInv
<1> QED
  BY <1>1, <1>2, <1>3, <1>4, <1>5, <1>6, <1>7 DEF PMNext, PMStep

(* prepareDisk keeps the types of its state, whatever fails.               *)
THEOREM PMTypeOKThm == PMSpec => []PMTypeOK
BY TypeInit, TypeNext, PTL DEF PMSpec

-----------------------------------------------------------------------------
(* What prepareDisk returns, as long as the kernel takes the new table.    *)

Formatted ==
  \A i \in 1..Len(partitions) : fs[i] = AskedFs(i) /\ content[i] = {}

PreparedInv ==
  /\ pc = "format" \/ (pc = "prepared" /\ partitions # <<>>) =>
       table = NewTable /\ kernel = table
  /\ (pc = "prepared" /\ partitions # <<>>) =>
       Len(partitions) = IF config.dual THEN 2 ELSE 1
  /\ Formatted

(* Every step keeps the formatted partitions as asked.                     *)
LEMMA PreparedNext ==
  ASSUME "rereadFails" \notin Faults, PMTypeOK, FormatInv, PreparedInv, [PMNext]_PMVars
  PROVE  PreparedInv'
<1>1. CASE unmountAll
  BY <1>1 DEF unmountAll, PreparedInv, Formatted, AskedFs
<1>2. CASE unmountAllReturns
  BY <1>2 DEF unmountAllReturns, PrepareFails, hostVars, PreparedInv, Formatted, AskedFs
<1>3. CASE wipeDisk
  BY <1>3 DEF wipeDisk, PrepareFails, PreparedInv, Formatted, AskedFs
<1>4. CASE partitionDisk
  BY <1>4 DEF partitionDisk, PrepareFails, PreparedInv, Formatted, AskedFs, NewTable
<1>5. CASE formatPartition
  <2> DEFINE p == Len(partitions) + 1
             last == IF config.dual THEN 2 ELSE 1
  <2>1. /\ partitions \in Seq(Part) /\ Len(partitions) \in Nat
        /\ p \in Part /\ p <= last
    BY <1>5 DEF PMTypeOK, FormatInv, formatPartition
  <2>2. NewTable' = NewTable /\ table' = table /\ kernel' = kernel /\ config' = config
    BY <1>5 DEF formatPartition, NewTable
  <2>3. CASE PrepareFails
    BY <2>3 DEF PrepareFails, PreparedInv, Formatted
  <2>4. CASE /\ fs' = [fs EXCEPT ![p] = AskedFs(p)]
             /\ content' = [content EXCEPT ![p] = {}]
             /\ partitions' = Append(partitions, p)
             /\ pc' = IF p = last THEN "prepared" ELSE "format"
    <3>1. Len(partitions') = p
      BY <2>1, <2>4
    <3>2. ASSUME NEW i \in 1..p PROVE fs'[i] = AskedFs(i)' /\ content'[i] = {}
      <4>1. i = p \/ i \in 1..Len(partitions)
        BY <2>1
      <4>2. AskedFs(i)' = AskedFs(i)
        BY <2>2 DEF AskedFs
      <4>3. fs \in [Part -> FileSystem \cup {"old"}] /\ DOMAIN content = Part
        BY DEF PMTypeOK, HostTypeOK
      <4>4. CASE i = p
        BY <2>1, <2>4, <4>2, <4>3, <4>4
      <4>5. CASE i \in 1..Len(partitions) /\ i # p
        BY <2>1, <2>4, <4>2, <4>3, <4>5 DEF PreparedInv, Formatted
      <4> QED
        BY <4>1, <4>4, <4>5
    <3>3. Formatted'
      BY <3>1, <3>2 DEF Formatted
    <3>4. pc' = "prepared" => p = last
      BY <2>4
    <3>5. table = NewTable /\ kernel = table
      BY <1>5 DEF formatPartition, PreparedInv
    <3> QED
      BY <2>2, <3>1, <3>3, <3>4, <3>5 DEF PreparedInv
  <2> QED
    BY <1>5, <2>3, <2>4 DEF formatPartition, Erased, WithNode
<1>6. CASE DesktopMount /\ UNCHANGED pmVars
  BY <1>6 DEF DesktopMount, pmVars, PreparedInv, Formatted, AskedFs, NewTable
<1>7. CASE UNCHANGED PMVars
  BY <1>7 DEF PMVars, hostVars, pmVars, PreparedInv, Formatted, AskedFs, NewTable
<1> QED
  BY <1>1, <1>2, <1>3, <1>4, <1>5, <1>6, <1>7 DEF PMNext, PMStep

(* The partitions that prepareDisk returns are those that were asked for.  *)
THEOREM PreparedAsAskedThm ==
  ASSUME "rereadFails" \notin Faults
  PROVE  PMSpec => []PreparedAsAsked
<1>1. PMInit => PreparedInv
  BY DEF PMInit, PreparedInv, Formatted
<1>2. PMTypeOK /\ PreparedInv => PreparedAsAsked
  <2> SUFFICES ASSUME PMTypeOK, PreparedInv, pc = "prepared", partitions # <<>>
               PROVE  /\ table = NewTable /\ kernel = table
                      /\ Len(partitions) = Len(table)
                      /\ \A i \in 1..Len(partitions) :
                           fs[partitions[i]] = AskedFs(i) /\ content[partitions[i]] = {}
    BY DEF PreparedAsAsked, AskedFs
  <2>1. table = NewTable /\ kernel = table
    BY DEF PreparedInv
  <2>2. config \in PartitionConfig
    BY DEF PMTypeOK
  <2>3. Len(partitions) = Len(table)
    BY <2>1, <2>2, NewTableType DEF PreparedInv
  <2>4. ASSUME NEW i \in 1..Len(partitions)
        PROVE  fs[partitions[i]] = AskedFs(i) /\ content[partitions[i]] = {}
    BY DEF PMTypeOK, PreparedInv, Formatted
  <2> QED
    BY <2>1, <2>3, <2>4
<1> QED
  BY <1>1, <1>2, TypeInit, TypeNext, PreparedNext, PTL DEF PMSpec
=============================================================================
