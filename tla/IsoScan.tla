------------------------------ MODULE IsoScan ------------------------------
(***************************************************************************)
(* IsoAnalyzer::analyze step by step (src/src/core/iso_analyzer.cpp): the  *)
(* El Torito boot catalog in its 32-byte slots, the ISO 9660 directories   *)
(* in their sectors, and the extended scan through 7z or a loop mount.     *)
(* IsoAnalyzer, which the other modules use, says what comes out of it.    *)
(***************************************************************************)
EXTENDS IsoAnalyzer, Sequences, FiniteSets, Functions

CONSTANTS
  RawImages,       \* images: see RawImage
  CatalogSlots,    \* slots of the catalog's sector behind the default entry
  SectorRecords,   \* directory records a sector has room for
  MaxFiles,        \* files listed after which no directory is entered
  Tools            \* what the host has: "7z"; "root", to mount

(* A directory record: itself or its parent; a directory; an extent of a   *)
(* file.  A name is what remains of it without its version.                *)
DirectoryRecord ==
  [kind : {"dot"}] \cup [kind : {"dir"}, name : STRING]
    \cup [kind : {"file"}, name : STRING, size : Size]

(* A section of the boot catalog: whether each of its entries is bootable. *)
Section == [platform : {"bios", "uefi", "other"}, entries : Seq(BOOLEAN)]

(* Where the records of an image are: directory, sector, place in it.      *)
Places(image, kind) ==
  {p \in UNION {{<<d, s, i>> : s \in DOMAIN image.dirs[d], i \in 1..SectorRecords} :
                  d \in DOMAIN image.dirs} :
     /\ p[3] \in DOMAIN image.dirs[p[1]][p[2]]
     /\ image.dirs[p[1]][p[2]][p[3]].kind = kind}

At(image, p) == image.dirs[p[1]][p[2]][p[3]]

Within(d, name) == IF d = "" THEN name ELSE d \o "/" \o name

Path(image, p) == Within(p[1], At(image, p).name)

(* What of an image can be seen: by a reader of UDF or of an image without *)
(* a stub, and by one of ISO 9660.                                         *)
Iso9660(image) == {Path(image, p) : p \in Places(image, "file")}

Views(image) == {DOMAIN image.tree, Iso9660(image)}

(* The directories are a tree.  Every record of a file is of one that a    *)
(* mount shows; a file over 4 GiB has several, and what the raw scan makes *)
(* of its size is the largest.                                             *)
WellFormed(image) ==
  LET files   == Places(image, "file")
      subdirs == Places(image, "dir")
  IN  /\ IsFiniteSet(files)
      /\ \A p \in files : /\ Path(image, p) \in DOMAIN image.tree
                          /\ At(image, p).size <= RawSize(image.tree[Path(image, p)])
      /\ \A p \in files : \E q \in files :
           Path(image, q) = Path(image, p) /\ At(image, q).size = RawSize(image.tree[Path(image, p)])
      /\ \A p \in subdirs : Path(image, p) \in DOMAIN image.dirs \ {""}
      /\ \A p, q \in subdirs : Path(image, p) = Path(image, q) => p = q
      /\ \A D \in SUBSET DOMAIN image.dirs :
           ("" \in D /\ \A p \in subdirs : p[1] \in D => Path(image, p) \in D) =>
             D = DOMAIN image.dirs

(* A raw image is a record.  isIso, hasElTorito, hybrid: its descriptor,   *)
(* boot record and boot code are there.  default, sections: the boot       *)
(* catalog.  dirs: for each directory of ISO 9660, by its path, its        *)
(* sectors.  tree: the files with their sizes, as a mount shows them.      *)
ASSUME ISAssumption ==
  /\ CatalogSlots \in Nat /\ MaxFiles \in Nat /\ SectorRecords \in Nat \ {0}
  /\ Tools \subseteq {"7z", "root"}
  /\ \A r \in RawImages :
       /\ r.sections \in Seq(Section)
       /\ r.dirs \in [DOMAIN r.dirs -> Seq(Seq(DirectoryRecord))] /\ "" \in DOMAIN r.dirs
       /\ \A d \in DOMAIN r.dirs : \A s \in Range(r.dirs[d]) : Len(s) <= SectorRecords
       /\ r.tree \in [DOMAIN r.tree -> Size] /\ DOMAIN r.tree \subseteq File
       /\ WellFormed(r)

VARIABLES
  raw,        \* the image
  pc,         \* where analyze is
  offset,     \* the next slot of the catalog
  section,    \* the section header read last, and how many entries are to come
  bootMode,   \* result.bootMode, as far as the catalog goes
  stack,      \* the directories scanDirectoryTree is in, innermost last
  allFiles, largestFileSize,
  scan,       \* the scan that allFiles is from
  loopDev,    \* loopDev of scanViaMount names a device
  host,       \* what is attached and mounted for scanViaMount
  unreleased, \* what umount or losetup -d was to release and did not
  result      \* what analyze returns

catalogVars == <<offset, section, bootMode>>
fileVars    == <<stack, allFiles, largestFileSize, scan>>
mountVars   == <<loopDev, host, unreleased>>

vars == <<raw, pc, catalogVars, fileVars, mountVars, result>>

-----------------------------------------------------------------------------
(* The volume descriptor, the boot record, the catalog.                    *)

readPrimaryVolumeDescriptor ==
  /\ pc = "descriptor"
  /\ IF raw.isIso THEN pc' = "bootRecord" /\ UNCHANGED result
                  ELSE pc' = "done" /\ result' = "invalid"
  /\ UNCHANGED <<raw, catalogVars, fileVars, mountVars>>

Booted(platform, bootable) == IF bootable THEN {platform} \cap {"bios", "uefi"} ELSE {}

(* The boot record, and the catalog's validation and default entries.      *)
readElToritoBootRecord ==
  /\ pc = "bootRecord"
  /\ IF raw.hasElTorito
     THEN /\ bootMode' = Booted(raw.default.platform, raw.default.bootable)
          /\ pc' = "header"
     ELSE UNCHANGED bootMode /\ pc' = "tree"
  /\ UNCHANGED <<raw, offset, section, fileVars, mountVars, result>>

(* The slots of the catalog behind the default entry, section by section.  *)
Header(i) == [kind |-> IF i = Len(raw.sections) THEN "finalHeader" ELSE "header",
              platform |-> raw.sections[i].platform,
              count |-> Len(raw.sections[i].entries)]

Entries(i) == [j \in DOMAIN raw.sections[i].entries |->
                 [kind |-> "entry", bootable |-> raw.sections[i].entries[j]]]

SlotsFrom[i \in 1..(Len(raw.sections) + 1)] ==
  IF i > Len(raw.sections) THEN <<>> ELSE <<Header(i)>> \o Entries(i) \o SlotsFrom[i + 1]

Slots == SlotsFrom[1]

Slot(i) == IF i \in DOMAIN Slots THEN Slots[i] ELSE [kind |-> "zero"]

(* A plausible bug: the catalog is read a slot past its sector.            *)
InSector_Late == offset <= CatalogSlots + 1

InSector == offset <= CatalogSlots

readSectionHeader ==
  /\ pc = "header"
  /\ IF InSector /\ Slot(offset).kind \in {"header", "finalHeader"}
     THEN section' = Slot(offset) /\ offset' = offset + 1 /\ pc' = "entry"
     ELSE pc' = "tree" /\ UNCHANGED <<section, offset>>
  /\ UNCHANGED <<raw, bootMode, fileVars, mountVars, result>>

readSectionEntry ==
  /\ pc = "entry"
  /\ IF InSector /\ section.count > 0
     THEN /\ bootMode' = bootMode \cup (IF Slot(offset).kind = "entry"
                                        THEN Booted(section.platform, Slot(offset).bootable)
                                        ELSE {})
          /\ section' = [section EXCEPT !.count = @ - 1]
          /\ offset' = offset + 1
          /\ UNCHANGED pc
     ELSE /\ pc' = IF section.kind = "finalHeader" THEN "tree" ELSE "header"
          /\ UNCHANGED <<bootMode, section, offset>>
  /\ UNCHANGED <<raw, fileVars, mountVars, result>>

-----------------------------------------------------------------------------
(* scanDirectoryTree.                                                      *)

Top == stack[Len(stack)]

Sectors == raw.dirs[Top.dir]

(* What is at a position of the directory; a sector ends in zeros.         *)
Record(pos) ==
  LET sector == Sectors[(pos \div SectorRecords) + 1]
      i      == (pos % SectorRecords) + 1
  IN  IF i \in DOMAIN sector THEN sector[i] ELSE [kind |-> "zero"]

AtEnd == Top.pos >= Len(Sectors) * SectorRecords

(* Plausible bugs: the first zeros end the directory; a sector that starts *)
(* with zeros, as one allocated in advance does, is not left.              *)
NextSector_None(pos) == Len(Sectors) * SectorRecords

NextSector_Aligned(pos) == ((pos + SectorRecords - 1) \div SectorRecords) * SectorRecords

NextSector(pos) == ((pos \div SectorRecords) + 1) * SectorRecords

Moved(pos) == [stack EXCEPT ![Len(stack)].pos = pos]

fullPath(name) == Within(Top.dir, name)

(* A plausible bug: the limit ends the listing of a directory as well.      *)
Listed_Limited(path) == IF Len(allFiles) <= MaxFiles THEN Append(allFiles, path) ELSE allFiles

Listed(path) == Append(allFiles, path)

skipRecord ==
  /\ \/ Record(Top.pos).kind = "zero" /\ stack' = Moved(NextSector(Top.pos))
     \/ Record(Top.pos).kind = "dot" /\ stack' = Moved(Top.pos + 1)
  /\ UNCHANGED <<allFiles, largestFileSize>>

listFile ==
  /\ Record(Top.pos).kind = "file"
  /\ stack' = Moved(Top.pos + 1)
  /\ allFiles' = Listed(fullPath(Record(Top.pos).name))
  /\ largestFileSize' = Largest({largestFileSize, Record(Top.pos).size})

(* A directory is entered unless too many files have been listed.          *)
enterDirectory ==
  /\ Record(Top.pos).kind = "dir"
  /\ stack' = IF Len(allFiles) > MaxFiles THEN Moved(Top.pos + 1)
              ELSE Append(Moved(Top.pos + 1),
                          [dir |-> fullPath(Record(Top.pos).name), pos |-> 0])
  /\ UNCHANGED <<allFiles, largestFileSize>>

scanDirectoryTree ==
  /\ pc = "tree" /\ stack # <<>>
  /\ \/ ~AtEnd /\ (skipRecord \/ listFile \/ enterDirectory)
     \/ AtEnd /\ stack' = SubSeq(stack, 1, Len(stack) - 1)
              /\ UNCHANGED <<allFiles, largestFileSize>>
  /\ UNCHANGED <<raw, pc, catalogVars, scan, mountVars, result>>

-----------------------------------------------------------------------------
(* The extended scan, when no key installer file was found.                *)

Step(next) == pc' = next /\ UNCHANGED <<raw, catalogVars, stack, result>>

hasKeyInstaller == Range(allFiles) \cap (InstallFile \cup {BootWim}) # {}

lookForInstaller ==
  /\ pc = "tree" /\ stack = <<>>
  /\ Step(IF hasKeyInstaller THEN "classify" ELSE "7z")
  /\ UNCHANGED <<allFiles, largestFileSize, scan, mountVars>>

(* What another scan finds replaces the list, in some order.               *)
Found(files, by) ==
  /\ allFiles' = CHOOSE s \in [1..Cardinality(files) -> files] : IsInjective(s)
  /\ largestFileSize' = Largest({raw.tree[f] : f \in files})
  /\ scan' = by

(* 7z lists one view of the image, or is not there, or fails, or does not  *)
(* come to an end; a list with nothing in it does not count.               *)
scanVia7z ==
  /\ pc = "7z"
  /\ \/ /\ "7z" \in Tools
        /\ \E view \in Views(raw) : view # {} /\ Found(view, "7z")
        /\ Step("classify")
     \/ Step("losetup") /\ UNCHANGED <<allFiles, largestFileSize, scan>>
  /\ UNCHANGED mountVars

(* A command that fails or is given up on may have done its work or do it  *)
(* yet.                                                                    *)
GivenUp(late) == host' \in {host} \cup IF "root" \in Tools THEN {host \cup {late}} ELSE {}

(* scanViaMount from here on.  Without a directory to mount at it returns. *)
losetup ==
  /\ pc = "losetup"
  /\ \/ "root" \in Tools /\ loopDev' = TRUE /\ host' = host \cup {"loop"} /\ Step("mountLoop")
     \/ GivenUp("lateLoop") /\ UNCHANGED loopDev /\ Step("mountLegacy")
     \/ UNCHANGED <<loopDev, host>> /\ Step("classify")
  /\ UNCHANGED <<unreleased, allFiles, largestFileSize, scan>>

Mount ==
  /\ "root" \in Tools
  /\ host' = host \cup {"mount"}
  /\ UNCHANGED unreleased
  /\ Step("mounted")

(* A plausible bug: a device that could not be mounted is forgotten.       *)
Release_Forgotten(what) ==
  /\ host' = IF pc = "mountLoop" THEN host ELSE host \ what
  /\ UNCHANGED unreleased

(* umount and losetup -d, either of which may fail without anybody looking.*)
(* A device that is mounted is busy.                                       *)
Release(what) ==
  \E kept \in SUBSET (what \cap host) :
    /\ "mount" \in kept => what \cap host \subseteq kept
    /\ host' = (host \ what) \cup kept
    /\ unreleased' = unreleased \cup kept

(* A mount that failed to begin with, or that was given up and comes late. *)
mountLoop ==
  /\ pc = "mountLoop"
  /\ \/ Mount /\ UNCHANGED loopDev
     \/ /\ \/ Release({"loop"})
           \/ host' = host \cup {"lateMount"} /\ unreleased' = unreleased \cup {"loop"}
        /\ loopDev' = FALSE
        /\ Step("mountLegacy")
  /\ UNCHANGED <<allFiles, largestFileSize, scan>>

(* mount makes a loop device of its own here, which goes with the mount.   *)
mountLegacy ==
  /\ pc = "mountLegacy"
  /\ \/ Mount
     \/ GivenUp("lateMount") /\ UNCHANGED unreleased /\ Step("classify")
  /\ UNCHANGED <<loopDev, allFiles, largestFileSize, scan>>

(* The files of a view by the directory they are in.                       *)
Folders(view) ==
  LET sources == {"sources/install.wim", "sources/install.esd", BootWim}
  IN  {view \cap folder : folder \in {sources} \cup {{f} : f \in File \ sources}} \ {{}}

(* The directories of the mount, whose file system mount has chosen, in    *)
(* some order, until too many files have been listed when one is entered;  *)
(* then umount, and the device.                                            *)
scanMountedDir ==
  /\ pc = "mounted"
  /\ \E view \in Views(raw) : \E shown \in SUBSET Folders(view) :
       /\ \/ shown = Folders(view)
          \/ /\ Cardinality(UNION shown) > MaxFiles
             /\ \E last \in shown : Cardinality(UNION (shown \ {last})) <= MaxFiles
       /\ Found(UNION shown, "mount")
  /\ Release(IF loopDev THEN {"mount", "loop"} ELSE {"mount"})
  /\ UNCHANGED loopDev
  /\ Step("classify")

-----------------------------------------------------------------------------

classify ==
  /\ pc = "classify"
  /\ result' = classifyImage(Range(allFiles), largestFileSize, bootMode, raw.hybrid)
  /\ pc' = "done"
  /\ UNCHANGED <<raw, catalogVars, fileVars, mountVars>>

Init ==
  /\ raw \in RawImages
  /\ pc = "descriptor"
  /\ offset = 1 /\ section = [kind |-> "none"] /\ bootMode = {}
  /\ stack = <<[dir |-> "", pos |-> 0]>> /\ allFiles = <<>> /\ largestFileSize = Link
  /\ scan = "raw"
  /\ loopDev = FALSE /\ host = {} /\ unreleased = {}
  /\ result = "none"

Next ==
  \/ readPrimaryVolumeDescriptor \/ readElToritoBootRecord
  \/ readSectionHeader \/ readSectionEntry
  \/ scanDirectoryTree \/ lookForInstaller
  \/ scanVia7z \/ losetup \/ mountLoop \/ mountLegacy \/ scanMountedDir
  \/ classify

(* The pool thread runs, and each command has a time limit.                *)
Spec == Init /\ [][Next]_vars /\ WF_vars(Next)

-----------------------------------------------------------------------------

TypeOK ==
  /\ raw \in RawImages
  /\ pc \in {"descriptor", "bootRecord", "header", "entry", "tree", "7z", "losetup", "mountLoop",
             "mountLegacy", "mounted", "classify", "done"}
  /\ offset \in 1..(CatalogSlots + 1) /\ bootMode \subseteq {"bios", "uefi"}
  /\ \A i \in DOMAIN stack :
       /\ stack[i].dir \in DOMAIN raw.dirs
       /\ stack[i].pos \in 0..(Len(raw.dirs[stack[i].dir]) * SectorRecords)
  /\ allFiles \in Seq(File) /\ largestFileSize \in Size
  /\ scan \in {"raw", "7z", "mount"}
  /\ loopDev \in BOOLEAN
  /\ host \subseteq {"loop", "mount", "lateLoop", "lateMount"}
  /\ unreleased \subseteq {"loop", "mount"}

(* What is in the image, by its structure.                                 *)
Catalog ==
  IF raw.hasElTorito
  THEN Booted(raw.default.platform, raw.default.bootable)
         \cup UNION {Booted(s.platform, TRUE \in Range(s.entries)) : s \in Range(raw.sections)}
  ELSE {}

AsImage ==
  [tree |-> raw.tree,
   iso9660 |-> Iso9660(raw),
   catalog |-> Catalog, hybrid |-> raw.hybrid]

(* Every catalog and every tree is read to its end: an analysis is one of  *)
(* those that IsoAnalyzer allows, and with it all that DiskWriter and      *)
(* MainWindow take for possible, unless the image has more files than the  *)
(* scan lists or its catalog is longer than a sector.                      *)
AnalysisAsAssumed ==
  (/\ pc = "done" /\ raw.isIso
   /\ Len(Slots) <= CatalogSlots
   /\ Cardinality(Places(raw, "file")) <= MaxFiles
   /\ scan = "mount" => Cardinality(DOMAIN raw.tree) <= MaxFiles) =>
    result \in analyze(AsImage)

(* A Windows installer: what it installs is beside boot.wim wherever that  *)
(* is, in ISO 9660 and in the tree a mount shows.                          *)
WindowsInstaller(image) ==
  /\ DOMAIN image.tree \cap InstallFile # {}
  /\ \A p \in Places(image, "file") : Path(image, p) = BootWim =>
       \E q \in Places(image, "file") : q[1] = p[1] /\ Path(image, q) \in InstallFile
  /\ \A view \in Views(image) : BootWim \in view =>
       view \cap {"sources/install.wim", "sources/install.esd"} # {}

(* The limit never hides a Windows installer: a scan that has seen boot.wim*)
(* has seen what is to be installed beside it, whatever came in between.   *)
InstallerSeen ==
  (/\ pc = "done" /\ raw.isIso /\ WindowsInstaller(raw)
   /\ BootWim \in Range(allFiles)) =>
    result.isoType = "WindowsInstaller"

(* Whichever of the ways to mount the image failed, no mount that          *)
(* succeeded and no device that losetup returned is forgotten: what is     *)
(* still there is what umount or losetup -d failed to release, or what a   *)
(* command that was given up left.                                         *)
NothingLeft == pc = "done" => host \cap {"loop", "mount"} \subseteq unreleased

(* An analysis comes to an end.                                            *)
ScanEnds == <>(pc = "done")
=============================================================================
