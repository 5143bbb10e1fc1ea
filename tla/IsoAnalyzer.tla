---------------------------- MODULE IsoAnalyzer ----------------------------
(***************************************************************************)
(* What IsoAnalyzer::analyze concludes from an image                       *)
(* (src/src/core/iso_analyzer.cpp).  An image is the file tree that a      *)
(* mount of it shows, the part of it the ISO 9660 directory lists (on a    *)
(* Windows 10/11 image a stub: the rest is in UDF only), and the platforms *)
(* of its El Torito boot catalog.  Paths stand for the few that the code   *)
(* tells apart; two that differ in case only are different paths.          *)
(***************************************************************************)
EXTENDS Naturals

(* Sizes, by the limits the code compares them with: 4 000 000 000         *)
(* (disk_writer.cpp:254), 4 187 593 113 (iso_analyzer.cpp:493) and the     *)
(* largest file FAT32 holds.  0 is a link to nothing or to a directory.    *)
Size == 0..4
Link     == 0
Small    == 1
Over4e9  == 2
OverWim  == 3
Over4GiB == 4

InstallFile == {"sources/install.wim", "sources/install.esd", "SOURCES/INSTALL.WIM"}
BootWim     == "sources/boot.wim"
EfiBootFile == "EFI/BOOT/BOOTX64.EFI"
LiveFile    == "casper/filesystem.squashfs"
File        ==
  InstallFile \cup {BootWim, EfiBootFile, LiveFile, "install/vmlinuz", "docs/latest"}

Image == [tree : UNION {[fs -> Size] : fs \in SUBSET File},
          iso9660 : SUBSET File, catalog : SUBSET {"bios", "uefi"}, hybrid : BOOLEAN]

(* classifyImage, on the files the scans have listed.  Paths are compared  *)
(* in upper case, and the largest file of all decides on the split.        *)
isoType(files) ==
  CASE files \cap InstallFile # {} -> "WindowsInstaller"
    [] files \cap InstallFile = {} /\ BootWim \in files -> "WindowsPE"
    [] files \cap (InstallFile \cup {BootWim}) = {} ->
         CASE LiveFile \in files -> "LinuxLive"
           [] LiveFile \notin files /\ "install/vmlinuz" \in files -> "LinuxInstaller"
           [] OTHER -> "Generic"

(* A file over 4 GiB is several extents in an ISO 9660 directory, each of  *)
(* them smaller; the raw scan sees the largest extent.                     *)
RawSize(size) == IF size = Over4GiB THEN OverWim ELSE size

classifyImage(files, largest, catalog, hybrid) ==
  [isoType       |-> isoType(files),
   needsSplitWim |-> files \cap InstallFile # {} /\ largest >= OverWim,
   largeFile     |-> largest >= Over4GiB,
   bootMode      |-> catalog \cup IF EfiBootFile \in files THEN {"uefi"} ELSE {},
   isIsoHybrid   |-> hybrid]

Largest(sizes) == CHOOSE s \in sizes \cup {Link} : \A o \in sizes : s >= o

(* The analyses of an image.  The extended scan (7z, or a mount that needs *)
(* root) is tried only when the raw scan has found no key installer file,  *)
(* and may be unavailable.  It replaces what the raw scan found by what 7z *)
(* or the mount shows: the whole image, or its ISO 9660 directory again.   *)
analyze(image) ==
  LET sizes(files) == {image.tree[f] : f \in files}
      keyFound == image.iso9660 \cap (InstallFile \cup {BootWim}) # {}
      raw      == classifyImage(image.iso9660,
                                RawSize(Largest(sizes(image.iso9660))),
                                image.catalog, image.hybrid)
      extended == { classifyImage(view, Largest(sizes(view)), image.catalog, image.hybrid) :
                      view \in {DOMAIN image.tree, image.iso9660} }
  IN  {raw} \cup IF keyFound THEN {} ELSE extended
=============================================================================
