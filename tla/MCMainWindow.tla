---------------------------- MODULE MCMainWindow ----------------------------
(* Files with their possible analyses, and lists of up to two drives.      *)
EXTENDS MainWindow, IsoAnalyzer, TLC

Stick(n) == [node |-> n]

MCEntries == {Stick("sdb"), Stick("sdc")}
MCLists   == {<<>>, <<Stick("sdb"), Stick("sdc")>>}

Valid(image, label) ==
  {[isValid |-> TRUE, volumeLabel |-> label] @@ a : a \in analyze(image)}

(* A Windows installer whose wim needs splitting and a hybrid Linux image  *)
(* for BIOS with a file too big for FAT32, both seen with and without the  *)
(* extended scan; and a file that is no image.                             *)
WindowsImage ==
  [tree |-> EfiBootFile :> Small @@ "sources/install.wim" :> Over4GiB,
   iso9660 |-> {EfiBootFile}, catalog |-> {"bios", "uefi"}, hybrid |-> FALSE]

LinuxImage ==
  [tree |-> LiveFile :> Over4GiB, iso9660 |-> {LiveFile}, catalog |-> {"bios"}, hybrid |-> TRUE]

MCAnalyses ==
  "win.iso" :> Valid(WindowsImage, "PLAIN") @@ "linux.iso" :> Valid(LinuxImage, "a:b")
    @@ "notes.txt" :> {NoAnalysis}
=============================================================================
