---------------------------- MODULE MCDiskWriter ----------------------------
(***************************************************************************)
(* Images and requests for the runs of DiskWriter.  A request is what the  *)
(* GUI sends: its form, and one of the analyses of the image.              *)
(***************************************************************************)
EXTENDS DiskWriter, TLC

ImageOf(files, listed, boot) ==
  [tree |-> files, iso9660 |-> listed, catalog |-> boot, hybrid |-> FALSE]

Windows(wimFile, size, listed) ==
  ImageOf(EfiBootFile :> Small @@ BootWim :> Small @@ wimFile :> size, listed, {"bios", "uefi"})

(* What the ISO 9660 directory of a Windows image lists.                   *)
StubOnly         == {EfiBootFile}
Whole9660(wimFile) == {EfiBootFile, BootWim, wimFile}

Linux(size) ==
  ImageOf(EfiBootFile :> Small @@ LiveFile :> size @@ "docs/latest" :> Link,
          {EfiBootFile, LiveFile, "docs/latest"}, {"bios", "uefi"})

Form(filesystems, targets) ==
  [mode : {"ISO"}, scheme : {"GPT"}, filesystem : filesystems, target : targets,
   dualPartition : {FALSE}]

Make(form, a, i) ==
  [mode |-> form.mode, scheme |-> form.scheme, filesystem |-> form.filesystem,
   target |-> form.target, dualPartition |-> form.dualPartition,
   isoType |-> a.isoType, needsSplitWim |-> a.needsSplitWim,
   tree |-> i.tree, iso9660 |-> i.iso9660]

RequestsFor(images, forms) ==
  UNION { {Make(form, a, i) : form \in forms, a \in analyze(i)} : i \in images }

(* Every branch of write: a wim to copy and one to split, listed or not by *)
(* ISO 9660, a Linux tree, a file too big for FAT32, a raw write.          *)
WindowsImages ==
  { Windows("sources/install.wim", size, StubOnly) : size \in {Small, Over4GiB} }
    \cup {Windows("sources/install.esd", OverWim, Whole9660("sources/install.esd"))}

GuiForms == Form({"FAT32", "NTFS"}, {{"uefi"}, {"bios", "uefi"}})

RawRequest == [CHOOSE r \in RequestsFor({Linux(Small)}, GuiForms) : TRUE EXCEPT !.mode = "DD"]

GuiRequests ==
  RequestsFor(WindowsImages \cup {Linux(Small), Linux(Over4GiB)}, GuiForms) \cup {RawRequest}

(* The backend reads dualPartition from its configuration file; the GUI    *)
(* always writes false there.                                              *)
DualRequests ==
  { [r EXCEPT !.dualPartition = TRUE] :
      r \in RequestsFor({Linux(Small)}, Form({"FAT32", "ext4"}, {{"uefi"}, {"bios"}})) }

BackendRequests == GuiRequests \cup DualRequests

(* Every configuration of prepareDisk: scheme, file system and layout.     *)
EveryForm ==
  [mode : {"ISO"}, scheme : {"MBR", "GPT"}, filesystem : FileSystem, target : {{"uefi"}},
   dualPartition : BOOLEAN]

CleanRequests == GuiRequests \cup RequestsFor({Linux(Small)}, EveryForm)

(* Images whose ISO 9660 directory is no stub.                             *)
WholeImages ==
  { Windows(wim9660, size, Whole9660(wim9660)) :
      wim9660 \in {"sources/install.wim", "sources/install.esd"}, size \in {Small, Over4GiB} }
    \cup {Linux(Small), Linux(Over4GiB)}

WholeRequests == RequestsFor(WholeImages, GuiForms) \cup {RawRequest}

(* One image each, for the runs that refute.                               *)
OneForm == Form({"FAT32"}, {{"uefi"}})

LinuxRequests == RequestsFor({Linux(Small)}, OneForm)

StubRequests == RequestsFor({Windows("sources/install.wim", Small, StubOnly)}, OneForm)
=============================================================================
