# Lufus in TLA+

Lufus writes bootable USB drives from ISO images on Linux. It is one Qt
executable used twice: as the GUI, and, started by the GUI through `pkexec`, as
a root process that makes one write and exits. These modules model what
destroys and fills drives, and what decides which drive and which image:
the partitioning (`PartitionManager`), the write (`DiskWriter`, `Bootloader`,
`runBackend`), the analysis of an image (`IsoAnalyzer`), the list of drives
(`DeviceManager`), the window with its dialogs (`MainWindow`), and all of it
together (`Lufus`).

## 1. Inventory

| Component | State | Operations | Talks to |
|---|---|---|---|
| `PartitionManager` (`core/partition_manager.*`) | none of its own; the drive | `unmountAll`, `wipeDisk`, `partitionDisk` (MBR, GPT), `formatPartition`, `prepareDisk`, `runCommand` | `umount`, `wipefs`, `sfdisk`, `partprobe`, `mkfs.*`; signals to its caller |
| `DiskWriter` (`core/disk_writer.*`) | `m_cancelled` (atomic), the temporary directory of a write, a `wimlib-imagex` child | `write` (ISO and DD mode), `cancel`, copy and mount helpers | `PartitionManager`, `Bootloader`, `mount`, `umount`, `wimlib-imagex`, `ntfsfix`, `cp` |
| `Bootloader` (`core/bootloader.*`) | none | `install`, `installGrubBios` | `mount`, `grub-install` |
| Backend (`main.cpp` `runBackend`) | one `DiskWriter`, one configuration file | read the JSON, write, exit code | stdout lines `PROGRESS:`, `ERROR:` to the GUI |
| `IsoAnalyzer` (`core/iso_analyzer.*`) | none between calls | `analyze`: volume descriptor, boot catalog, ISOHybrid check, directory scan, `7z`/mount scan, classification | `7z`, `losetup`, `mount`; runs on pool threads |
| `DeviceManager` (`core/device_manager.*`) | `m_currentDevices`, udev monitor, poll timer | `scanDevices`, `pollUdevMonitor`, `startMonitoring`, `stopMonitoring` | libudev, signals to the window |
| `MainWindow` (`ui/mainwindow.*`) | device list and selection, `m_currentAnalysis`, form, `m_isWriting`, `m_backendProcess` | slots for devices, image, form, START, CANCEL, backend output and exit | all of the above, modal dialogs with nested event loops |
| `test_iso.cpp`, packaging, polkit, Flatpak, resources | none | none of interest here | |

The GUI writes `/tmp/rufus_backend_<uuid>.json`, starts the backend and
reads its stdout; the exit code is the verdict. The backend thread is
sequential and waits for one external command after another, with a time limit
on each but `wimlib-imagex` in `splitWimLib`. Around it run the kernel, the
desktop's automounter, the wimlib child and whoever kills the backend.

What is hard: commands that fail half-way or whose exit code is ignored; some
twenty return paths that each have to unmount what they mounted, and a
`QTemporaryDir` that deletes what is still mounted below it; kills that leave
mounts and a child behind for the next write; cancellation looked at in some
places; the two copies of the partition table (medium and kernel); and, in the
GUI, handlers that run inside modal dialogs. `PROJECT.json` lists each such
hazard at its line, with the properties for it or the reason there is none.

What makes each component correct:

- `PartitionManager`: nothing is repartitioned under a mount; the nodes it
  returns are those it was asked for; it returns.
- `DiskWriter`, `Bootloader`, backend: success means that all the mounted image
  showed is on the drive and nothing else, which is the image unless a stub was
  mounted; a failure is reported; no mount is left; a cancellation or a kill
  stops it, and a later write is not harmed.
- `IsoAnalyzer`: an analysis does not depend on which scan found the files;
  the boot catalog is read to its end; it never reads outside its buffers.
- `DeviceManager`: the list converges to the drives that are plugged in, each
  once, never the system disk.
- `MainWindow`: the drive and image written are those the user confirmed; START
  and CANCEL are enabled exactly when they can work; no state outlives its write.

## 2. Modules

`Host` and `IsoAnalyzer` are extended by `PartitionManager`, that one by
`DiskWriter`, so that caller and callee share one control point `pc`, as they
share one thread.

- **`IsoAnalyzer`**: an image is a tree of files, the part of it ISO 9660 lists,
  and its boot platforms. `analyze(image)` is the *set* of analyses possible:
  the extended scan is attempted only if the raw scan saw no key installer file
  (`analyze`, `iso_analyzer.cpp:107-121`), `7z` or root may be missing, and what
  they show may be the whole image or its ISO 9660 part again. File sizes are
  classes between the three limits the code compares with.
- **`Host`** (external): mount table, partition table on the medium, the
  kernel's copy of it, file system and files of each partition. In every run a
  command may fail with an exit code that the code looks at, and without effect.
  Worse behaviour is in the constant `Faults`, and each run names the faults it
  has: `automount`, `busy` (`umount` exits 32, the volume stays mounted), `lazy`
  (`umount` exits otherwise and `umount -l` hides the volume, which lives on),
  `mountLate`, `umountError`, `writeBack`, `rereadFails`, `flushLost`, `wimHang`,
  `kill`, `cancel`. `sfdisk` makes the kernel reread the table before `partprobe`
  does, so that a `partprobe` that fails leaves an old table behind only with
  `rereadFails`; that it fails, and prints an error, is possible in every run.
- **`PartitionManager`**: one action per command of `prepareDisk`; `umList` is
  what the loop of `unmountAll` has left, `umOk` its `allOk`, `partitions` the
  returned list. `kernel` is what `/sys/block` shows when the list is made and
  what the `/dev` nodes stand for when `mkfs` runs. `errorLines` are the programs
  for which `runCommand` has printed an `ERROR:` line, which it does for every
  exit code but 0 and the window shows as an error of the write; `umount` of the
  whole-disk node, never mounted, prints one in almost every write. `reported` is
  `errorOccurred`.
- **`DiskWriter`**: from `StartWrite` (`runBackend`) to `writeReturns`. Both
  branches of `writeIsoMode`, for Windows and for anything else, are the same
  sequence and share actions; they differ by `isWindows` where the code does: the
  wim may be split up front in one, as a fallback in the other, and only one has
  a check of `m_cancelled` before it. `RemoveTempDir` is the `QTemporaryDir` destructor on every way out.
  `Bootloader::install` is `mountBoot`, `installGrubBios`, `umountBoot`.
  `Leave` returns from `write`; `Kill` ends the process without destructors.
  `shown` is what the mounted image shows: `mountPartition` tries `-t udf` and,
  if that fails, mounts whatever the kernel chooses, so it is the whole tree or
  the ISO 9660 directory, which on a Windows image is a stub (`ImageViews`). All
  that follows looks at `shown`. GRUB's installation leaves `boot/grub` whole, in
  part or not at all.
  A file of a partition is "cut" from the moment its copy is opened and "whole"
  when its last byte is on the drive.
- **`DeviceManager`**: it runs in the GUI process.
  `attached` is what udev and sysfs know, `queue` the events the monitor's
  socket holds, `current` is `m_currentDevices` and `shown` the window's
  `m_devices`. `pollUdevMonitor` is one turn of the poll loop, so that drives
  move between two turns, and `pollReturns` its end with the `devicesChanged`
  that `MainWindow::onDevicesChanged` takes. `isUsbDevice` and
  `buildDeviceInfo` read part of what they need from the event and part from
  sysfs, and so do their translations. A scan is one step: a drive that moves
  meanwhile has its event queued.
- **`UsbWrite`**: what the user is promised. The drive is the user's, in
  between ("scratch"), or the image that is being asked for; a write that was
  begun is answered; success only with the image. A new write may ask for
  another image, so `Begin` says anew whether the drive holds it, but the user's
  data never come back. `DiskWriter` implements it by the mapping `Drive`,
  `Outcome`; `Safety` is the part without liveness.
- **`IsoScan`**: `analyze` one step at a time: the boot catalog by 32-byte slots
  (`readSectionHeader`, `readSectionEntry`), `scanDirectoryTree` record by record
  with its sectors, padding and recursion as a stack, the limit on the number of
  files, `scanVia7z`, the two ways to mount and the walk of the mounted
  directory, `classifyImage`. 7z and the mount show one of the image's `Views`.
  It extends `IsoAnalyzer`, and its property
  `AnalysisAsAssumed` says that what comes out is one of the analyses the other
  modules take for possible. `host` is what is attached and mounted, with what a
  command given up brings late ("lateLoop", "lateMount") apart; `umount` and
  `losetup -d` may fail (`Release`), and `unreleased` is what they then leave. An image
  is its sections of the catalog, which `SlotsFrom` lays out as slots; the
  sectors of its directories, whose records are named by their *place*
  (directory, sector, position); and the tree of files a mount shows.
  `WellFormed` says how the three belong together: the directories are a tree,
  and every record of a file is of a file of the mounted tree.
- **`MainWindow`**: one action per slot. Every dialog runs an event loop of its
  own, so `dialogs` is a stack, `EventLoop` says that events are delivered,
  `Input` that the window itself can be used, `Answer` that a dialog can.
  `startWrite` is cut where it opens a dialog: `startWrite`, `hybridAnswered`,
  `confirmAnswered`. `asked` is its reference `dev` into `m_devices`;
  `onDevicesChanged` makes it `stale`, and a read of a stale reference
  (`DevRead`) may give the old entry or one of the new list, or `Crash`.
  `jobs` are the analyses under way, which end in any order. `onWriteCompleted`
  is cut at its message box (`completionRead`). `backend` is `m_backendProcess`
  with pkexec's question, kills that work ("own") and kills that do not
  ("root"), and a process that cannot be started. `Analyses` gives each file the
  analyses possible.
- **`Lufus`**: `DeviceManager` and `MainWindow` instantiated over one set of
  variables (`devices` is what the one calls `shown`), on one thread: a slot
  runs when no poll does (`Slot`), and the poll goes on inside dialogs. The
  backend takes the steps of `UsbWrite` on whatever drive is at the node in
  its configuration (`Written`): it may destroy what is there, come to its end
  (`Finish`, which sets `finished`) or fail at any point, and its exit code is 0
  only at its end, when the drive holds what this write has put there. What that
  is, is `SuccessMeansCopied` of `DiskWriter`. `agreed` is a history variable: what the user last
  said "Yes" to, whether the list was `quiet` meanwhile, and whether the drive
  `stays` at its node since.
- **`MCPartitionManager`, `MCDiskWriter`, `MCDeviceManager`, `MCIsoScan`,
  `MCMainWindow`, `MCLufus`**: instances: images, requests, drives, lists.
- **`PartitionManagerProofs`, `DiskWriterProofs`, `UsbWriteProofs`,
  `DeviceManagerProofs`, `IsoScanDirectories`, `IsoScanProofs`,
  `MainWindowProofs`, `LufusProofs`**: theorems, section 4. `IsoScanDirectories`
  has the types of `IsoScan` and what the raw scan has listed at every point,
  `IsoScanProofs` the catalog and the theorems. `LufusProofs` instantiates
  `DeviceManagerProofs` and `MainWindowProofs`, as `Lufus` does their modules.

Operators like `FailCopy_Silent`, named after a definition and a bug, stand
before the definition they are a faulty version of; no specification uses
them. They serve to show that each property can fail.

## 3. Runs

Passing:

| Run | Question | States |
|---|---|---|
| `write_clean` | every request of the GUI and every configuration of `prepareDisk`, every clean failure, images that show their stub only, a cancellation anywhere: `SuccessMeansCopied`, `NoLeakedMounts`, no rewrite of the table under a mount (`WipeOnlyUnmounted`), the right partitions in the right order (`PreparedAsAsked`), types | 21 k |
| `write_faults` | all misbehaviours of the host but a kill, a wimlib child that never exits included, dual layouts too: `FailureReported`, `WriteReturns` (unless that child hangs), `CancelStopsWrite` (even then) | 981 k |
| `kill_and_retry` | two writes, the first killed anywhere, possibly leaving mounts and a writing child; images without a stub: `OnlyTheImage`, `ImplementsUsbWrite` | 217 k |
| `device_list` | drives come and go around scans, delayed, overtaken and lost events, and the check box: `Settled`, `Converges`, `SystemDiskNotOffered`, types | 231 k |
| `iso_scan` | every catalog of up to four slots, directory trees around the ends of sectors, of the file limit and of names beside each other, every tool missing, failing, late or showing the ISO 9660 part only: `AnalysisAsAssumed`, `InstallerSeen`, `NothingLeft`, `ScanEnds`, types | 59 k |
| `window` | the window alone, with analyses that overtake each other, drives that come and go inside every dialog, and every end of a backend: `ButtonsRight`, `FormFits`, `AutoConfigured`, `NameSettles`, `RequestOfOneImage`, `OneBackend`, `WriteEnds`, types | 848 k |
| `lufus` | window, list and backend while sticks are plugged in, pulled out and swapped: `OnlyTheNamedIfQuiet`, `SuccessIsTrue`, `SystemDiskKept`, `Converges` (through the dialogs' event loops), types | 890 k |

Refuting; each contradicts a statement the repository makes, quoted in
`PROJECT.json`:

| Run | What it shows |
|---|---|
| `prepare_busy` | `umount` exits 32 for a busy volume as for an unmounted one; `unmountAll` returns true and the drive is wiped with the volume mounted |
| `stub_mounted` | `mount -t udf` fails on a Windows image, the second attempt mounts the ISO 9660 stub, no wim is found, and success is reported without the installer |
| `umount_ignored` | a failed `umount`, or a mount that attaches after its 15 s, and the temporary directory's removal empties the finished drive; success is reported |
| `mapped_root` | with `/` on a device-mapper volume no disk is recognised as the system's; a system that runs from USB offers its own drive |
| `confirm_stale` | a stick is plugged in while "ALL DATA ... will be DESTROYED" is on the screen; the poll in the dialog's event loop replaces `m_devices`, `startWrite` goes on with a reference into the old list, and another drive than the one named is written |

**Bounds.** *Drive and write:* one drive with at most two partitions, which is
all `prepareDisk` makes; it was partitioned in two, so a stale kernel table can
offer a second node or lack one. Eight file names: those the code singles out
and one of every other kind (a link, a large live file). Sizes are the four
classes between the code's limits. `Chunks = 3` gives a raw write a first, a
middle and a last chunk. `MaxRuns` is 1, or 2 where an earlier write matters:
`StartWrite` resets all but the drive and the mounts, so a third run starts
where a second can. `write_clean` has every scheme, file system and layout with
one small image, and every image with the forms of the GUI; `write` computes the
configuration of `prepareDisk`, and `Configs`, for `prepareDisk` by itself, is
empty there. *Device list:* two ports
beside the system disk, one drive of every kind and two sticks, so that a node
can pass from one to the other; four moves on a queue for two events overflow it
and go on. *Analysis:* a catalog sector with room for three slots behind the
default entry, directory sectors for three records and a limit of three files
stand for 62, 2048 bytes and 50 000: `MCIsoScan` has what is one short of each,
at it and beyond. *Window:* two picks, so that analyses overtake each other
(three files: a Windows image, a hybrid Linux image, no image); two changes by
hand, which is a scheme and then a target, or a file system and then a label;
lists of none and of two drives. *`lufus`:* two sticks and the system disk, two
moves (a swap, or one in and one out), one image; the two ports and the two
sticks are alike, and `MCInit` takes one of each pair of symmetric starts; the
form and the other images are in `window`, where `RequestOfOneImage` follows an
image from the pick to the configuration over two picks; that the success is of
the image *then chosen* cannot fail with one image, and is `SuccessOfTheNamed`'s
to say for all of them. The theorems of section 4 need none
of these bounds.

`CHECK_DEADLOCK FALSE` throughout: `prepareDisk`, the last write and an
analysis end, and a window is closed.

**Fairness.** Weak fairness of the backend thread as a whole: it is one thread,
the scheduler runs it, and what it waits for either has a time limit or is the
wimlib child. Weak fairness of that child only when `wimHang` is not among the
faults. In `DeviceManager`, of the poll (a timer) and of the window's
constructor. In `IsoScan`, of the pool thread, whose commands all have time
limits. In `MainWindow`, of the delivery of `finished()` by whichever event loop
runs, and of a backend that works at its write (`WriteReturns` of `DiskWriter`
is the reason). In `Lufus`, of the constructor, of poll and delivery, of the end
of the destructor. Nothing is assumed of users: no question has to be answered,
pkexec's included, and no dialog closed; nor of cancellations, kills, the
kernel's write-back, the automounter or the order of analyses.

## 4. Proofs

Checked by TLAPS, for every value of the constants:

| Theorem | States | Assumes |
|---|---|---|
| `PMTypeOKThm` | `PMSpec => []PMTypeOK` | |
| `UnmountAllKeptThm` | `PMSpec => []UnmountAllKept` | no `busy`, no `automount` |
| `WipeOnlyUnmountedThm` | `PMSpec => WipeOnlyUnmounted` | no `busy`, no `automount` |
| `PreparedAsAskedThm` | `PMSpec => []PreparedAsAsked` | no `rereadFails` |
| `WriteTypes` | `DWSpec => []DWTypeOK` | |
| `FailureReportedThm` | `DWSpec => []FailureReported` | |
| `NothingStaysMounted` | `DWSpec => []NoLeakedMounts` | no `umountError`, `mountLate`, `wimHang`, `kill` |
| `SuccessIsCopied` | `DWSpec => []SuccessMeansCopied` | no `umountError`, `mountLate`, `writeBack`, `flushLost`; `OneInstaller` |
| `SuccessIsComplete` | `DWSpec => []SuccessMeansComplete` | as `SuccessIsCopied`; `WholeListed` |
| `NothingButTheImage` | `DWSpec => []OnlyTheImage` | no `flushLost`; `InstallerSeen` |
| `KeepsThePromise` | `DWSpec => UW!Safety` | as `SuccessIsComplete` |
| `ListTypes` | `DMSpec => []DMTypeOK` | |
| `SystemDiskIsNotOffered` | `DMSpec => []SystemDiskNotOffered` | `RootName = Root` |
| `ListSettles` | `DMSpec => []Settled` | |
| `NothingIsLeft` | `Spec => []NothingLeft` (`IsoScan`) | |
| `ScanTypesHold` | `Spec => []TypeOK` (`IsoScan`) | |
| `AnalysesAreAsAssumed` | `Spec => []AnalysisAsAssumed` (`IsoScan`) | |
| `InstallersAreSeen` | `Spec => []InstallerSeen` (`IsoScan`) | |
| `WindowTypes`, `ButtonsAreRight`, `FormAlwaysFits`, `NameAlwaysSettles`, `RequestIsOfOneImage`, `OneBackendOnly`, `FormIsAutoConfigured` | the properties of `window` but `WriteEnds` | |
| `OnlyTheNamedDrive` | `Spec => OnlyTheNamedIfQuiet` (`Lufus`) | |
| `SuccessOfTheNamed` | `Spec => []SuccessIsTrue` (`Lufus`) | |
| `SystemDiskStays` | `Spec => []SystemDiskKept` (`Lufus`) | `RootName = Root` |
| `TypesOfTheWhole` | `Spec => []TypeOK` (`Lufus`) | |
| `ListOfTheWhole` | `Lufus` implements `DeviceManager`, fairness apart | |
| `WindowOfTheWhole` | `Lufus` implements `MainWindow`, for any lists of drives, fairness apart | |
| `PartsHold`, `StepsHold` | `Settled` and the properties of `window` but `WriteEnds`, in `Lufus` | |

Each module's `...Assumption` states what its constants are; the runs evaluate
them. That of `IsoScan` is the shape of an image (`WellFormed`), that of `Lufus`
asks of the analyses and kinds of drives what its parts do. The other
assumptions are the ways the code goes wrong, each seen in a run or in the code:

- `busy`, `lazy`, `umountError`, `mountLate`: the runs `prepare_busy`,
  `umount_ignored`. A volume hidden by `umount -l` lives on like one that is
  busy. `automount`: a volume mounted after its turn in the loop of
  `unmountAll` is not looked at again.
- `RootName = Root`: the run `mapped_root`.
- `rereadFails`: `partprobe`'s result is not looked at
  (`partition_manager.cpp:120`), and the nodes formatted are of the old table.
- `flushLost`, `writeBack`: bytes lost above the level of the model, and old
  file systems written back into a raw image (`disk_writer.cpp:56`).
- `wimHang`, `kill`: a child that hangs, or a process that is gone, leaves its
  mounts; `OnlyTheImage` and `SuccessMeansComplete` are proved in spite of them.
- `OneInstaller`: links apart, an image has at most one installer file, and it
  is `install.wim` or `install.esd` in lower case. `copyDirRecursive` leaves out
  every installer in any spelling (`disk_writer.cpp:157`); what follows handles
  one of the two in lower case and nothing else.
- `WholeListed`: ISO 9660 lists every file of the image, so that it does not
  matter which of the two mounts has succeeded. Without it there is the run
  `stub_mounted`, and `SuccessIsCopied` is what is left.
- `InstallerSeen` (the one of `DiskWriterProofs`): the layout is not dual, and an
  image with an installer has been recognised as Windows'. Otherwise it counts
  as generic, and a wim too big for FAT32 is split after a failed copy, whose
  truncated `install.wim` stays beside the parts.

The arguments:

- **`UnmountAllKept`** speaks of the end of a loop, so it is not inductive.
  `UnmountInv` adds the loop invariant: while `unmountAll` runs and nothing has
  failed, every mounted volume is still *ahead* in `umList`. The list is made
  from the kernel's table, and only partitions with a node can be mounted, so
  this holds at the start. From there to the wipe nothing mounts without the
  automounter.
- **`PMTypeOK`** needs `FormatInv`: in the formatting loop fewer nodes have been
  collected than the layout has partitions. **`PreparedAsAsked`** needs
  `PreparedInv`: from the formatting on, table and kernel agree with `NewTable`,
  and every node collected is formatted as asked and empty.
- **`FailureReported`** needs `ReportInv`: on the way to a point from which the
  write can still succeed nothing has been reported, and no error line is one of
  `wipefs` or of a `mkfs` that has no second attempt. One lemma per way of
  ending a step (`Step`, `Fail`, `FailCopy`, `Leave`) serves all actions.
- **`NoLeakedMounts`** needs `MountInv`: at each control point, which places may
  be mounted. Every way out of `write` then leaves none.
- **`SuccessMeansCopied`** needs `MountInv` (nothing is mounted below the
  temporary directory when it is removed), `PrepareInv` (the partition was
  formatted and is empty when the copy starts) and `CompleteInv`: at each control
  point of the copy, the files shown are on the drive, or in `todo`, or the installer
  that is handled later. **`SuccessMeansComplete`** adds `ShownInv`: from the mount
  on, an image that ISO 9660 lists as a whole is shown as a whole.
- **`OnlyTheImage`** needs `CleanInv`: from the copy on there is one partition,
  and everything on it is a whole file of the image, a part of the split
  installer or something of GRUB's, but for the one file being copied and the parts
  while the split runs. `AtWork` says which control points a write of a
  recognised image never reaches, the fallback split first of all.
- **`KeepsThePromise`**: every step of `DiskWriter` maps to a step of `UsbWrite`
  or to a stutter. It rests on the invariants above and on `IntactInv`: as long
  as the owner's files are all there, nothing was formatted or written raw, so
  that a drive that left "user" does not come back.
- **`Settled`** is about all orders of scans and events at once. The invariant
  says what a queue is worth: the last event of a node tells what is at it
  (`LastTells`); an "add" of a drive that is gone has its "remove" behind it
  (`GoneRemoved`); an entry that is wrong has its "remove" to come
  (`WrongRemoved`); a drive that is missing has an event to come
  (`MissingComes`).
- **The window**: `DialogsInv` is the shape of the stack of dialogs. As a dialog
  takes the input away, only the message at the end of a write ever comes over
  another, never over a question; startWrite refers to a drive exactly while a
  question is the only dialog, and then no backend is there. That is why
  `onWriteCompleted` cannot clear a newer process. `FitsInv` adds that FAT32 is
  greyed out while it is blocked, `ImageInv` that the analysis in
  `m_currentAnalysis` is one of its file.
- **An analysis** (`ScanInv`, three parts). `TypeInv` adds to the types that the
  directories on the stack, and the positions in them, exist in the image.
  `CatalogInv` is the loop invariant of the catalog: at a header, `bootMode` is
  what the default entry and the sections read so far say; at an entry, what
  they and the first entries of this section say, and what is left of its count
  is what the catalog still has for it (`From` places a section at its slot).
  `ResultInv` is about the directories. An entry is *on the way* if it is at or
  behind the position of its directory on the stack, and *ahead* if it is so or
  below a directory that is. Everything is ahead of the root, because the
  directories are a tree; a step takes from it what it reads (`ScanStep`: a file
  listed, a directory entered or passed, sectors skipped, the end); nothing is
  ahead of an empty stack. `Listing` then says of a scan half-way: it has
  listed no more files than it has left behind, all of these if the image has
  no more than `MaxFiles`, and of every directory it has listed a file from,
  each file but those still on the way. The first gives `AnalysisAsAssumed`; the
  last gives `InstallerSeen`, since the limit stops the scan from *entering* a
  directory and never from listing one it is in.
- **`InstallerSeen`** speaks of a `WindowsInstaller`: where there is a `boot.wim`,
  there is what is to be installed beside it. Every installer is like this; an
  image with the one in the first and the other in the last of its directories
  is not, and the limit can come between the two.
- **`Lufus`**: `HotInv` (no list has the system's disk in it, and no drive is at
  two nodes), `AskInv` (the shape of the stack again, and a question names what
  startWrite refers to unless the list was replaced) and `WriteInv`: the
  configuration is for the agreed image and, if the agreement is firm, for the
  node where the agreed drive is; once the backend has `finished`, that drive
  holds that image, and an exit code 0, and the message after it, come of a
  backend that has. A new "Yes" starts with nothing finished.
- **`NothingLeft`**: `MountInv` of `IsoScan` says at each control point which of
  "loop" and "mount" may be there, and that what is there without being due is
  in `unreleased`.
- **The parts in the whole**: a step of `Lufus` is a step of `DeviceManager` or
  leaves `hotplugVars` and `devices` alone (`ListOfWhole`), and one of
  `MainWindow` or leaves the window alone (`WindowOfWhole`). The second
  needs the first: the window is handed `current`, which is a list of entries
  because the list's own invariant says so. `MainWindow` is
  instantiated with *all* lists of entries (`W`), so what was proved of the
  window whatever the list does holds with the list that `DeviceManager` makes,
  and `WholeInv` is the conjunction of all the invariants.

Model-checked only: the properties that rest on fairness, which are out of the
prover's reach (`WriteReturns`, `CancelStopsWrite`, `WriteEnds`,
`Converges`, `ScanEnds`, and `Answered` within `ImplementsUsbWrite`). Every
invariant and every action property of a passing run is a theorem;
`PreparedAsAsked` and `WipeOnlyUnmounted`, which `write_clean` checks as part of
the write, are theorems of the preparation by itself (`PMSpec`).

On induction: the library's theorem takes an operator for its parameter, which
the provers here cannot instantiate. `NatSetInduction` states it for a *set* of
numbers and is proved from well-foundedness; with it `SlotsFrom`, the one
recursive function of `IsoScan`, is shown to exist and to be what it says.
The tree of directories needs no induction: `WellFormed` says that a set of
directories with the root in it, and with every one of its subdirectories, is
all of them.

## 5. Not modelled

- Progress percentages, messages, translations, the log, the style sheet.
- Labels, cluster sizes, `mkfs` and `sfdisk` argument syntax: they bear on whether
  the command succeeds, and both outcomes are always possible. Of the second
  attempt of `mkfs.exfat` and `mkudffs` the error line of the first is kept.
- `ntfsfix`, `sync`, `blockdev --flushbufs`: their failures are ignored and their
  effect, durability, is below the level of the model (`flushLost` stands for
  bytes lost above it).
- The partition sizes and the drive's capacity: a full drive is a failed write,
  always possible.
- The look of `Bootloader::install` for an EFI loader: it only logs.
- How early `cancel()` may come: `write` resets the flag at its first line, so a
  request before that is forgotten. Nothing in the repository calls `cancel()`
  yet, the GUI kills the process instead.
- `NoLeakedMounts` with a child that hangs: the fallback split then unmounts
  under a child that still writes, and leaves both mounts. The property is
  checked with children that end.
- Images with two installers or an upper-case one, a raw write under mounted
  file systems and a partition table that is not reread are possible in
  `IsoAnalyzer` and `Host`, but no run asks for a success with them: it would not
  hold, and nothing in the repository says that it should.
- The two-partition layout for Windows images over 4 GB that
  `partition_manager.h:77-79` and `partition_manager.cpp:131` describe: `write`
  passes `dualPartition = false` for every Windows image, and
  `disk_writer.cpp:138-145` says why.
- That each drive is listed once: a drive plugged in just before a scan is in
  the scan and in an event still queued, and the list holds it twice until it is
  removed. `Settled` and `Converges` look at the list as a set.
- That the first partition of a dual layout receives `EFI/`: four ignored
  failures stand in the way. The GUI asks for no dual layout.
- In the mount of an image by `DiskWriter`: a first attempt that is given up
  after 15 s and attaches below the second. `mountLate` has the attempt that is
  the last.
- In `IsoScan`: a list of `7z` that is cut short by a line it cannot read or a
  warning (`iso_analyzer.cpp:406-437` take it for the whole); a boot catalog
  longer than the one sector that is read and more files than are listed (both
  are in the run, but `AnalysisAsAssumed` promises nothing of them); `detectWindowsVersion`, the boot loader's name and the
  description, which are only shown; bytes: buffer sizes, byte orders, and
  directory records that lie about their length.
- In `MainWindow`: what is only shown (progress bar, timer, log, drive labels,
  cluster size, which no configuration contains), and the translation.
- A second Lufus beside an orphaned backend that still writes: `kill_and_retry`
  has a kill that works and a child that lives on, not two backends at once.
- Build files, packaging, Flatpak, polkit policy, icons, `test_iso.cpp`.

## 6. Plan

Done: `IsoAnalyzer`, `Host`, `PartitionManager`, `DiskWriter` with `Bootloader` and
`runBackend`, `UsbWrite`, `DeviceManager`, `IsoScan`, `MainWindow`, `Lufus`, and the
proofs above.

What could follow: a second window or backend at the same drive; the backend of
`Lufus` as the one of `DiskWriter` instead of `UsbWrite`, so that cancellations and kills reach down to the
drive's partitions.
