----------------------------- MODULE MainWindow -----------------------------
(***************************************************************************)
(* The window of src/src/ui/mainwindow.cpp: the slots for the drive list,  *)
(* the image, the form, START and CANCEL, and the backend it starts.  All  *)
(* of it runs on one thread, but every dialog runs an event loop of its    *)
(* own: while startWrite waits for an answer, drives come and go, analyses *)
(* finish, and startWrite goes on with what it read before.  A slot is one *)
(* action; startWrite is cut where it opens a dialog.                      *)
(***************************************************************************)
EXTENDS Naturals, Sequences, Functions

CONSTANTS
  Entries,    \* what the list of drives may be made of: records with a node
  Lists,      \* the lists DeviceManager may come up with
  Analyses,   \* for each file, what an analysis of it may conclude
  None,       \* no file, no drive
  Troubles,   \* what the system may lack: see Trouble
  MaxPicks,   \* bound: images picked
  MaxEdits    \* bound: changes to the form by hand

Trouble ==
  { "noPkexec",   \* the backend's process cannot be started
    "root",       \* the window runs as root, and its backend without pkexec
    "noWimlib",   \* wimlib-imagex is not installed
    "fullTmp" }   \* the configuration file cannot be written

ImageFile == DOMAIN Analyses

(* No label, one that fits every file system, one FAT cannot have.         *)
Label == {"", "PLAIN", "a:b"}

IsoType ==
  {"Unknown", "WindowsInstaller", "WindowsPE", "LinuxLive", "LinuxInstaller", "FreeBSD", "Generic"}

(* The fields of IsoAnalysis that the window reads, but for the path.      *)
Verdict ==
  [isValid : BOOLEAN, volumeLabel : Label, isoType : IsoType, needsSplitWim : BOOLEAN,
   largeFile : BOOLEAN, bootMode : SUBSET {"bios", "uefi"}, isIsoHybrid : BOOLEAN]

NoAnalysis ==
  [isValid |-> FALSE, volumeLabel |-> "", isoType |-> "Unknown", needsSplitWim |-> FALSE,
   largeFile |-> FALSE, bootMode |-> {}, isIsoHybrid |-> FALSE]

(* startWrite's reference into the list of drives: what it referred to,    *)
(* whether that list has been freed, and what the question named.          *)
Reference == [entry : Entries, stale : BOOLEAN, named : Entries \cup {None}]

(* An analysis that finds no image says nothing else.                      *)
ASSUME MWAssumption ==
  /\ Lists \subseteq Seq(Entries) /\ None \notin Entries \cup Reference
  /\ \A f \in ImageFile : \A a \in Analyses[f] : a \in Verdict /\ (~a.isValid => a = NoAnalysis)
  /\ None \notin ImageFile
  /\ Troubles \subseteq Trouble
  /\ MaxPicks \in Nat /\ MaxEdits \in Nat

VARIABLES
  devices,     \* m_devices
  combo,       \* entry of the drive list selected; an empty list shows a remark
  jobs,        \* analyses under way
  picks,       \* images picked so far
  shownFile,   \* the file named in the boot selection
  file,        \* m_currentAnalysis.filePath
  analysis,    \* the rest of m_currentAnalysis
  form,        \* the combo boxes of the form
  edits,       \* changes to it by hand so far
  startBtn,    \* START is enabled
  cancelBtn,   \* CANCEL is enabled
  isWriting,   \* m_isWriting
  dialogs,     \* open dialogs, innermost first
  asked,       \* startWrite's reference into m_devices, while it runs
  request,     \* the configuration file
  backend,     \* m_backendProcess
  gui          \* the window is "open", in its destructor ("closing") or "closed"

listVars   == <<devices, combo>>
imageVars  == <<jobs, picks, shownFile, file, analysis>>
formVars   == <<form, edits>>
buttonVars == <<startBtn, cancelBtn, isWriting>>
writeVars  == <<asked, request, backend>>

mwVars == <<listVars, imageVars, formVars, buttonVars, dialogs, writeVars, gui>>

(* Handlers run while some event loop runs: the window's, or a dialog's.   *)
EventLoop == gui = "open" \/ (gui = "closing" /\ dialogs # <<>>)

(* A plausible bug: the message at the end of a write is not modal.        *)
Input_NonModal == gui = "open" /\ Range(dialogs) \subseteq {"success", "failure"}

(* A dialog takes all input away from the window.                          *)
Input == gui = "open" /\ dialogs = <<>>

Answer(dialog) == EventLoop /\ dialogs # <<>> /\ Head(dialogs) = dialog

Open(dialog) == dialogs' = <<dialog>> \o dialogs

(* A plausible bug: START is enabled in spite of a write.                  *)
canStart_Anytime(devs, a) == devs # <<>> /\ a.isValid

canStart(devs, a) == devs # <<>> /\ a.isValid /\ ~isWriting

updateStartButtonState(devs, a) ==
  /\ startBtn' = canStart(devs, a)
  /\ UNCHANGED <<cancelBtn, isWriting>>

-----------------------------------------------------------------------------
(* The drive list.                                                         *)

refreshDevices(devs) ==
  /\ Input
  /\ devices' = devs /\ combo' = 1
  /\ updateStartButtonState(devs, analysis)
  /\ UNCHANGED <<imageVars, formVars, dialogs, writeVars, gui>>

(* The selection goes by its place in the list.  The list that a waiting   *)
(* startWrite refers to is freed.                                          *)
onDevicesChanged(devs) ==
  /\ EventLoop
  /\ devices' = devs
  /\ combo' = IF combo <= Len(devs) THEN combo ELSE 1
  /\ asked' = IF asked = None THEN None ELSE [asked EXCEPT !.stale = TRUE]
  /\ updateStartButtonState(devs, analysis)
  /\ UNCHANGED <<imageVars, formVars, dialogs, request, backend, gui>>

onDeviceSelected ==
  /\ Input
  /\ combo' \in DOMAIN devices
  /\ updateStartButtonState(devices, analysis)
  /\ UNCHANGED <<devices, imageVars, formVars, dialogs, writeVars, gui>>

-----------------------------------------------------------------------------
(* The image.                                                              *)

browseIso ==
  /\ Input /\ picks < MaxPicks
  /\ Open("file")
  /\ UNCHANGED <<listVars, imageVars, formVars, buttonVars, writeVars, gui>>

(* The file is named at once, and analysed on another thread.              *)
fileChosen ==
  /\ Answer("file") /\ dialogs' = Tail(dialogs)
  /\ \/ \E f \in ImageFile :
          /\ picks < MaxPicks /\ picks' = picks + 1
          /\ jobs' = jobs \cup {<<picks', f>>}
          /\ shownFile' = f
     \/ UNCHANGED <<picks, jobs, shownFile>>
  /\ UNCHANGED <<listVars, file, analysis, formVars, buttonVars, writeVars, gui>>

(* A plausible bug: the place in the list of targets is kept.              *)
Scheme_KeepTarget(f, s) == [f EXCEPT !.scheme = s]

(* The form after a choice of scheme: the targets are listed anew, and the *)
(* first one is selected.  GPT has UEFI and both, MBR has BIOS, UEFI, both.*)
Scheme(f, s) == IF f.scheme = s THEN f ELSE [f EXCEPT !.scheme = s, !.target = 0]

Targets(s) == IF s = "GPT" THEN <<{"uefi"}, {"bios", "uefi"}>>
                           ELSE <<{"bios"}, {"uefi"}, {"bios", "uefi"}>>

Target(f) == Targets(f.scheme)[f.target + 1]

(* A plausible bug: the target is set before the scheme.                   *)
BootForm_TargetFirst(f, mode) ==
  CASE mode = {"bios", "uefi"} -> Scheme([f EXCEPT !.target = 1], "GPT")
    [] mode = {"uefi"}         -> Scheme([f EXCEPT !.target = 0], "GPT")
    [] mode = {"bios"}         -> Scheme([f EXCEPT !.target = 0], "MBR")
    [] mode = {}               -> f

BootForm(f, mode) ==
  CASE mode = {"bios", "uefi"} -> [Scheme(f, "GPT") EXCEPT !.target = 1]
    [] mode = {"uefi"}         -> [Scheme(f, "GPT") EXCEPT !.target = 0]
    [] mode = {"bios"}         -> [Scheme(f, "MBR") EXCEPT !.target = 0]
    [] mode = {}               -> f

isWindowsIso(a) == a.isoType \in {"WindowsInstaller", "WindowsPE"}

fat32Blocked(a) == ~isWindowsIso(a) /\ (a.needsSplitWim \/ a.largeFile)

(* FAT and exFAT do not take every label; an NTFS label is left alone.     *)
sanitizeVolumeLabel(f) ==
  IF f.filesystem # "NTFS" /\ f.label = "a:b" THEN [f EXCEPT !.label = "PLAIN"] ELSE f

(* The two ways to come by a label that does not fit: the label changes,   *)
(* or the file system under it.                                            *)
SetLabel(f, label) == sanitizeVolumeLabel([f EXCEPT !.label = label])

(* A plausible bug: only a label that changes is looked at.                *)
SetFs_NotTheLabel(f, fs) == [f EXCEPT !.filesystem = fs]

SetFs(f, fs) ==
  IF f.filesystem = fs THEN f ELSE sanitizeVolumeLabel([f EXCEPT !.filesystem = fs])

FsForm(f, a) ==
  [SetFs(f, IF fat32Blocked(a) THEN "exFAT" ELSE "FAT32") EXCEPT !.fat32 = ~fat32Blocked(a)]

autoConfigureForIso(a) ==
  LET labelled == IF a.volumeLabel = "" THEN form ELSE SetLabel(form, a.volumeLabel)
      booted   == FsForm(BootForm(labelled, a.bootMode), a)
  IN  IF a.isIsoHybrid /\ a.isoType # "WindowsInstaller"
      THEN [booted EXCEPT !.mode = "ISO"] ELSE booted

(* A plausible bug: an invalid image leaves the valid one before in place. *)
Taken_ValidOnly(f, a) ==
  IF a.isValid THEN file' = f /\ analysis' = a ELSE UNCHANGED <<file, analysis>>

Taken(f, a) == file' = f /\ analysis' = a

(* An analysis is taken when it finishes, whatever was picked meanwhile.   *)
(* An invalid one leaves form and buttons as they are.                     *)
onIsoAnalyzed ==
  /\ EventLoop
  /\ \E job \in jobs : \E a \in Analyses[job[2]] :
       /\ jobs' = jobs \ {job}
       /\ Taken(job[2], a)
       /\ IF a.isValid
          THEN /\ shownFile' = job[2]
               /\ form' = autoConfigureForIso(a)
               /\ updateStartButtonState(devices, a)
          ELSE /\ shownFile' = None
               /\ UNCHANGED <<form, buttonVars>>
  /\ UNCHANGED <<listVars, picks, edits, dialogs, writeVars, gui>>

-----------------------------------------------------------------------------
(* The form, by hand.  A raw write leaves nothing else to choose.          *)

Edit(changed) ==
  /\ Input /\ edits < MaxEdits
  /\ edits' = edits + 1
  /\ form' \in changed
  /\ UNCHANGED <<listVars, imageVars, dialogs, writeVars, gui>>

onWriteModeChanged ==
  Edit({[form EXCEPT !.mode = m] : m \in {"ISO", "DD"}}) /\ UNCHANGED buttonVars

onPartitionSchemeChanged ==
  /\ form.mode = "ISO"
  /\ Edit({Scheme(form, s) : s \in {"MBR", "GPT"}})
  /\ updateStartButtonState(devices, analysis)

onTargetSystemChanged ==
  /\ form.mode = "ISO"
  /\ Edit({[form EXCEPT !.target = t - 1] : t \in DOMAIN Targets(form.scheme)})
  /\ updateStartButtonState(devices, analysis)

onFileSystemChanged ==
  /\ form.mode = "ISO"
  /\ Edit({SetFs(form, fs) :
             fs \in {"NTFS", "exFAT"} \cup IF form.fat32 THEN {"FAT32"} ELSE {}})
  /\ UNCHANGED buttonVars

labelEdited ==
  /\ form.mode = "ISO"
  /\ Edit({SetLabel(form, label) : label \in Label})
  /\ UNCHANGED buttonVars

-----------------------------------------------------------------------------
(* startWrite.                                                             *)

(* What a read of dev gives.  Of a freed list anything may be left: the    *)
(* entry that was there, or one of the list that has taken its place.      *)
DevRead(dev) == {dev.entry} \cup IF dev.stale THEN Range(devices) ELSE {}

(* The look for wimlib-imagex, and the question.                           *)
AskToConfirm(dev, under) ==
  \/ /\ dialogs' = <<"confirm">> \o under
     /\ \E e \in DevRead(dev) : asked' = [dev EXCEPT !.named = e]
  \/ /\ "noWimlib" \in Troubles /\ isWindowsIso(analysis) /\ analysis.needsSplitWim
     /\ dialogs' = <<"noWimlib">> \o under
     /\ asked' = None

startWrite ==
  /\ Input /\ startBtn
  /\ combo \in DOMAIN devices /\ analysis.isValid
  /\ LET dev == [entry |-> devices[combo], stale |-> FALSE, named |-> None] IN
       \/ analysis.isIsoHybrid /\ Open("hybrid") /\ asked' = dev
       \/ ~analysis.isIsoHybrid /\ AskToConfirm(dev, dialogs)
  /\ UNCHANGED <<listVars, imageVars, formVars, buttonVars, request, backend, gui>>

hybridAnswered ==
  /\ Answer("hybrid")
  /\ \/ /\ \E m \in {"ISO", "DD"} : form' = [form EXCEPT !.mode = m]
        /\ AskToConfirm(asked, Tail(dialogs))
     \/ dialogs' = Tail(dialogs) /\ asked' = None /\ UNCHANGED form      \* Cancel
  /\ UNCHANGED <<listVars, imageVars, edits, buttonVars, request, backend, gui>>

(* A plausible bug: the path is that of the file the window names.         *)
isoPath_Shown == shownFile

isoPath == file

(* The configuration: drive, image and form as they are after the dialogs. *)
Config(node) ==
  [deviceNode |-> node, isoPath |-> isoPath, mode |-> form.mode, scheme |-> form.scheme,
   filesystem |-> form.filesystem, volumeLabel |-> form.label, target |-> Target(form),
   dualPartition |-> FALSE, needsSplitWim |-> analysis.needsSplitWim, isoType |-> analysis.isoType]

(* A plausible bug: the first drive of the list is written.                *)
WriteConfig_First(e) == Config(IF devices = <<>> THEN e.node ELSE devices[1].node)

WriteConfig(e) == Config(e.node)

(* "No", or "Yes" and the rest of startWrite.                              *)
confirmAnswered ==
  /\ Answer("confirm") /\ dialogs' = Tail(dialogs)
  /\ asked' = None
  /\ \/ UNCHANGED <<buttonVars, request, backend>>
     \/ /\ isWriting' = TRUE /\ startBtn' = FALSE /\ cancelBtn' = TRUE
        /\ request' \in {WriteConfig(e) : e \in DevRead(asked)}
                          \cup IF "fullTmp" \in Troubles THEN {None} ELSE {}
        /\ backend' \in {"asking"} \cup IF "root" \in Troubles THEN {"own"} ELSE {}
                                   \cup IF "noPkexec" \in Troubles THEN {"notStarted"} ELSE {}
  /\ UNCHANGED <<listVars, imageVars, formVars, gui>>

(* The reference into a freed list may also end the program.               *)
Crash ==
  /\ gui = "open" /\ asked # None /\ asked.stale
  /\ gui' = "closed"
  /\ UNCHANGED <<listVars, imageVars, formVars, buttonVars, dialogs, writeVars>>

-----------------------------------------------------------------------------
(* The backend: pkexec asks for a password and goes on as root, where the  *)
(* user cannot kill it; "own" is the child of a window that is root.  "ok" *)
(* and "failed" have ended, and the window has not heard of it.            *)

Alive == backend \in {"asking", "own", "root"}

(* Plausible bugs: CANCEL lets go of the process instead of ending it; a   *)
(* process that was killed is taken for one that exited with 0.            *)
Killed_Dropped == IF backend \in {"asking", "own"} THEN "none" ELSE backend
Killed_Zero    == IF backend \in {"asking", "own"} THEN "ok" ELSE backend

(* What a kill leaves of the backend.  It dies with a status that is not 0.*)
Killed == IF backend \in {"asking", "own"} THEN "failed" ELSE backend

pkexecAnswered ==
  /\ backend = "asking"
  /\ backend' \in {"root", "failed"}
  /\ UNCHANGED <<listVars, imageVars, formVars, buttonVars, dialogs, asked, request, gui>>

(* A backend without a configuration fails at once.                        *)
backendEnds ==
  /\ backend \in {"own", "root"}
  /\ \/ backend' = "failed"
     \/ backend' = "ok" /\ request # None
  /\ UNCHANGED <<listVars, imageVars, formVars, buttonVars, dialogs, asked, request, gui>>

cancelWrite ==
  /\ Input /\ cancelBtn
  /\ backend' = Killed
  /\ UNCHANGED <<listVars, imageVars, formVars, buttonVars, dialogs, asked, request, gui>>

(* finished(), delivered by an event loop or by the destructor's wait.     *)
onWriteCompleted ==
  /\ EventLoop \/ gui = "closing"
  /\ backend \in {"ok", "failed"}
  /\ request' = None
  /\ isWriting' = FALSE /\ startBtn' = TRUE /\ cancelBtn' = FALSE
  /\ Open(IF backend = "ok" THEN "success" ELSE "failure")
  /\ backend' = "finished"
  /\ UNCHANGED <<listVars, imageVars, formVars, asked, gui>>

(* The rest of onWriteCompleted, and the last of the destructor.           *)
completionRead ==
  /\ Answer("success") \/ Answer("failure")
  /\ dialogs' = Tail(dialogs)
  /\ backend' = "none"
  /\ gui' = IF gui = "closing" THEN "closed" ELSE gui
  /\ UNCHANGED <<listVars, imageVars, formVars, buttonVars, asked, request>>

-----------------------------------------------------------------------------
(* Dialogs that only have to be closed, and the window.                    *)

showAbout ==
  /\ Input /\ Open("about")
  /\ UNCHANGED <<listVars, imageVars, formVars, buttonVars, writeVars, gui>>

dialogClosed ==
  /\ Answer("about") \/ Answer("noWimlib")
  /\ dialogs' = Tail(dialogs)
  /\ UNCHANGED <<listVars, imageVars, formVars, buttonVars, writeVars, gui>>

(* The destructor kills the backend and waits for it, for five seconds.    *)
closeWindow ==
  /\ Input
  /\ gui' = IF Alive \/ backend \in {"ok", "failed"} THEN "closing" ELSE "closed"
  /\ backend' = Killed
  /\ UNCHANGED <<listVars, imageVars, formVars, buttonVars, dialogs, asked, request>>

waitTimesOut ==
  /\ gui = "closing" /\ dialogs = <<>> /\ Alive
  /\ gui' = "closed"
  /\ UNCHANGED <<listVars, imageVars, formVars, buttonVars, dialogs, writeVars>>

-----------------------------------------------------------------------------

MWInit ==
  /\ devices = <<>> /\ combo = 1
  /\ jobs = {} /\ picks = 0 /\ shownFile = None /\ file = None /\ analysis = NoAnalysis
  /\ form = [mode |-> "ISO", scheme |-> "MBR", target |-> 0, filesystem |-> "FAT32",
             fat32 |-> TRUE, label |-> "PLAIN"]
  /\ edits = 0
  /\ startBtn = FALSE /\ cancelBtn = FALSE /\ isWriting = FALSE
  /\ dialogs = <<>> /\ asked = None /\ request = None /\ backend = "none" /\ gui = "open"

(* What the user does to the window, the drive list and the consent to a   *)
(* write aside.                                                            *)
User ==
  \/ browseIso \/ fileChosen \/ onWriteModeChanged \/ onPartitionSchemeChanged
  \/ onTargetSystemChanged \/ onFileSystemChanged \/ labelEdited \/ onDeviceSelected
  \/ startWrite \/ hybridAnswered \/ cancelWrite \/ completionRead
  \/ showAbout \/ dialogClosed \/ closeWindow

Events == onIsoAnalyzed \/ onWriteCompleted \/ waitTimesOut \/ Crash

MWNext ==
  \/ \E devs \in Lists : refreshDevices(devs) \/ onDevicesChanged(devs)
  \/ User \/ confirmAnswered \/ Events \/ pkexecAnswered \/ backendEnds

(* The event loop delivers finished(), and a backend returns               *)
(* (WriteReturns of DiskWriter).  Nobody has to answer a question.         *)
MWFairness == WF_mwVars(onWriteCompleted) /\ WF_mwVars(backendEnds)

MWSpec == MWInit /\ [][MWNext]_mwVars /\ MWFairness

-----------------------------------------------------------------------------

FormType ==
  [mode : {"ISO", "DD"}, scheme : {"MBR", "GPT"}, target : 0..2,
   filesystem : {"FAT32", "NTFS", "exFAT"}, fat32 : BOOLEAN, label : Label]

Dialog == {"file", "about", "hybrid", "noWimlib", "confirm", "success", "failure"}

MWTypeOK ==
  /\ devices \in Seq(Entries) /\ combo \in Nat \ {0}
  /\ jobs \subseteq (1..MaxPicks) \X ImageFile /\ picks \in 0..MaxPicks
  /\ shownFile \in ImageFile \cup {None} /\ file \in ImageFile \cup {None}
  /\ analysis \in Verdict
  /\ form \in FormType /\ form.target + 1 \in DOMAIN Targets(form.scheme)
  /\ edits \in 0..MaxEdits
  /\ startBtn \in BOOLEAN /\ cancelBtn \in BOOLEAN /\ isWriting \in BOOLEAN
  /\ dialogs \in Seq(Dialog)
  /\ asked \in Reference \cup {None}
  /\ backend \in {"none", "asking", "own", "root", "notStarted", "ok", "failed", "finished"}
  /\ gui \in {"open", "closing", "closed"}

(* The buttons of an open window can be trusted: START waits for a write   *)
(* to end, CANCEL is there for all of it, and START is never left disabled *)
(* with a drive and an image chosen, whatever dialogs are open and in what *)
(* order the events came.                                                  *)
ButtonsRight ==
  /\ isWriting => ~startBtn
  /\ cancelBtn <=> isWriting
  /\ (devices # <<>> /\ analysis.isValid /\ ~isWriting) => startBtn

(* There is one backend at a time: none is started while another has not   *)
(* been answered for, and m_backendProcess is not cleared under a new one. *)
OneBackend ==
  [][ /\ (isWriting' /\ ~isWriting) => backend = "none"
      /\ backend' = "none" => backend \in {"none", "finished"} ]_mwVars

(* When no analysis is under way, the file the window names is the one it  *)
(* would write, whatever order the analyses finished in.                   *)
NameSettles == jobs = {} => shownFile = IF analysis.isValid THEN file ELSE None

(* An image that was just analysed finds the form set for its firmware,    *)
(* whatever the form was before: autoConfigureForIso relies on one combo   *)
(* box refilling the next ("repopulating m_targetCombo before the next     *)
(* line runs", mainwindow.cpp:450).                                        *)
AutoConfigured ==
  [][analysis' # analysis /\ analysis'.isValid /\ analysis'.bootMode # {} =>
       Target(form') = analysis'.bootMode]_mwVars

(* Nothing is asked for that the file system cannot hold, neither by hand, *)
(* nor by an earlier image, nor by one that arrives in the middle of       *)
(* startWrite: no FAT32 where an image other than Windows is known to have *)
(* a file too big for it ("Only block FAT32 for Linux ISOs that contain a  *)
(* file exceeding the 4 GB limit", mainwindow.cpp:470), and no label that  *)
(* FAT forbids.                                                            *)
FormFits ==
  /\ fat32Blocked(analysis) => form.filesystem # "FAT32"
  /\ form.label = "a:b" => form.filesystem = "NTFS"

(* What DiskWriter relies on: path, type and split of a configuration are  *)
(* of one analysis of one file.                                            *)
RequestOfOneImage ==
  request # None =>
    /\ request.isoPath \in ImageFile
    /\ \E a \in Analyses[request.isoPath] :
         a.isoType = request.isoType /\ a.needsSplitWim = request.needsSplitWim

(* A write ends, as far as the window can tell, unless pkexec waits for a  *)
(* password or could not even be started.                                  *)
WriteEnds ==
  \/ <>[](backend \in {"asking", "notStarted"})
  \/ isWriting ~> (~isWriting \/ gui = "closed")
=============================================================================
