------------------------------- MODULE Lufus -------------------------------
(***************************************************************************)
(* The whole of Lufus: the window, the device manager that feeds its list, *)
(* and a backend that writes to whatever drive is at the node it was given.*)
(* The window and the device manager share the GUI thread: a turn of the   *)
(* poll loop and a slot of the window never overlap, but the poll goes on  *)
(* in the event loop of every dialog.  The backend goes by the steps of    *)
(* UsbWrite (see DiskWriter), on whatever drive is at its node by then.    *)
(***************************************************************************)
EXTENDS Naturals, Sequences, FiniteSets, Functions

CONSTANTS
  Node, Kind, Root, RootName, QueueLen, MaxMoves,      \* of DeviceManager
  Analyses, Troubles, MaxPicks, MaxEdits,              \* of MainWindow
  None                                                 \* of both

VARIABLES
  attached, queue, lost, monitor, showFixed, current, changed, loop, moves,
  devices,     \* MainWindow::m_devices, which the device manager fills
  combo, jobs, picks, shownFile, file, analysis, form, edits,
  startBtn, cancelBtn, isWriting, dialogs, asked, request, backend, gui,
  holds,       \* what is on each drive: "user", "scratch", or what a write of
               \* an image puts there
  finished,    \* the backend has come to the end of write
  agreed       \* what the user last agreed to: see Consent

DM == INSTANCE DeviceManager WITH shown <- devices

(* The window takes its lists from the device manager, not from a constant.*)
MW == INSTANCE MainWindow WITH Entries <- DM!Entry, Lists <- {}

hotplugVars == <<attached, queue, lost, monitor, showFixed, current, changed, loop, moves>>

windowVars ==
  <<combo, jobs, picks, shownFile, file, analysis, form, edits, startBtn, cancelBtn,
    isWriting, dialogs, asked, request, backend, gui>>

vars == <<hotplugVars, devices, windowVars, holds, finished, agreed>>

Drive == DOMAIN Kind

(* A "Yes" to the question that names a drive: see Consent.                *)
Agreement == [drive : Drive, image : DOMAIN Analyses, quiet : BOOLEAN, stays : BOOLEAN]

ASSUME LufusAssumption ==
  /\ Kind \in [Drive -> {"stick", "usbDisk", "internal"}]
  /\ IsFiniteSet(Node) /\ Root \in Node /\ RootName \in Node \cup {None}
  /\ \A f \in DOMAIN Analyses : \A a \in Analyses[f] :
       a \in MW!Verdict /\ (~a.isValid => a = MW!NoAnalysis)
  /\ Troubles \subseteq MW!Trouble
  /\ {QueueLen, MaxMoves, MaxPicks, MaxEdits} \subseteq Nat
  /\ None \notin Drive /\ None \notin DOMAIN Analyses
  /\ None \notin MW!Reference /\ None \notin DM!Entry /\ None \notin Agreement

-----------------------------------------------------------------------------
(* The GUI thread: the device manager, and the slots that take its list.   *)

startMonitoring ==
  DM!startMonitoring /\ UNCHANGED <<windowVars, holds, finished, agreed>>

refreshDevices ==
  /\ DM!refreshDevices \/ DM!setShowFixedDrives
  /\ MW!refreshDevices(current')
  /\ UNCHANGED <<holds, finished, agreed>>

(* The timer runs in the event loop of a dialog, too.                      *)
pollUdevMonitor ==
  /\ MW!EventLoop
  /\ DM!pollUdevMonitor
  /\ UNCHANGED <<windowVars, holds, finished, agreed>>

devicesChanged ==
  /\ DM!pollReturns
  /\ IF changed THEN MW!onDevicesChanged(current) ELSE UNCHANGED windowVars
  /\ UNCHANGED <<holds, finished, agreed>>

stopMonitoring ==
  /\ gui = "closed"
  /\ DM!stopMonitoring
  /\ UNCHANGED <<windowVars, holds, finished, agreed>>

(* The GUI thread runs one slot at a time.                                 *)
Slot(A) == loop = "ready" /\ A /\ UNCHANGED <<hotplugVars, holds>>

(* "Yes" to the question that named a drive: which drive that was, and the *)
(* image then chosen; whether the list was the same all through startWrite;*)
(* and whether the drive was at its node then, and has been ever since.    *)
Consent ==
  [drive  |-> asked.named.drive, image |-> file, quiet |-> ~asked.stale,
   stays  |-> attached[asked.named.node] = asked.named.drive]

confirmAnswered ==
  /\ Slot(MW!confirmAnswered)
  /\ IF isWriting' /\ ~isWriting
     THEN agreed' = Consent /\ finished' = FALSE
     ELSE UNCHANGED <<agreed, finished>>

window == Slot(MW!User \/ MW!Events) /\ UNCHANGED <<agreed, finished>>

-----------------------------------------------------------------------------
(* The backend, by the steps of UsbWrite, on the drive at its node.        *)

Running == backend \in {"own", "root"} /\ request # None

Written == attached[request.deviceNode]

Holding(content) ==
  /\ Running /\ ~finished
  /\ holds' = IF Written = None THEN holds ELSE [holds EXCEPT ![Written] = content]
  /\ UNCHANGED <<hotplugVars, devices, windowVars, agreed>>

Destroy == Holding("scratch") /\ UNCHANGED finished

Finish == Holding(request.isoPath) /\ finished' = TRUE

(* Only at its end does write return true; it may fail there, too.         *)
backendEnds ==
  /\ MW!backendEnds
  /\ backend' = "ok" => finished
  /\ UNCHANGED <<hotplugVars, holds, finished, agreed>>

pkexecAnswered == MW!pkexecAnswered /\ UNCHANGED <<hotplugVars, holds, finished, agreed>>

-----------------------------------------------------------------------------
(* The user's hands.                                                       *)

Plug(n, d) == DM!Plug(n, d) /\ UNCHANGED <<windowVars, holds, finished, agreed>>

Unplug(n) ==
  /\ DM!Unplug(n)
  /\ agreed' = IF agreed # None /\ agreed.drive = attached[n]
               THEN [agreed EXCEPT !.stays = FALSE] ELSE agreed
  /\ UNCHANGED <<windowVars, holds, finished>>

-----------------------------------------------------------------------------

Init ==
  /\ DM!DMInit /\ MW!MWInit
  /\ holds = [d \in Drive |-> "user"] /\ finished = FALSE /\ agreed = None

Gui ==
  \/ startMonitoring \/ refreshDevices \/ pollUdevMonitor \/ devicesChanged
  \/ stopMonitoring \/ confirmAnswered \/ window

Next ==
  \/ Gui
  \/ Destroy \/ Finish \/ backendEnds \/ pkexecAnswered
  \/ \E n \in Node : Unplug(n) \/ \E d \in Drive : Plug(n, d)

(* The constructor and the destructor run to their ends, the timer fires,  *)
(* and the end of the backend is delivered.                                *)
Fairness ==
  /\ WF_vars(startMonitoring) /\ WF_vars(loop = "monitoring" /\ refreshDevices)
  /\ WF_vars(pollUdevMonitor) /\ WF_vars(devicesChanged)
  /\ WF_vars(Slot(MW!waitTimesOut \/ MW!onWriteCompleted) /\ UNCHANGED <<agreed, finished>>)
  /\ WF_vars(stopMonitoring)

Spec == Init /\ [][Next]_vars /\ Fairness

-----------------------------------------------------------------------------

TypeOK ==
  /\ DM!DMTypeOK /\ MW!MWTypeOK
  /\ holds \in [Drive -> {"user", "scratch"} \cup DOMAIN Analyses]
  /\ finished \in BOOLEAN
  /\ agreed \in Agreement \cup {None}

(* No drive loses its content but the one the question named, which is     *)
(* still where it was when the question was answered ("ALL DATA on %1 (%2) *)
(* will be DESTROYED", mainwindow.cpp:620).                                *)
OnlyTheNamed ==
  [][\A d \in Drive : (holds'[d] # holds[d] /\ agreed.stays) => d = agreed.drive]_vars

(* So it is when the list was left alone while startWrite asked, whatever  *)
(* else was plugged in or pulled out since, and whatever the list shows.   *)
OnlyTheNamedIfQuiet ==
  [][\A d \in Drive : (holds'[d] # holds[d] /\ agreed.stays /\ agreed.quiet) =>
       d = agreed.drive]_vars

(* The success the user reads ("USB drive created successfully!",          *)
(* mainwindow.cpp:740) is that of a write of the image that was chosen, to *)
(* the drive that was named, and it came to its end: neither a write that  *)
(* was cancelled nor one of another image or drive is taken for it.  What  *)
(* such a write has put on the drive is DiskWriter's SuccessMeansCopied.   *)
SuccessIsTrue ==
  (dialogs # <<>> /\ Head(dialogs) = "success" /\ agreed.stays /\ agreed.quiet) =>
    holds[agreed.drive] = agreed.image

(* The disk of the running system is never written to, however old the     *)
(* list is that startWrite refers to.                                      *)
SystemDiskKept == holds[attached[Root]] = "user"

(* Dialogs do not keep the window from listing the right drives in the end.*)
Converges == DM!Converges
=============================================================================
