--------------------------- MODULE DeviceManager ---------------------------
(***************************************************************************)
(* The list of USB drives: DeviceManager of src/src/core/device_manager.cpp*)
(* and the two slots of MainWindow that take the list from it.  All of it  *)
(* runs on the GUI thread.  udev queues an event for every drive that      *)
(* comes or goes; a timer polls that queue, a scan asks udev for all the   *)
(* drives there are, and the two know nothing of each other.               *)
(***************************************************************************)
EXTENDS Naturals, Sequences, FiniteSets, Functions

CONSTANTS
  Node,       \* /dev nodes of whole disks, given to drives as they come
  Kind,       \* the drives: each a "stick", a "usbDisk" or "internal"
  None,       \* no drive; a root file system that names no disk
  Root,       \* the node of the disk the running system was booted from
  RootName,   \* the disk systemRootDisk finds in /proc/mounts
  QueueLen,   \* events the monitor's socket has room for
  MaxMoves    \* bound: drives plugged in and pulled out

Drive == DOMAIN Kind

ASSUME DMAssumption ==
  /\ Kind \in [Drive -> {"stick", "usbDisk", "internal"}]
  /\ None \notin Drive /\ IsFiniteSet(Node)
  /\ Root \in Node /\ RootName \in Node \cup {None}
  /\ QueueLen \in Nat /\ MaxMoves \in Nat

VARIABLES
  attached,    \* the drive behind each node
  queue,       \* events udev has for the monitor
  lost,        \* an event was dropped, and no scan has made up for it
  monitor,     \* m_monitor is there, and its timer runs
  showFixed,   \* m_showFixed
  current,     \* m_currentDevices
  changed,     \* the list has changed in this poll
  shown,       \* MainWindow::m_devices
  loop,        \* where the GUI thread is
  moves        \* drives plugged in and pulled out so far

vars == <<attached, queue, lost, monitor, showFixed, current, changed, shown, loop, moves>>

(* A UsbDevice: vendor and model are of the drive the event was about, the *)
(* size is read from sysfs, so it is of the drive that has the node then.  *)
Entry == [node : Node, drive : Drive, size : Drive \cup {None}]

Event == [action : {"add", "remove"}, node : Node, drive : Drive]

(* The disk is told from the names of partitions: sda1, nvme0n1p1 and      *)
(* mmcblk0p1 name their disk, /dev/mapper/root names nothing.              *)
systemRootDisk == RootName

(* "removable" is read from sysfs: a drive that is gone has none.          *)
isUsbDevice(d, live, fixed) ==
  /\ Kind[d] # "internal"
  /\ fixed \/ (live /\ Kind[d] = "stick")

(* A plausible bug: the name is looked up late, too.                       *)
buildDeviceInfo_LateName(n, d) == [node |-> n, drive |-> attached[n], size |-> attached[n]]

buildDeviceInfo(n, d) == [node |-> n, drive |-> d, size |-> attached[n]]

-----------------------------------------------------------------------------

(* A plausible bug: the disk of the system is listed with the others.      *)
Listed_SystemToo(fixed) ==
  {n \in Node : attached[n] # None /\ isUsbDevice(attached[n], TRUE, fixed)}

(* The nodes that belong in the list.                                      *)
Listed(fixed) ==
  {n \in Node : attached[n] # None /\ isUsbDevice(attached[n], TRUE, fixed)
                 /\ n # systemRootDisk}

(* A set in every order.                                                   *)
Orders(S) == {s \in [1..Cardinality(S) -> S] : Range(s) = S}

(* The scan that refreshDevices makes, in no particular order.             *)
scanDevices(fixed) ==
  /\ \E nodes \in Orders(Listed(fixed)) :
       current' = [i \in DOMAIN nodes |-> buildDeviceInfo(nodes[i], attached[nodes[i]])]
  /\ shown' = current'
  /\ showFixed' = fixed
  /\ lost' = (lost /\ queue # <<>>)
  /\ loop' = "ready"
  /\ UNCHANGED <<attached, queue, monitor, changed, moves>>

(* MainWindow's constructor: startMonitoring, which may fail, and then the *)
(* first refresh.                                                          *)
startMonitoring ==
  /\ loop = "new"
  /\ loop' = "monitoring"
  /\ monitor' \in BOOLEAN
  /\ UNCHANGED <<attached, queue, lost, showFixed, current, changed, shown, moves>>

(* The first refresh, and the button.                                      *)
refreshDevices == loop \in {"monitoring", "ready"} /\ scanDevices(showFixed)

(* The check box of the window: set, and refresh.                          *)
setShowFixedDrives == loop = "ready" /\ scanDevices(~showFixed)

(* Whether an "add" event gets into the list, what a "remove" event leaves.*)
Accepted(e) ==
  isUsbDevice(e.drive, attached[e.node] = e.drive, showFixed) /\ e.node # systemRootDisk

(* The list cut down to some of its places.                                *)
Kept(places) ==
  {[i \in DOMAIN o |-> current[o[i]]] :
     o \in {s \in Orders(places) : \A i, j \in DOMAIN s : i < j => s[i] < s[j]}}

Of(n) == {i \in DOMAIN current : current[i].node = n}

(* A plausible bug: one entry of the node is removed instead of all.       *)
Without_First(n) ==
  Kept(DOMAIN current \ {i \in Of(n) : \A j \in Of(n) : i <= j})

Without(n) == Kept(DOMAIN current \ Of(n))

(* What the list may be after an event.                                    *)
AfterEvent(e) ==
  CASE e.action = "add" ->
         {IF Accepted(e) THEN Append(current, buildDeviceInfo(e.node, e.drive)) ELSE current}
    [] e.action = "remove" -> Without(e.node)

(* One turn of the loop of pollUdevMonitor.                                *)
pollUdevMonitor ==
  /\ loop \in {"ready", "polling"} /\ monitor /\ queue # <<>>
  /\ queue' = Tail(queue)
  /\ current' \in AfterEvent(Head(queue))
  /\ changed' = (changed \/ current' # current)
  /\ loop' = "polling"
  /\ UNCHANGED <<attached, lost, monitor, showFixed, shown, moves>>

(* A plausible bug: a drive that was removed does not count as a change.   *)
Emitted_OnAdd == IF Len(current) > Len(shown) THEN current ELSE shown

(* devicesChanged carries the list to the window.                          *)
Emitted == IF changed THEN current ELSE shown

(* udev has no more for now: the loop ends, and the list is passed on.     *)
pollReturns ==
  /\ loop = "polling"
  /\ shown' = Emitted
  /\ changed' = FALSE
  /\ loop' = "ready"
  /\ UNCHANGED <<attached, queue, lost, monitor, showFixed, current, moves>>

(* The window closes.                                                      *)
stopMonitoring ==
  /\ loop = "ready"
  /\ monitor' = FALSE /\ queue' = <<>>
  /\ loop' = "closed"
  /\ UNCHANGED <<attached, lost, showFixed, current, changed, shown, moves>>

-----------------------------------------------------------------------------
(* The user's hands, and udev.                                             *)

Queued(e) ==
  IF ~monitor THEN queue' = queue /\ lost' = lost
  ELSE \/ Len(queue) < QueueLen /\ queue' = Append(queue, e) /\ lost' = lost
       \/ Len(queue) = QueueLen /\ queue' = queue /\ lost' = TRUE

Move(n, e) ==
  /\ moves < MaxMoves /\ moves' = moves + 1
  /\ n # Root
  /\ Queued(e)
  /\ UNCHANGED <<monitor, showFixed, current, changed, shown, loop>>

Plug(n, d) ==
  /\ attached[n] = None /\ d \notin Range(attached)
  /\ attached' = [attached EXCEPT ![n] = d]
  /\ Move(n, [action |-> "add", node |-> n, drive |-> d])

Unplug(n) ==
  /\ attached[n] # None
  /\ attached' = [attached EXCEPT ![n] = None]
  /\ Move(n, [action |-> "remove", node |-> n, drive |-> attached[n]])

-----------------------------------------------------------------------------

DMInit ==
  /\ attached \in [Node -> Drive \cup {None}] /\ attached[Root] # None
  /\ \A n, o \in Node : n # o /\ attached[n] # None => attached[n] # attached[o]
  /\ queue = <<>> /\ lost = FALSE /\ monitor = FALSE /\ showFixed = FALSE
  /\ current = <<>> /\ changed = FALSE /\ shown = <<>> /\ loop = "new" /\ moves = 0

Gui ==
  \/ startMonitoring \/ refreshDevices \/ setShowFixedDrives
  \/ pollUdevMonitor \/ pollReturns \/ stopMonitoring

DMNext ==
  Gui \/ \E n \in Node : Unplug(n) \/ \E d \in Drive : Plug(n, d)

(* The timer fires every two seconds, and the constructor runs to its end. *)
DMSpec ==
  /\ DMInit /\ [][DMNext]_vars
  /\ WF_vars(pollUdevMonitor) /\ WF_vars(pollReturns)
  /\ WF_vars(startMonitoring) /\ WF_vars(loop = "monitoring" /\ refreshDevices)

-----------------------------------------------------------------------------

DMTypeOK ==
  /\ attached \in [Node -> Drive \cup {None}]
  /\ queue \in Seq(Event) /\ Len(queue) <= QueueLen
  /\ current \in Seq(Entry) /\ shown \in Seq(Entry)
  /\ lost \in BOOLEAN /\ monitor \in BOOLEAN /\ showFixed \in BOOLEAN /\ changed \in BOOLEAN
  /\ loop \in {"new", "monitoring", "ready", "polling", "closed"}
  /\ moves \in 0..MaxMoves

(* The window lists every drive that may be written to and no other, with  *)
(* the capacity of the drive that is named.                                *)
ListedRight ==
  Range(shown) = {[node |-> n, drive |-> attached[n], size |-> attached[n]] :
                    n \in Listed(showFixed)}

(* When all events have been delivered and none has been lost, or a scan   *)
(* has made up for it, the list is right, whatever scans and events have   *)
(* overtaken each other.                                                   *)
Settled == (loop = "ready" /\ monitor /\ queue = <<>> /\ ~lost) => ListedRight

(* Once the user leaves the drives alone, the window comes to list them.   *)
Converges == <>[](ListedRight \/ ~monitor \/ lost \/ loop = "closed")

(* The disk of the running system is never offered for writing ("detect    *)
(* root filesystem device node", device_manager.cpp:51).                   *)
SystemDiskNotOffered == \A i \in DOMAIN shown : shown[i].node # Root
=============================================================================
