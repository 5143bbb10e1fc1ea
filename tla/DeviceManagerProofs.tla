------------------------ MODULE DeviceManagerProofs ------------------------
(***************************************************************************)
(* The list of drives, for every number of nodes and drives, every length  *)
(* of the monitor's queue, and every order of scans and events.            *)
(***************************************************************************)
EXTENDS DeviceManager, FiniteSetTheorems, TLAPS

USE DEF vars

-----------------------------------------------------------------------------
(* Sequences: what a scan and a removal make of the list.                  *)

(* The queue without its head.                                             *)
LEMMA TailFacts ==
  ASSUME NEW S, NEW q \in Seq(S), q # <<>>
  PROVE  /\ Tail(q) \in Seq(S) /\ Len(Tail(q)) = Len(q) - 1 /\ Len(q) \in Nat \ {0}
         /\ DOMAIN q = 1..Len(q) /\ DOMAIN Tail(q) = 1..(Len(q) - 1)
         /\ \A i \in DOMAIN Tail(q) : Tail(q)[i] = q[i + 1]
         /\ Head(q) = q[1] /\ q[1] \in S
OBVIOUS

(* An event more in the queue, an entry more in the list.                  *)
LEMMA AppendFacts ==
  ASSUME NEW S, NEW q \in Seq(S), NEW e \in S
  PROVE  /\ Append(q, e) \in Seq(S) /\ Len(Append(q, e)) = Len(q) + 1 /\ Len(q) \in Nat
         /\ DOMAIN q = 1..Len(q) /\ DOMAIN Append(q, e) = 1..(Len(q) + 1)
         /\ \A i \in DOMAIN q : Append(q, e)[i] = q[i]
         /\ Append(q, e)[Len(q) + 1] = e
OBVIOUS

(* An order of a finite set lists each of its elements, and nothing else.  *)
LEMMA OrdersFacts ==
  ASSUME NEW S, IsFiniteSet(S), NEW o \in Orders(S)
  PROVE  /\ Cardinality(S) \in Nat /\ DOMAIN o = 1..Cardinality(S)
         /\ \A i \in DOMAIN o : o[i] \in S
         /\ \A x \in S : \E i \in DOMAIN o : o[i] = x
<1>1. Cardinality(S) \in Nat
  BY FS_CardinalityType
<1>2. o \in [1..Cardinality(S) -> S] /\ Range(o) = S
  BY DEF Orders
<1> QED
  BY <1>1, <1>2 DEF Range

(* Entries removed by their node: the others stay, each as it is.          *)
LEMMA WithoutFacts ==
  ASSUME current \in Seq(Entry), NEW n, NEW list \in Without(n)
  PROVE  /\ list \in Seq(Entry)
         /\ \A i \in DOMAIN list : \E j \in DOMAIN current : list[i] = current[j] /\ current[j].node # n
         /\ \A j \in DOMAIN current : current[j].node # n => \E i \in DOMAIN list : list[i] = current[j]
<1> DEFINE places == DOMAIN current \ Of(n)
<1>1. places \subseteq 1..Len(current) /\ DOMAIN current = 1..Len(current) /\ Len(current) \in Nat
  OBVIOUS
<1>2. IsFiniteSet(places)
  <2>1. IsFiniteSet(1..Len(current))
    BY <1>1, FS_Interval
  <2> HIDE DEF places
  <2> QED
    BY <1>1, <2>1, FS_Subset
<1>3. PICK o \in Orders(places) : list = [i \in DOMAIN o |-> current[o[i]]]
  BY DEF Without, Kept
<1>4. /\ Cardinality(places) \in Nat /\ DOMAIN o = 1..Cardinality(places)
      /\ \A i \in DOMAIN o : o[i] \in places
      /\ \A x \in places : \E i \in DOMAIN o : o[i] = x
  BY <1>2, OrdersFacts
<1>5. places = {j \in DOMAIN current : current[j].node # n}
  BY DEF Of
<1> HIDE DEF places
<1>6. DOMAIN list = DOMAIN o /\ \A i \in DOMAIN o : list[i] = current[o[i]]
  BY <1>3
<1>7. list \in Seq(Entry)
  <2>1. \A i \in DOMAIN o : current[o[i]] \in Entry
    BY <1>4, <1>5
  <2> QED
    BY <1>3, <1>4, <2>1
<1>8. \A i \in DOMAIN list : \E j \in DOMAIN current : list[i] = current[j] /\ current[j].node # n
  BY <1>4, <1>5, <1>6
<1>9. \A j \in DOMAIN current : current[j].node # n => \E i \in DOMAIN list : list[i] = current[j]
  BY <1>4, <1>5, <1>6
<1> QED
  BY <1>7, <1>8, <1>9

(* The entry a node has in a list that is right.                           *)
Right(n) == [node |-> n, drive |-> attached[n], size |-> attached[n]]

(* What is listed rightly of a drive that is there is an entry.            *)
LEMMA EntryType ==
  ASSUME attached \in [Node -> Drive \cup {None}], NEW n \in Node, NEW d \in Drive
  PROVE  buildDeviceInfo(n, d) \in Entry
BY DEF buildDeviceInfo, Entry

(* A scan lists what belongs in the list, and nothing else.                *)
LEMMA ScanFacts ==
  ASSUME attached \in [Node -> Drive \cup {None}], NEW fixed, scanDevices(fixed)
  PROVE  /\ current' \in Seq(Entry)
         /\ \A i \in DOMAIN current' : \E n \in Listed(fixed) : current'[i] = Right(n)
         /\ \A n \in Listed(fixed) : \E i \in DOMAIN current' : current'[i] = Right(n)
<1>1. PICK o \in Orders(Listed(fixed)) :
        current' = [i \in DOMAIN o |-> buildDeviceInfo(o[i], attached[o[i]])]
  BY DEF scanDevices
<1>2. Listed(fixed) \subseteq Node /\ \A n \in Listed(fixed) : attached[n] \in Drive
  BY DEF Listed
<1>3. IsFiniteSet(Listed(fixed))
  BY <1>2, DMAssumption, FS_Subset
<1>4. /\ Cardinality(Listed(fixed)) \in Nat /\ DOMAIN o = 1..Cardinality(Listed(fixed))
      /\ \A i \in DOMAIN o : o[i] \in Listed(fixed)
      /\ \A x \in Listed(fixed) : \E i \in DOMAIN o : o[i] = x
  BY <1>3, OrdersFacts
<1>5. \A n \in Listed(fixed) : buildDeviceInfo(n, attached[n]) = Right(n) /\ Right(n) \in Entry
  BY <1>2, EntryType DEF buildDeviceInfo, Right
<1>6. DOMAIN current' = DOMAIN o /\ \A i \in DOMAIN o : current'[i] = Right(o[i])
  BY <1>1, <1>4, <1>5
<1>7. current' \in Seq(Entry)
  <2>1. current' = [i \in 1..Cardinality(Listed(fixed)) |-> Right(o[i])]
    BY <1>1, <1>4, <1>5
  <2>2. \A i \in 1..Cardinality(Listed(fixed)) : Right(o[i]) \in Entry
    BY <1>4, <1>5
  <2> QED
    BY <1>4, <2>1, <2>2
<1> QED
  BY <1>4, <1>6, <1>7

-----------------------------------------------------------------------------
(* Types, and where the three copies of the list agree.                    *)

LoopInv ==
  /\ ~monitor => queue = <<>>
  /\ loop = "new" => ~monitor
  /\ loop # "polling" => ~changed
  /\ ~changed => shown = current

TypeInv == DMTypeOK /\ LoopInv

(* The list is empty before the first scan, and its copies agree.          *)
LEMMA TypeInit == DMInit => TypeInv
<1> SUFFICES ASSUME DMInit PROVE TypeInv
  OBVIOUS
<1>1. <<>> \in Seq(Event) /\ Len(<<>>) <= QueueLen /\ <<>> \in Seq(Entry) /\ 0 \in 0..MaxMoves
  BY DMAssumption
<1> QED
  BY <1>1 DEF DMInit, TypeInv, DMTypeOK, LoopInv

(* What an event makes of the list.                                        *)
LEMMA AfterEventType ==
  ASSUME TypeInv, NEW e \in Event, NEW list \in AfterEvent(e)
  PROVE  list \in Seq(Entry)
<1>1. /\ current \in Seq(Entry) /\ attached \in [Node -> Drive \cup {None}]
      /\ e.node \in Node /\ e.drive \in Drive /\ e.action \in {"add", "remove"}
  BY DEF TypeInv, DMTypeOK, Event
<1>2. CASE e.action = "add"
  BY <1>1, <1>2, EntryType DEF AfterEvent
<1>3. CASE e.action = "remove"
  BY <1>1, <1>3, WithoutFacts DEF AfterEvent
<1> QED
  BY <1>1, <1>2, <1>3

(* A drive that comes or goes queues an event where there is room for it.  *)
LEMMA MoveType ==
  ASSUME TypeInv, NEW n, NEW e \in Event, Move(n, e)
  PROVE  /\ queue' \in Seq(Event) /\ Len(queue') <= QueueLen /\ lost' \in BOOLEAN
         /\ moves' \in 0..MaxMoves /\ (~monitor => queue' = queue)
<1>1. queue \in Seq(Event) /\ Len(queue) <= QueueLen /\ lost \in BOOLEAN /\ moves \in 0..MaxMoves
  BY DEF TypeInv, DMTypeOK
<1>2. Len(queue) < QueueLen => Append(queue, e) \in Seq(Event) /\ Len(Append(queue, e)) <= QueueLen
  BY <1>1, DMAssumption
<1>3. moves' \in 0..MaxMoves
  BY <1>1, DMAssumption DEF Move
<1>4. CASE ~monitor
  BY <1>1, <1>3, <1>4 DEF Move, Queued
<1>5. CASE monitor
  BY <1>1, <1>2, <1>3, <1>5 DEF Move, Queued
<1> QED
  BY <1>4, <1>5

(* A scan copies the list at once, a poll when it returns.                 *)
LEMMA TypeNext == TypeInv /\ [DMNext]_vars => TypeInv'
<1> SUFFICES ASSUME TypeInv, [DMNext]_vars PROVE TypeInv'
  OBVIOUS
<1>1. /\ attached \in [Node -> Drive \cup {None}] /\ queue \in Seq(Event) /\ current \in Seq(Entry)
      /\ lost \in BOOLEAN /\ showFixed \in BOOLEAN
  BY DEF TypeInv, DMTypeOK
<1>2. CASE startMonitoring
  BY <1>2 DEF startMonitoring, TypeInv, DMTypeOK, LoopInv
<1>3. ASSUME NEW fixed \in BOOLEAN, scanDevices(fixed), loop \in {"monitoring", "ready"}
      PROVE  TypeInv'
  <2>1. current' \in Seq(Entry)
    BY <1>1, <1>3, ScanFacts
  <2>2. shown' = current' /\ UNCHANGED <<attached, queue, monitor, changed, moves>>
    BY <1>3 DEF scanDevices
  <2>3. lost' \in BOOLEAN /\ showFixed' \in BOOLEAN /\ loop' = "ready"
    BY <1>1, <1>3 DEF scanDevices
  <2> QED
    BY <1>3, <2>1, <2>2, <2>3 DEF TypeInv, DMTypeOK, LoopInv
<1>4. CASE pollUdevMonitor
  <2>1. queue' \in Seq(Event) /\ Len(queue') <= QueueLen
    <3>1. /\ queue # <<>> /\ queue' = Tail(queue) /\ Len(queue) <= QueueLen
      BY <1>4 DEF pollUdevMonitor, TypeInv, DMTypeOK
    <3>2. Len(queue') = Len(queue) - 1 /\ Len(queue) \in Nat
      BY <1>1, <3>1, TailFacts
    <3>3. Len(queue') <= QueueLen
      <4> DEFINE l == Len(queue)
                 k == Len(queue')
      <4>1. l \in Nat /\ l <= QueueLen /\ k = l - 1 /\ QueueLen \in Nat
        BY <3>1, <3>2, DMAssumption
      <4> HIDE DEF l, k
      <4>2. k <= QueueLen
        BY <4>1
      <4> QED
        BY <4>2 DEF k
    <3> QED
      BY <1>1, <3>1, <3>3, TailFacts
  <2>2. Head(queue) \in Event
    BY <1>1, <1>4, TailFacts DEF pollUdevMonitor
  <2>3. current' \in Seq(Entry)
    BY <1>4, <2>2, AfterEventType DEF pollUdevMonitor
  <2>4. changed' \in BOOLEAN /\ (~changed' => current' = current /\ ~changed)
    BY <1>4 DEF pollUdevMonitor, TypeInv, DMTypeOK
  <2>5. UNCHANGED <<attached, lost, monitor, showFixed, shown, moves>> /\ loop' = "polling" /\ monitor
    BY <1>4 DEF pollUdevMonitor
  <2> QED
    BY <2>1, <2>3, <2>4, <2>5 DEF TypeInv, DMTypeOK, LoopInv
<1>5. CASE pollReturns
  <2>1. shown' = current
    BY <1>5 DEF pollReturns, Emitted, TypeInv, LoopInv
  <2> QED
    BY <1>5, <2>1 DEF pollReturns, TypeInv, DMTypeOK, LoopInv
<1>6. CASE stopMonitoring
  <2>1. <<>> \in Seq(Event) /\ Len(<<>>) <= QueueLen
    BY DMAssumption
  <2> QED
    BY <1>6, <2>1 DEF stopMonitoring, TypeInv, DMTypeOK, LoopInv
<1>7. ASSUME NEW n \in Node, NEW e \in Event, Move(n, e),
             attached' \in [Node -> Drive \cup {None}]
      PROVE  TypeInv'
  <2>1. /\ queue' \in Seq(Event) /\ Len(queue') <= QueueLen /\ lost' \in BOOLEAN
        /\ moves' \in 0..MaxMoves /\ (~monitor => queue' = queue)
    BY <1>7, MoveType
  <2>2. UNCHANGED <<monitor, showFixed, current, changed, shown, loop>>
    BY <1>7 DEF Move
  <2>3. DMTypeOK'
    BY <1>7, <2>1, <2>2 DEF TypeInv, DMTypeOK
  <2> QED
    BY <2>1, <2>2, <2>3 DEF TypeInv, LoopInv
<1>8. ASSUME NEW n \in Node, Unplug(n) PROVE TypeInv'
  <2>1. attached[n] \in Drive
    BY <1>1, <1>8 DEF Unplug
  <2>2. [action |-> "remove", node |-> n, drive |-> attached[n]] \in Event
    BY <2>1 DEF Event
  <2>3. attached' \in [Node -> Drive \cup {None}]
    BY <1>1, <1>8 DEF Unplug
  <2> QED
    BY <1>7, <1>8, <2>2, <2>3 DEF Unplug
<1>9. ASSUME NEW n \in Node, NEW d \in Drive, Plug(n, d) PROVE TypeInv'
  <2>1. [action |-> "add", node |-> n, drive |-> d] \in Event
    BY DEF Event
  <2>2. attached' \in [Node -> Drive \cup {None}]
    BY <1>1, <1>9 DEF Plug
  <2> QED
    BY <1>7, <1>9, <2>1, <2>2 DEF Plug
<1>10. CASE UNCHANGED vars
  BY <1>10 DEF TypeInv, DMTypeOK, LoopInv
<1>11. refreshDevices => \E fixed \in BOOLEAN : scanDevices(fixed) /\ loop \in {"monitoring", "ready"}
  BY <1>1 DEF refreshDevices
<1>12. setShowFixedDrives => \E fixed \in BOOLEAN : scanDevices(fixed) /\ loop \in {"monitoring", "ready"}
  BY <1>1 DEF setShowFixedDrives
<1> QED
  BY <1>2, <1>3, <1>4, <1>5, <1>6, <1>8, <1>9, <1>10, <1>11, <1>12 DEF DMNext, Gui

(* The types of the list hold whatever comes, goes, and is scanned.        *)
THEOREM ListTypes == DMSpec => []DMTypeOK
<1>1. TypeInv => DMTypeOK
  BY DEF TypeInv
<1> QED
  BY <1>1, TypeInit, TypeNext, PTL DEF DMSpec

-----------------------------------------------------------------------------
(* The disk of the system.                                                 *)

NotTheSystem == \A i \in DOMAIN current : current[i].node # systemRootDisk

SystemInv == NotTheSystem /\ \A i \in DOMAIN shown : shown[i].node # systemRootDisk

(* Both ways into the list leave the disk of the system out.               *)
LEMMA SystemNext ==
  ASSUME TypeInv, SystemInv, [DMNext]_vars
  PROVE  SystemInv'
<1> USE DEF systemRootDisk
<1>1. /\ attached \in [Node -> Drive \cup {None}] /\ queue \in Seq(Event) /\ current \in Seq(Entry)
      /\ ~changed => shown = current
  BY DEF TypeInv, DMTypeOK, LoopInv
<1>2. ASSUME NEW fixed, scanDevices(fixed) PROVE SystemInv'
  <2>1. \A i \in DOMAIN current' : \E n \in Listed(fixed) : current'[i] = Right(n)
    BY <1>1, <1>2, ScanFacts
  <2>2. shown' = current'
    BY <1>2 DEF scanDevices
  <2>3. \A n \in Listed(fixed) : Right(n).node # systemRootDisk
    BY DEF Listed, Right
  <2> QED
    BY <2>1, <2>2, <2>3 DEF SystemInv, NotTheSystem
<1>3. CASE pollUdevMonitor
  <2> DEFINE e == Head(queue)
  <2>1. e \in Event /\ current' \in AfterEvent(e) /\ UNCHANGED shown
    BY <1>1, <1>3, TailFacts DEF pollUdevMonitor
  <2> HIDE DEF e
  <2>2. NotTheSystem'
    <3>1. CASE e.action = "add" /\ Accepted(e)
      <4>1. current' = Append(current, buildDeviceInfo(e.node, e.drive))
        BY <2>1, <3>1 DEF AfterEvent
      <4>2. buildDeviceInfo(e.node, e.drive) \in Entry
        BY <1>1, <2>1, EntryType DEF Event
      <4>3. buildDeviceInfo(e.node, e.drive).node # systemRootDisk
        BY <3>1 DEF Accepted, buildDeviceInfo
      <4>4. /\ DOMAIN current = 1..Len(current) /\ Len(current) \in Nat
            /\ DOMAIN current' = 1..(Len(current) + 1)
            /\ \A i \in DOMAIN current : current'[i] = current[i]
            /\ current'[Len(current) + 1] = buildDeviceInfo(e.node, e.drive)
        BY <1>1, <4>1, <4>2, AppendFacts
      <4>5. \A i \in DOMAIN current' : i \in DOMAIN current \/ i = Len(current) + 1
        BY <4>4
      <4> QED
        BY <4>3, <4>4, <4>5 DEF SystemInv, NotTheSystem
    <3>2. CASE e.action = "add" /\ ~Accepted(e)
      BY <2>1, <3>2 DEF AfterEvent, SystemInv, NotTheSystem
    <3>3. CASE e.action = "remove"
      <4>1. current' \in Without(e.node)
        BY <2>1, <3>3 DEF AfterEvent
      <4>2. \A i \in DOMAIN current' : \E j \in DOMAIN current : current'[i] = current[j]
        BY <1>1, <4>1, WithoutFacts
      <4> QED
        BY <4>2 DEF SystemInv, NotTheSystem
    <3> QED
      BY <2>1, <3>1, <3>2, <3>3 DEF Event
  <2> QED
    BY <2>1, <2>2 DEF SystemInv
<1>4. CASE pollReturns
  BY <1>4 DEF pollReturns, Emitted, SystemInv, NotTheSystem
<1>5. CASE UNCHANGED <<current, shown>>
  BY <1>5 DEF SystemInv, NotTheSystem
<1>6. \/ \E fixed : scanDevices(fixed)
      \/ pollUdevMonitor \/ pollReturns \/ UNCHANGED <<current, shown>>
  BY DEF DMNext, Gui, startMonitoring, refreshDevices, setShowFixedDrives, stopMonitoring,
         Unplug, Plug, Move
<1> QED
  BY <1>2, <1>3, <1>4, <1>5, <1>6

(* The disk of the running system is never offered, provided the root file *)
(* system in /proc/mounts names it: neither a scan nor an event lists it.  *)
THEOREM SystemDiskIsNotOffered ==
  ASSUME RootName = Root
  PROVE  DMSpec => []SystemDiskNotOffered
<1>1. DMInit => SystemInv
  BY DEF DMInit, SystemInv, NotTheSystem
<1>2. SystemInv => SystemDiskNotOffered
  BY DEF SystemInv, SystemDiskNotOffered, systemRootDisk
<1> QED
  BY <1>1, <1>2, TypeInit, TypeNext, SystemNext, PTL DEF DMSpec

-----------------------------------------------------------------------------
(* The list and the queue together.  The last event of a node tells what   *)
(* is at the node; an "add" of a drive that is gone has its "remove"       *)
(* behind it; an entry that is wrong has its "remove" to come; and a drive *)
(* that is missing from the list has an event to come.                     *)

Trusted == monitor /\ ~lost

Coming(q, n, from) == \E j \in DOMAIN q : j >= from /\ q[j].node = n

Removal(q, n, from) ==
  \E j \in DOMAIN q : j >= from /\ q[j].node = n /\ q[j].action = "remove"

LastTells ==
  \A i \in DOMAIN queue : ~Coming(queue, queue[i].node, i + 1) =>
    attached[queue[i].node] = IF queue[i].action = "add" THEN queue[i].drive ELSE None

GoneRemoved ==
  \A i \in DOMAIN queue :
    (queue[i].action = "add" /\ attached[queue[i].node] # queue[i].drive) =>
      Removal(queue, queue[i].node, i + 1)

WrongRemoved ==
  \A i \in DOMAIN current :
    \/ current[i].node \in Listed(showFixed) /\ current[i] = Right(current[i].node)
    \/ Removal(queue, current[i].node, 1)

MissingComes ==
  \A n \in Listed(showFixed) :
    (\E i \in DOMAIN current : current[i] = Right(n)) \/ Coming(queue, n, 1)

SettleInv ==
  /\ Trusted => LastTells /\ GoneRemoved
  /\ (Trusted /\ loop \in {"ready", "polling"}) => WrongRemoved /\ MissingComes

(* Without the head of the queue, what was to come behind it still is.     *)
LEMMA HeadTaken ==
  ASSUME queue \in Seq(Event), queue # <<>>, queue' = Tail(queue), UNCHANGED attached
  PROVE  /\ \A n : \A k \in Nat \ {0} : Coming(queue, n, k + 1) => Coming(queue', n, k)
         /\ \A n : \A k \in Nat \ {0} : Removal(queue, n, k + 1) => Removal(queue', n, k)
         /\ \A n : Coming(queue, n, 1) => Coming(queue', n, 1) \/ n = Head(queue).node
         /\ \A n : Removal(queue, n, 1) =>
              Removal(queue', n, 1) \/ (n = Head(queue).node /\ Head(queue).action = "remove")
         /\ LastTells /\ GoneRemoved => LastTells' /\ GoneRemoved'
<1>1. /\ Len(queue) \in Nat \ {0} /\ DOMAIN queue = 1..Len(queue)
      /\ DOMAIN queue' = 1..(Len(queue) - 1)
      /\ \A i \in DOMAIN queue' : queue'[i] = queue[i + 1]
      /\ Head(queue) = queue[1]
  BY TailFacts
<1>2. ASSUME NEW j \in DOMAIN queue, j # 1
      PROVE  j - 1 \in DOMAIN queue' /\ queue'[j - 1] = queue[j]
  <2>1. j \in 1..Len(queue) /\ j # 1
    BY <1>1, <1>2
  <2>2. j - 1 \in 1..(Len(queue) - 1) /\ (j - 1) + 1 = j
    BY <2>1, <1>1
  <2> QED
    BY <1>1, <2>2
<1>3. ASSUME NEW i \in DOMAIN queue'
      PROVE  i + 1 \in DOMAIN queue /\ i \in Nat \ {0} /\ queue'[i] = queue[i + 1]
  BY <1>1
<1>4. ASSUME NEW n, NEW k \in Nat \ {0}, Coming(queue, n, k + 1)
      PROVE  Coming(queue', n, k)
  <2>1. PICK j \in DOMAIN queue : j >= k + 1 /\ queue[j].node = n
    BY <1>4 DEF Coming
  <2>2. j # 1 /\ j - 1 >= k
    BY <1>1, <2>1
  <2> QED
    BY <1>2, <2>1, <2>2 DEF Coming
<1>5. ASSUME NEW n, NEW k \in Nat \ {0}, Removal(queue, n, k + 1)
      PROVE  Removal(queue', n, k)
  <2>1. PICK j \in DOMAIN queue : j >= k + 1 /\ queue[j].node = n /\ queue[j].action = "remove"
    BY <1>5 DEF Removal
  <2>2. j # 1 /\ j - 1 >= k
    BY <1>1, <2>1
  <2> QED
    BY <1>2, <2>1, <2>2 DEF Removal
<1>6. ASSUME NEW n, Coming(queue, n, 1)
      PROVE  Coming(queue', n, 1) \/ n = Head(queue).node
  <2>1. PICK j \in DOMAIN queue : queue[j].node = n
    BY <1>6 DEF Coming
  <2>2. CASE j = 1
    BY <1>1, <2>1, <2>2
  <2>3. CASE j # 1
    <3>1. j - 1 >= 1
      BY <1>1, <2>3
    <3> QED
      BY <1>2, <2>1, <2>3, <3>1 DEF Coming
  <2> QED
    BY <2>2, <2>3
<1>7. ASSUME NEW n, Removal(queue, n, 1)
      PROVE  Removal(queue', n, 1) \/ (n = Head(queue).node /\ Head(queue).action = "remove")
  <2>1. PICK j \in DOMAIN queue : queue[j].node = n /\ queue[j].action = "remove"
    BY <1>7 DEF Removal
  <2>2. CASE j = 1
    BY <1>1, <2>1, <2>2
  <2>3. CASE j # 1
    <3>1. j - 1 >= 1
      BY <1>1, <2>3
    <3> QED
      BY <1>2, <2>1, <2>3, <3>1 DEF Removal
  <2> QED
    BY <2>2, <2>3
<1>8. ASSUME LastTells
      PROVE  LastTells'
  <2> SUFFICES ASSUME NEW i \in DOMAIN queue', ~Coming(queue', queue'[i].node, i + 1)
               PROVE  attached[queue'[i].node] = IF queue'[i].action = "add" THEN queue'[i].drive ELSE None
    BY DEF LastTells
  <2>1. i + 1 \in DOMAIN queue /\ i + 1 \in Nat \ {0} /\ queue'[i] = queue[i + 1]
    BY <1>3
  <2>2. ~Coming(queue, queue[i + 1].node, (i + 1) + 1)
    BY <1>4, <2>1
  <2> QED
    BY <1>8, <2>1, <2>2 DEF LastTells
<1>9. ASSUME GoneRemoved
       PROVE  GoneRemoved'
  <2> SUFFICES ASSUME NEW i \in DOMAIN queue', queue'[i].action = "add",
                      attached[queue'[i].node] # queue'[i].drive
               PROVE  Removal(queue', queue'[i].node, i + 1)
    BY DEF GoneRemoved
  <2>1. i + 1 \in DOMAIN queue /\ i + 1 \in Nat \ {0} /\ queue'[i] = queue[i + 1]
    BY <1>3
  <2>2. Removal(queue, queue[i + 1].node, (i + 1) + 1)
    BY <1>9, <2>1 DEF GoneRemoved
  <2> QED
    BY <1>5, <2>1, <2>2
<1> QED
  BY <1>4, <1>5, <1>6, <1>7, <1>8, <1>9

(* One event taken from the queue.                                         *)
LEMMA PollSettles ==
  ASSUME TypeInv, SettleInv, pollUdevMonitor
  PROVE  SettleInv'
<1> DEFINE e == Head(queue)
           n == e.node
           new == buildDeviceInfo(n, e.drive)
<1>1. /\ queue \in Seq(Event) /\ queue # <<>> /\ queue' = Tail(queue)
      /\ current \in Seq(Entry) /\ attached \in [Node -> Drive \cup {None}]
      /\ current' \in AfterEvent(e) /\ loop \in {"ready", "polling"}
      /\ UNCHANGED <<attached, lost, monitor, showFixed>>
  BY DEF pollUdevMonitor, TypeInv, DMTypeOK
<1>2. /\ e \in Event /\ e = queue[1] /\ 1 \in DOMAIN queue
      /\ n \in Node /\ e.drive \in Drive /\ e.action \in {"add", "remove"}
  <2>1. e \in Event /\ e = queue[1] /\ 1 \in DOMAIN queue
    BY <1>1, TailFacts
  <2> QED
    BY <2>1 DEF Event
<1> SUFFICES ASSUME Trusted
             PROVE  LastTells' /\ GoneRemoved' /\ WrongRemoved' /\ MissingComes'
  BY <1>1 DEF SettleInv, Trusted
<1>3. LastTells /\ GoneRemoved /\ WrongRemoved /\ MissingComes
  BY <1>1 DEF SettleInv
<1>4. /\ \A m : \A k \in Nat \ {0} : Coming(queue, m, k + 1) => Coming(queue', m, k)
      /\ \A m : \A k \in Nat \ {0} : Removal(queue, m, k + 1) => Removal(queue', m, k)
      /\ \A m : Coming(queue, m, 1) => Coming(queue', m, 1) \/ m = n
      /\ \A m : Removal(queue, m, 1) =>
           Removal(queue', m, 1) \/ (m = n /\ e.action = "remove")
      /\ LastTells' /\ GoneRemoved'
  BY <1>1, <1>3, HeadTaken
<1>5. /\ Listed(showFixed)' = Listed(showFixed) /\ \A m : Right(m)' = Right(m)
  BY <1>1 DEF Listed, Right
<1>6. e.action = "add" =>
        current' = IF Accepted(e) THEN Append(current, new) ELSE current
  BY <1>1 DEF AfterEvent
<1>7. e.action = "remove" =>
        /\ \A i \in DOMAIN current' : \E j \in DOMAIN current : current'[i] = current[j] /\ current[j].node # n
        /\ \A j \in DOMAIN current : current[j].node # n => \E i \in DOMAIN current' : current'[i] = current[j]
  <2> SUFFICES ASSUME e.action = "remove"
               PROVE  /\ \A i \in DOMAIN current' : \E j \in DOMAIN current : current'[i] = current[j] /\ current[j].node # n
                      /\ \A j \in DOMAIN current : current[j].node # n => \E i \in DOMAIN current' : current'[i] = current[j]
    OBVIOUS
  <2>1. current' \in Without(n)
    BY <1>1 DEF AfterEvent
  <2> QED
    BY <1>1, <2>1, WithoutFacts
<1>8. new \in Entry /\ new.node = n /\ (attached[n] = e.drive => new = Right(n))
  BY <1>1, <1>2, EntryType DEF buildDeviceInfo, Right
<1>9. /\ DOMAIN current = 1..Len(current) /\ Len(current) \in Nat
      /\ DOMAIN Append(current, new) = 1..(Len(current) + 1)
      /\ \A i \in DOMAIN current : Append(current, new)[i] = current[i]
      /\ Append(current, new)[Len(current) + 1] = new
  BY <1>1, <1>8, AppendFacts
<1> HIDE DEF e, n, new
<1>10. attached[n] = e.drive => (Accepted(e) <=> n \in Listed(showFixed))
  BY <1>1, <1>2, DMAssumption DEF Accepted, Listed, isUsbDevice, n
<1>11. WrongRemoved'
  <2> DEFINE Good(x) == \/ x.node \in Listed(showFixed) /\ x = Right(x.node)
                        \/ Removal(queue', x.node, 1)
  <2>1. ASSUME NEW j \in DOMAIN current, e.action = "add" \/ current[j].node # n
        PROVE  Good(current[j])
    BY <1>3, <1>4, <2>1 DEF WrongRemoved
  <2>2. ASSUME e.action = "add", Accepted(e)
        PROVE  Good(new)
    <3>1. CASE attached[n] = e.drive
      BY <1>8, <1>10, <2>2, <3>1
    <3>2. CASE attached[n] # e.drive
      <4>1. Removal(queue, n, 1 + 1)
        BY <1>2, <1>3, <2>2, <3>2 DEF GoneRemoved, n
      <4>2. Removal(queue', n, 1)
        BY <1>4, <4>1
      <4> QED
        BY <1>8, <4>2
    <3> QED
      BY <3>1, <3>2
  <2>3. ASSUME NEW i \in DOMAIN current' PROVE Good(current'[i])
    <3> HIDE DEF Good
    <3>1. CASE e.action = "remove"
      BY <1>7, <2>1, <2>3, <3>1
    <3>2. CASE e.action = "add" /\ Accepted(e)
      <4>1. current' = Append(current, new)
        BY <1>6, <3>2
      <4>2. i \in DOMAIN current \/ i = Len(current) + 1
        BY <1>9, <2>3, <4>1
      <4> QED
        BY <1>9, <2>1, <2>2, <3>2, <4>1, <4>2
    <3>3. CASE e.action = "add" /\ ~Accepted(e)
      BY <1>6, <2>1, <2>3, <3>3
    <3> QED
      BY <1>2, <3>1, <3>2, <3>3
  <2> QED
    BY <1>5, <2>3 DEF WrongRemoved
<1>12. MissingComes'
  <2> SUFFICES ASSUME NEW m \in Listed(showFixed), ~Coming(queue', m, 1)
               PROVE  \E i \in DOMAIN current' : current'[i] = Right(m)
    BY <1>5 DEF MissingComes
  <2>1. CASE m # n
    <3>1. PICK j \in DOMAIN current : current[j] = Right(m)
      BY <1>3, <1>4, <2>1 DEF MissingComes
    <3>2. current[j].node # n
      BY <2>1, <3>1 DEF Right
    <3>3. CASE e.action = "remove"
      BY <1>7, <3>1, <3>2, <3>3
    <3>4. CASE e.action = "add" /\ Accepted(e)
      <4>1. current' = Append(current, new) /\ j \in DOMAIN current'
        BY <1>6, <1>9, <3>4
      <4> QED
        BY <1>9, <3>1, <4>1
    <3>5. CASE e.action = "add" /\ ~Accepted(e)
      BY <1>6, <3>1, <3>5
    <3> QED
      BY <1>2, <3>3, <3>4, <3>5
  <2>2. CASE m = n
    <3>1. ~Coming(queue, n, 1 + 1)
      BY <1>4, <2>2
    <3>2. attached[n] = IF e.action = "add" THEN e.drive ELSE None
      BY <1>2, <1>3, <3>1 DEF LastTells, n
    <3>3. attached[n] # None
      BY <2>2 DEF Listed
    <3>4. e.action = "add" /\ attached[n] = e.drive /\ Accepted(e)
      BY <1>10, <2>2, <3>2, <3>3
    <3>5. current' = Append(current, new) /\ new = Right(n)
      BY <1>6, <1>8, <3>4
    <3>6. Len(current) + 1 \in DOMAIN current'
      BY <1>9, <3>5
    <3> QED
      BY <1>9, <2>2, <3>5, <3>6
  <2> QED
    BY <2>1, <2>2
<1> QED
  BY <1>4, <1>11, <1>12

(* A drive that comes or goes, with its event behind all others.           *)
LEMMA MoveSettles ==
  ASSUME TypeInv, SettleInv, NEW n \in Node, NEW e \in Event, Move(n, e), e.node = n,
         NEW x \in Drive \cup {None}, attached' = [attached EXCEPT ![n] = x],
         \/ e.action = "remove" /\ x = None
         \/ e.action = "add" /\ x = e.drive /\ attached[n] = None
  PROVE  SettleInv'
<1>1. /\ queue \in Seq(Event) /\ current \in Seq(Entry) /\ attached \in [Node -> Drive \cup {None}]
      /\ UNCHANGED <<monitor, showFixed, current, loop>>
  BY DEF Move, TypeInv, DMTypeOK
<1> SUFFICES ASSUME Trusted'
             PROVE  /\ LastTells' /\ GoneRemoved'
                    /\ loop \in {"ready", "polling"} => WrongRemoved' /\ MissingComes'
  BY <1>1 DEF SettleInv
<1>2. monitor /\ ~lost /\ queue' = Append(queue, e)
  BY <1>1 DEF Trusted, Move, Queued
<1>3. /\ LastTells /\ GoneRemoved
      /\ loop \in {"ready", "polling"} => WrongRemoved /\ MissingComes
  BY <1>2 DEF SettleInv, Trusted
<1> DEFINE new == Len(queue) + 1
<1>4. /\ Len(queue) \in Nat /\ DOMAIN queue = 1..Len(queue) /\ DOMAIN queue' = 1..new
      /\ \A i \in DOMAIN queue : queue'[i] = queue[i]
      /\ queue'[new] = e
  BY <1>1, <1>2, AppendFacts
<1>5. /\ \A i \in DOMAIN queue' : i \in DOMAIN queue \/ i = new
      /\ \A i \in DOMAIN queue : i \in DOMAIN queue' /\ new >= i + 1
      /\ new \in DOMAIN queue' /\ new >= 1
  BY <1>4
<1> HIDE DEF new
<1>6. /\ \A m, k : Coming(queue, m, k) => Coming(queue', m, k)
      /\ \A m, k : Removal(queue, m, k) => Removal(queue', m, k)
  BY <1>4, <1>5 DEF Coming, Removal
<1>7. \A k : new >= k => Coming(queue', n, k) /\ (x = None => Removal(queue', n, k))
  <2>1. x = None => e.action = "remove"
    BY DMAssumption DEF Event
  <2> QED
    BY <1>4, <1>5, <2>1 DEF Coming, Removal
<1>8. \A m : m # n => attached'[m] = attached[m]
  BY <1>1
<1>9. attached'[n] = x
  BY <1>1
<1>10. \A m \in Node : m # n => (m \in Listed(showFixed)' <=> m \in Listed(showFixed)) /\ Right(m)' = Right(m)
  BY <1>1, <1>8 DEF Listed, Right
<1>11. LastTells'
  <2> SUFFICES ASSUME NEW i \in DOMAIN queue', ~Coming(queue', queue'[i].node, i + 1)
               PROVE  attached'[queue'[i].node] =
                        IF queue'[i].action = "add" THEN queue'[i].drive ELSE None
    BY DEF LastTells
  <2>1. CASE i = new
    BY <1>4, <1>9, <2>1
  <2>2. CASE i \in DOMAIN queue
    <3>1. queue'[i] = queue[i] /\ queue[i].node # n
      BY <1>4, <1>5, <1>7, <2>2
    <3>2. ~Coming(queue, queue[i].node, i + 1)
      BY <1>6, <3>1
    <3> QED
      BY <1>3, <1>8, <2>2, <3>1, <3>2 DEF LastTells
  <2> QED
    BY <1>5, <2>1, <2>2
<1>12. GoneRemoved'
  <2> SUFFICES ASSUME NEW i \in DOMAIN queue', queue'[i].action = "add",
                      attached'[queue'[i].node] # queue'[i].drive
               PROVE  Removal(queue', queue'[i].node, i + 1)
    BY DEF GoneRemoved
  <2>1. i # new
    BY <1>4, <1>9
  <2>2. i \in DOMAIN queue /\ queue'[i] = queue[i] /\ queue[i] \in Event /\ new >= i + 1
    BY <1>1, <1>4, <1>5, <2>1
  <2>3. CASE attached[queue[i].node] # queue[i].drive
    BY <1>3, <1>6, <2>2, <2>3 DEF GoneRemoved
  <2>4. CASE attached[queue[i].node] = queue[i].drive
    <3>1. queue[i].drive # None
      BY <2>2, DMAssumption DEF Event
    <3>2. queue[i].node = n /\ x = None
      BY <1>8, <2>2, <2>4, <3>1
    <3> QED
      BY <1>7, <2>2, <3>2
  <2> QED
    BY <2>3, <2>4
<1>13. ASSUME WrongRemoved
       PROVE  WrongRemoved'
  <2> SUFFICES ASSUME NEW i \in DOMAIN current
               PROVE  \/ /\ current[i].node \in Listed(showFixed)'
                         /\ current[i] = Right(current[i].node)'
                      \/ Removal(queue', current[i].node, 1)
    BY <1>1 DEF WrongRemoved, Right, Listed
  <2>0. current[i] \in Entry
    BY <1>1
  <2>1. current[i].node \in Node
    BY <2>0 DEF Entry
  <2>2. CASE current[i].node # n
    <3>1. \/ current[i].node \in Listed(showFixed) /\ current[i] = Right(current[i].node)
          \/ Removal(queue, current[i].node, 1)
      BY <1>13 DEF WrongRemoved
    <3>2. CASE Removal(queue, current[i].node, 1)
      BY <1>6, <3>2
    <3>3. CASE current[i].node \in Listed(showFixed) /\ current[i] = Right(current[i].node)
      BY <1>8, <1>1, <2>2, <3>3 DEF Listed, Right
    <3> QED
      BY <3>1, <3>2, <3>3
  <2>3. CASE current[i].node = n
    <3>1. CASE x = None
      BY <1>5, <1>7, <2>3, <3>1
    <3>2. CASE attached[n] = None
      <4>1. n \notin Listed(showFixed)
        BY <3>2 DEF Listed
      <4> QED
        BY <1>6, <1>13, <2>3, <4>1 DEF WrongRemoved
    <3> QED
      BY <3>1, <3>2
  <2> QED
    BY <2>2, <2>3
<1>14. ASSUME MissingComes
       PROVE  MissingComes'
  <2> SUFFICES ASSUME NEW m \in Listed(showFixed)'
               PROVE  (\E i \in DOMAIN current : current[i] = Right(m)') \/ Coming(queue', m, 1)
    BY <1>1 DEF MissingComes, Right
  <2>1. m \in Node
    BY DEF Listed
  <2>2. CASE m = n
    BY <1>5, <1>7, <2>2
  <2>3. CASE m # n
    BY <1>6, <1>10, <1>14, <2>1, <2>3 DEF MissingComes
  <2> QED
    BY <2>2, <2>3
<1> QED
  BY <1>3, <1>11, <1>12, <1>13, <1>14

(* Every step: a scan lists the truth, the poll takes an event from the    *)
(* queue, a drive that moves puts one there.                               *)
LEMMA SettleNext ==
  ASSUME TypeInv, SettleInv, [DMNext]_vars
  PROVE  SettleInv'
<1>1. attached \in [Node -> Drive \cup {None}] /\ queue \in Seq(Event)
  BY DEF TypeInv, DMTypeOK
<1>2. ASSUME NEW fixed, scanDevices(fixed) PROVE SettleInv'
  <2>1. /\ \A i \in DOMAIN current' : \E n \in Listed(fixed) : current'[i] = Right(n)
        /\ \A n \in Listed(fixed) : \E i \in DOMAIN current' : current'[i] = Right(n)
    BY <1>1, <1>2, ScanFacts
  <2>2. /\ showFixed' = fixed /\ lost' = (lost /\ queue # <<>>)
        /\ UNCHANGED <<attached, queue, monitor>>
    BY <1>2 DEF scanDevices
  <2>3. Listed(showFixed)' = Listed(fixed) /\ \A n : Right(n)' = Right(n) /\ Right(n).node = n
    BY <2>2 DEF Listed, Right
  <2>4. WrongRemoved' /\ MissingComes'
    BY <2>1, <2>3 DEF WrongRemoved, MissingComes
  <2>5. Trusted' => LastTells' /\ GoneRemoved'
    <3>1. CASE lost
      <4>1. Trusted' => queue' = <<>>
        BY <2>2, <3>1 DEF Trusted
      <4> QED
        BY <4>1 DEF LastTells, GoneRemoved
    <3>2. CASE ~lost
      BY <2>2, <3>2 DEF SettleInv, Trusted, LastTells, GoneRemoved, Coming, Removal
    <3> QED
      BY <3>1, <3>2
  <2> QED
    BY <2>4, <2>5 DEF SettleInv
<1>3. CASE startMonitoring
  <2>1. queue' = <<>> /\ loop' = "monitoring"
    BY <1>3 DEF startMonitoring, TypeInv, LoopInv
  <2> QED
    BY <2>1 DEF SettleInv, LastTells, GoneRemoved
<1>4. CASE pollUdevMonitor
  BY <1>4, PollSettles
<1>5. CASE pollReturns \/ UNCHANGED vars
  <2>1. /\ UNCHANGED <<attached, queue, lost, monitor, showFixed, current>>
        /\ loop' \in {"ready", "polling"} => loop \in {"ready", "polling"}
    BY <1>5 DEF pollReturns
  <2>2. Trusted' = Trusted /\ LastTells' = LastTells /\ GoneRemoved' = GoneRemoved
    <3>1. /\ \A n, k : Coming(queue', n, k) = Coming(queue, n, k)
          /\ \A n, k : Removal(queue', n, k) = Removal(queue, n, k)
      BY <2>1
    <3> QED
      BY <2>1, <3>1 DEF Trusted, LastTells, GoneRemoved
  <2>3. WrongRemoved' = WrongRemoved /\ MissingComes' = MissingComes
    <3>1. /\ Listed(showFixed)' = Listed(showFixed)
          /\ \A n : Right(n)' = Right(n)
      BY <2>1 DEF Listed, Right
    <3> QED
      BY <2>1, <3>1 DEF WrongRemoved, MissingComes, Right
  <2> QED
    BY <2>1, <2>2, <2>3 DEF SettleInv
<1>6. CASE stopMonitoring
  BY <1>6 DEF stopMonitoring, SettleInv, Trusted
<1>7. ASSUME NEW n \in Node, Unplug(n) PROVE SettleInv'
  <2> DEFINE e == [action |-> "remove", node |-> n, drive |-> attached[n]]
  <2>1. attached[n] \in Drive /\ Move(n, e) /\ attached' = [attached EXCEPT ![n] = None]
    BY <1>1, <1>7 DEF Unplug
  <2>2. e \in Event /\ e.node = n /\ e.action = "remove"
    BY <2>1 DEF Event
  <2> HIDE DEF e
  <2> QED
    BY <2>1, <2>2, MoveSettles
<1>8. ASSUME NEW n \in Node, NEW d \in Drive, Plug(n, d) PROVE SettleInv'
  <2> DEFINE e == [action |-> "add", node |-> n, drive |-> d]
  <2>1. attached[n] = None /\ Move(n, e) /\ attached' = [attached EXCEPT ![n] = d]
    BY <1>8 DEF Plug
  <2>2. e \in Event /\ e.node = n /\ e.action = "add" /\ e.drive = d
    BY DEF Event
  <2> HIDE DEF e
  <2> QED
    BY <2>1, <2>2, MoveSettles
<1>9. refreshDevices \/ setShowFixedDrives => \E fixed : scanDevices(fixed)
  BY DEF refreshDevices, setShowFixedDrives
<1> QED
  BY <1>2, <1>3, <1>4, <1>5, <1>6, <1>7, <1>8, <1>9 DEF DMNext, Gui

(* Before anything is polled there is nothing to settle.                   *)
LEMMA SettleInit == DMInit => SettleInv
BY DEF DMInit, SettleInv, Trusted

(* With nothing to come, nothing is wrong and nothing missing.             *)
LEMMA SettleImplies == TypeInv /\ SettleInv => Settled
<1> SUFFICES ASSUME TypeInv, SettleInv, loop = "ready", monitor, queue = <<>>, ~lost
             PROVE  ListedRight
  BY DEF Settled
<1>1. shown = current /\ WrongRemoved /\ MissingComes
  BY DEF TypeInv, LoopInv, SettleInv, Trusted
<1>2. \A n, k : ~Coming(queue, n, k) /\ ~Removal(queue, n, k)
  BY DEF Coming, Removal
<1>3. \A i \in DOMAIN shown : \E n \in Listed(showFixed) : shown[i] = Right(n)
  BY <1>1, <1>2 DEF WrongRemoved
<1>4. \A n \in Listed(showFixed) : \E i \in DOMAIN shown : shown[i] = Right(n)
  BY <1>1, <1>2 DEF MissingComes
<1>5. Range(shown) = {Right(n) : n \in Listed(showFixed)}
  BY <1>3, <1>4 DEF Range
<1> QED
  BY <1>5 DEF ListedRight, Right

(* Scans and events know nothing of each other, and still the list is      *)
(* right whenever the queue has been emptied: however many drives come and *)
(* go, through whatever nodes, and whichever scan overtakes which event.   *)
THEOREM ListSettles == DMSpec => []Settled
BY SettleInit, SettleImplies, TypeInit, TypeNext, SettleNext, PTL DEF DMSpec
=============================================================================
