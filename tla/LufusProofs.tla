---------------------------- MODULE LufusProofs ----------------------------
(***************************************************************************)
(* Whose content is lost: the window, the list of drives and the backend   *)
(* together, for any number of ports, drives, images, moves and picks.     *)
(***************************************************************************)
EXTENDS Lufus, FiniteSetTheorems, TLAPS

USE DEF hotplugVars, windowVars, vars, MW!listVars, MW!imageVars, MW!formVars,
        MW!buttonVars, MW!writeVars, MW!mwVars

-----------------------------------------------------------------------------
(* The list of drives never has the disk of the system in it.              *)

Offered == {e \in DM!Entry : e.node # RootName}

HotInv ==
  /\ attached \in [Node -> Drive \cup {None}] /\ attached[Root] # None
  /\ \A n, o \in Node : attached[n] # None /\ attached[n] = attached[o] => n = o
  /\ queue \in Seq(DM!Event)
  /\ current \in Seq(Offered) /\ devices \in Seq(Offered)

(* A list picked by places out of a set of places.                         *)
LEMMA OrdersFacts ==
  ASSUME NEW S, IsFiniteSet(S), NEW o \in DM!Orders(S)
  PROVE  Cardinality(S) \in Nat /\ o \in [1..Cardinality(S) -> S]
<1>1. Cardinality(S) \in Nat
  BY FS_CardinalityType
<1>2. DM!Cardinality(S) = Cardinality(S)
  BY DEF DM!Cardinality, Cardinality
<1> QED
  BY <1>1, <1>2 DEF DM!Orders

(* A scan lists what may be offered.                                       *)
LEMMA ScanOffers ==
  ASSUME attached \in [Node -> Drive \cup {None}], NEW fixed, DM!scanDevices(fixed)
  PROVE  current' \in Seq(Offered) /\ devices' = current'
<1> DEFINE listed == DM!Listed(fixed)
<1>1. PICK o \in DM!Orders(listed) :
        current' = [i \in DOMAIN o |-> DM!buildDeviceInfo(o[i], attached[o[i]])]
  BY DEF DM!scanDevices
<1>2. \A n \in listed : DM!buildDeviceInfo(n, attached[n]) \in Offered
  BY DEF DM!Listed, DM!buildDeviceInfo, DM!systemRootDisk, DM!Entry, Offered, Drive, DM!Drive
<1>3. IsFiniteSet(listed)
  BY LufusAssumption, FS_Subset DEF DM!Listed
<1> HIDE DEF listed
<1>4. Cardinality(listed) \in Nat /\ o \in [1..Cardinality(listed) -> listed]
  BY <1>1, <1>3, OrdersFacts
<1>5. current' = [i \in 1..Cardinality(listed) |-> DM!buildDeviceInfo(o[i], attached[o[i]])]
  BY <1>1, <1>4
<1>6. \A i \in 1..Cardinality(listed) : DM!buildDeviceInfo(o[i], attached[o[i]]) \in Offered
  BY <1>2, <1>4
<1>7. current' \in Seq(Offered)
  BY <1>4, <1>5, <1>6
<1> QED
  BY <1>7 DEF DM!scanDevices

(* An event adds what may be offered, and takes entries away.              *)
LEMMA EventOffers ==
  ASSUME HotInv, NEW e \in DM!Event, NEW list \in DM!AfterEvent(e)
  PROVE  list \in Seq(Offered)
<1>1. /\ attached \in [Node -> Drive \cup {None}] /\ current \in Seq(Offered)
      /\ e.node \in Node /\ e.drive \in Drive /\ e.action \in {"add", "remove"}
  BY DEF HotInv, DM!Event, Drive, DM!Drive
<1>2. CASE e.action = "add"
  <2>1. list \in {IF DM!Accepted(e) THEN Append(current, DM!buildDeviceInfo(e.node, e.drive))
                  ELSE current}
    BY <1>2 DEF DM!AfterEvent
  <2>2. DM!Accepted(e) => DM!buildDeviceInfo(e.node, e.drive) \in Offered
    BY <1>1 DEF DM!Accepted, DM!buildDeviceInfo, DM!systemRootDisk, DM!Entry, Offered, Drive, DM!Drive
  <2> QED
    BY <1>1, <2>1, <2>2
<1>3. CASE e.action = "remove"
  <2> DEFINE places == DOMAIN current \ DM!Of(e.node)
  <2>1. places \subseteq 1..Len(current) /\ Len(current) \in Nat /\ DOMAIN current = 1..Len(current)
    BY <1>1
  <2>2. PICK o \in DM!Orders(places) : list = [i \in DOMAIN o |-> current[o[i]]]
    BY <1>3 DEF DM!AfterEvent, DM!Without, DM!Kept
  <2>3. IsFiniteSet(places)
    <3>1. IsFiniteSet(1..Len(current))
      BY <2>1, FS_Interval
    <3> HIDE DEF places
    <3> QED
      BY <2>1, <3>1, FS_Subset
  <2> HIDE DEF places
  <2>4. Cardinality(places) \in Nat /\ o \in [1..Cardinality(places) -> places]
    BY <2>2, <2>3, OrdersFacts
  <2>5. \A i \in 1..Cardinality(places) : current[o[i]] \in Offered
    <3>1. \A j \in places : current[j] \in Offered
      BY <1>1, <2>1
    <3> QED
      BY <2>4, <3>1
  <2>6. list = [i \in 1..Cardinality(places) |-> current[o[i]]]
    BY <2>2, <2>4
  <2> QED
    BY <2>4, <2>5, <2>6
<1> QED
  BY <1>1, <1>2, <1>3

(* The window's own slots leave the list as it is.                         *)
LEMMA WindowKeepsList ==
  ASSUME MW!User \/ MW!Events \/ MW!confirmAnswered \/ MW!backendEnds \/ MW!pkexecAnswered
  PROVE  UNCHANGED devices
BY DEF MW!User, MW!Events, MW!browseIso, MW!fileChosen, MW!onWriteModeChanged,
       MW!onPartitionSchemeChanged, MW!onTargetSystemChanged, MW!onFileSystemChanged,
       MW!labelEdited, MW!Edit, MW!onDeviceSelected, MW!startWrite, MW!hybridAnswered,
       MW!cancelWrite, MW!completionRead, MW!showAbout, MW!dialogClosed, MW!closeWindow,
       MW!onIsoAnalyzed, MW!onWriteCompleted, MW!waitTimesOut, MW!Crash, MW!confirmAnswered,
       MW!backendEnds, MW!pkexecAnswered

(* A drive that comes or goes leaves the list alone, and the port of the   *)
(* system.                                                                 *)
LEMMA MoveFacts ==
  ASSUME HotInv, NEW n \in Node, Unplug(n) \/ \E d \in Drive : Plug(n, d)
  PROVE  /\ HotInv' /\ n # Root /\ UNCHANGED <<windowVars, holds>>
         /\ \A o \in Node : o # n => attached'[o] = attached[o]
<1>1. /\ attached \in [Node -> Drive \cup {None}] /\ attached[Root] # None
      /\ \A k, o \in Node : attached[k] # None /\ attached[k] = attached[o] => k = o
      /\ queue \in Seq(DM!Event)
  BY DEF HotInv
<1>2. ASSUME NEW e \in DM!Event, DM!Move(n, e)
      PROVE  queue' \in Seq(DM!Event) /\ n # Root /\ UNCHANGED <<current, devices>>
  BY <1>1, <1>2 DEF DM!Move, DM!Queued
<1>3. CASE Unplug(n)
  <2>1. /\ attached[n] # None /\ attached' = [attached EXCEPT ![n] = None]
        /\ DM!Move(n, [action |-> "remove", node |-> n, drive |-> attached[n]])
        /\ UNCHANGED <<windowVars, holds>>
    BY <1>3 DEF Unplug, DM!Unplug
  <2>2. [action |-> "remove", node |-> n, drive |-> attached[n]] \in DM!Event
    BY <1>1, <2>1 DEF DM!Event, DM!Drive, Drive
  <2>3. queue' \in Seq(DM!Event) /\ n # Root /\ UNCHANGED <<current, devices>>
    BY <1>2, <2>1, <2>2
  <2>4. /\ attached' \in [Node -> Drive \cup {None}] /\ attached'[n] = None
        /\ \A o \in Node : o # n => attached'[o] = attached[o]
    BY <1>1, <2>1
  <2>5. attached'[Root] # None
    BY <1>1, <2>3, <2>4, LufusAssumption
  <2>6. \A k, o \in Node : attached'[k] # None /\ attached'[k] = attached'[o] => k = o
    BY <1>1, <2>4
  <2> QED
    BY <2>1, <2>3, <2>4, <2>5, <2>6 DEF HotInv
<1>4. ASSUME NEW d \in Drive, Plug(n, d)
      PROVE  /\ HotInv' /\ n # Root /\ UNCHANGED <<windowVars, holds>>
             /\ \A o \in Node : o # n => attached'[o] = attached[o]
  <2>1. /\ attached[n] = None /\ attached' = [attached EXCEPT ![n] = d]
        /\ \A o \in Node : attached[o] # d
        /\ DM!Move(n, [action |-> "add", node |-> n, drive |-> d])
        /\ UNCHANGED <<windowVars, holds>>
    BY <1>1, <1>4 DEF Plug, DM!Plug, DM!Range
  <2>2. [action |-> "add", node |-> n, drive |-> d] \in DM!Event
    BY DEF DM!Event, DM!Drive, Drive
  <2>3. queue' \in Seq(DM!Event) /\ n # Root /\ UNCHANGED <<current, devices>>
    BY <1>2, <2>1, <2>2
  <2>4. /\ attached' \in [Node -> Drive \cup {None}] /\ attached'[n] = d
        /\ \A o \in Node : o # n => attached'[o] = attached[o]
    BY <1>1, <2>1
  <2>5. attached'[Root] # None
    BY <1>1, <2>3, <2>4, LufusAssumption
  <2>6. \A k, o \in Node : attached'[k] # None /\ attached'[k] = attached'[o] => k = o
    BY <1>1, <2>1, <2>4
  <2> QED
    BY <2>1, <2>3, <2>4, <2>5, <2>6 DEF HotInv
<1> QED
  BY <1>3, <1>4

(* At first nothing is listed.                                             *)
LEMMA HotInit == Init => HotInv
<1> SUFFICES ASSUME Init PROVE HotInv
  OBVIOUS
<1>1. <<>> \in Seq(DM!Event) /\ <<>> \in Seq(Offered)
  OBVIOUS
<1>2. \A n, o \in Node : attached[n] # None /\ attached[n] = attached[o] => n = o
  BY DEF Init, DM!DMInit
<1> QED
  BY <1>1, <1>2 DEF Init, DM!DMInit, HotInv, Drive, DM!Drive

(* Scans and events keep the disk of the system out, and the window only   *)
(* ever takes over the list they make.                                     *)
LEMMA HotNext == HotInv /\ [Next]_vars => HotInv'
<1> SUFFICES ASSUME HotInv, [Next]_vars PROVE HotInv'
  OBVIOUS
<1>1. /\ attached \in [Node -> Drive \cup {None}] /\ queue \in Seq(DM!Event)
      /\ current \in Seq(Offered) /\ devices \in Seq(Offered)
  BY DEF HotInv
<1>2. CASE refreshDevices
  <2>1. PICK fixed : DM!scanDevices(fixed)
    BY <1>2 DEF refreshDevices, DM!refreshDevices, DM!setShowFixedDrives
  <2>2. current' \in Seq(Offered) /\ devices' = current' /\ UNCHANGED <<attached, queue>>
    BY <1>1, <2>1, ScanOffers DEF DM!scanDevices
  <2> QED
    BY <2>2 DEF HotInv
<1>3. CASE pollUdevMonitor
  <2>1. /\ queue # <<>> /\ queue' = Tail(queue) /\ current' \in DM!AfterEvent(Head(queue))
        /\ UNCHANGED <<attached, devices>>
    BY <1>3 DEF pollUdevMonitor, DM!pollUdevMonitor
  <2>2. Head(queue) \in DM!Event /\ queue' \in Seq(DM!Event)
    BY <1>1, <2>1
  <2>3. current' \in Seq(Offered)
    BY <2>1, <2>2, EventOffers
  <2> QED
    BY <2>1, <2>2, <2>3 DEF HotInv
<1>4. CASE devicesChanged
  <2>1. devices' \in {current, devices} /\ UNCHANGED <<attached, queue, current>>
    BY <1>4 DEF devicesChanged, DM!pollReturns, DM!Emitted
  <2> QED
    BY <1>1, <2>1 DEF HotInv
<1>5. CASE stopMonitoring
  <2>1. queue' = <<>> /\ UNCHANGED <<attached, current, devices>>
    BY <1>5 DEF stopMonitoring, DM!stopMonitoring
  <2> QED
    BY <2>1 DEF HotInv
<1>6. CASE UNCHANGED <<attached, queue, current, devices>>
  BY <1>6 DEF HotInv
<1>7. CASE startMonitoring \/ confirmAnswered \/ window \/ Destroy \/ Finish \/ backendEnds
           \/ pkexecAnswered
  <2>1. UNCHANGED <<attached, queue, current, devices>>
    BY <1>7, WindowKeepsList
       DEF startMonitoring, DM!startMonitoring, confirmAnswered, window, Slot, Destroy, Finish,
           Holding, backendEnds, pkexecAnswered
  <2> QED
    BY <1>6, <2>1
<1>8. CASE \E n \in Node : Unplug(n) \/ \E d \in Drive : Plug(n, d)
  BY <1>8, MoveFacts
<1> QED
  BY <1>2, <1>3, <1>4, <1>5, <1>6, <1>7, <1>8 DEF Next, Gui

-----------------------------------------------------------------------------
(* The dialogs.  As a dialog takes the input away, only the message at the *)
(* end of a write ever comes over another one, and never over a question.  *)

Plain    == {"file", "about", "noWimlib"}
Question == {"hybrid", "confirm"}
End      == {"success", "failure"}

Stacks == {<<>>} \cup {<<d>> : d \in MW!Dialog} \cup {<<e, p>> : e \in End, p \in Plain}

(* What the user sees.                                                     *)
top == IF dialogs = <<>> THEN "window" ELSE Head(dialogs)

(* A reference of startWrite is to an entry that was offered.              *)
Asked == [entry : Offered, stale : BOOLEAN, named : Offered \cup {None}]

Backend == {"none", "asking", "own", "root", "notStarted", "ok", "failed", "finished"}

(* A question is open exactly while startWrite refers to a drive, and then *)
(* nothing is written; it names the drive referred to, unless the list has *)
(* been replaced.                                                          *)
AskInv ==
  /\ dialogs \in Stacks
  /\ asked \in Asked \cup {None}
  /\ asked # None <=> top \in Question
  /\ top = "confirm" => asked.named # None
  /\ (asked # None /\ ~asked.stale) => asked.named \in {asked.entry, None}
  /\ backend = "finished" <=> top \in End
  /\ top \in Question => backend = "none" /\ file # None
  /\ isWriting <=> backend \notin {"none", "finished"}
  /\ startBtn => ~isWriting
  /\ backend \in Backend

(* A dialog opens over the window, or the end of a write is told.          *)
LEMMA StackOpen ==
  ASSUME NEW s \in Stacks, NEW d \in MW!Dialog,
         s = <<>> \/ (d \in End /\ Head(s) \in Plain)
  PROVE  <<d>> \o s \in Stacks /\ <<d>> \o s # <<>> /\ Head(<<d>> \o s) = d
<1>1. CASE s = <<>>
  <2>1. <<d>> \o s = <<d>>
    BY <1>1
  <2> QED
    BY <2>1 DEF Stacks
<1>2. CASE s # <<>> /\ d \in End /\ Head(s) \in Plain
  <2>1. PICK p \in Plain : s = <<p>>
    BY <1>2 DEF Stacks, End, Plain
  <2>2. <<d>> \o s = <<d, p>>
    <3> DEFINE t == <<d>> \o <<p>>
    <3>1. <<d>> \in Seq({d, p}) /\ <<p>> \in Seq({d, p})
      OBVIOUS
    <3>2. t \in Seq({d, p}) /\ Len(t) = 2 /\ t[1] = d /\ t[2] = p
      BY <3>1
    <3> HIDE DEF t
    <3>3. t = <<d, p>>
      BY <3>2
    <3> QED
      BY <2>1, <3>3 DEF t
  <2> QED
    BY <1>2, <2>1, <2>2 DEF Stacks
<1> QED
  BY <1>1, <1>2

(* Closing a dialog uncovers the window, or a plain dialog.                *)
LEMMA StackClose ==
  ASSUME NEW s \in Stacks, s # <<>>
  PROVE  /\ Tail(s) \in Stacks /\ Head(s) \in MW!Dialog
         /\ Tail(s) # <<>> => Head(s) \in End /\ Head(Tail(s)) \in Plain
<1>1. CASE \E d \in MW!Dialog : s = <<d>>
  <2>1. PICK d \in MW!Dialog : s = <<d>>
    BY <1>1
  <2>2. Tail(s) = <<>> /\ Head(s) = d
    BY <2>1
  <2> QED
    BY <2>1, <2>2 DEF Stacks
<1>2. CASE \E e \in End, p \in Plain : s = <<e, p>>
  <2>1. PICK e \in End, p \in Plain : s = <<e, p>>
    BY <1>2
  <2>2. Tail(s) = <<p>> /\ Head(s) = e /\ Head(<<p>>) = p
    BY <2>1
  <2>3. p \in MW!Dialog /\ e \in MW!Dialog
    BY DEF Plain, End, MW!Dialog
  <2> QED
    BY <2>1, <2>2, <2>3 DEF Stacks
<1> QED
  BY <1>1, <1>2 DEF Stacks

(* What is not about a dialog leaves them alone, or moves the backend on.  *)
LEMMA BackendKeeps ==
  ASSUME AskInv, UNCHANGED <<dialogs, isWriting>>,
         startBtn' => ~isWriting', file # None => file' # None,
         \/ asked' = asked
         \/ asked # None /\ asked' = [asked EXCEPT !.stale = TRUE],
         \/ backend' = backend
         \/ /\ backend \notin {"none", "finished"}
            /\ backend' \in {"asking", "own", "root", "notStarted", "ok", "failed"}
  PROVE  AskInv'
<1>1. top' = top
  BY DEF top
<1>2. CASE asked' = asked
  BY <1>1, <1>2 DEF AskInv, Backend
<1>3. CASE asked # None /\ asked' = [asked EXCEPT !.stale = TRUE]
  <2>1. asked \in Asked
    BY <1>3 DEF AskInv
  <2>2. asked' \in Asked /\ asked'.named = asked.named /\ asked'.stale
    BY <1>3, <2>1 DEF Asked
  <2>3. asked' # None
    <3>1. Asked \subseteq MW!Reference
      BY DEF Asked, Offered, MW!Reference
    <3> QED
      BY <2>2, <3>1, LufusAssumption
  <2> QED
    BY <1>1, <1>3, <2>2, <2>3 DEF AskInv, Backend
<1> QED
  BY <1>2, <1>3

(* A dialog that asks for nothing opens where the window has the input.    *)
LEMMA PlainOpens ==
  ASSUME AskInv, dialogs = <<>>, NEW d \in Plain, MW!Open(d),
         UNCHANGED <<asked, backend, isWriting, startBtn, file>>
  PROVE  AskInv'
<1>1. d \in MW!Dialog /\ dialogs \in Stacks
  BY DEF Plain, MW!Dialog, AskInv
<1>2. dialogs' \in Stacks /\ dialogs' # <<>> /\ Head(dialogs') = d
  BY <1>1, StackOpen DEF MW!Open
<1>3. top' = d /\ top = "window"
  BY <1>2 DEF top
<1> QED
  BY <1>2, <1>3 DEF AskInv, Plain, Question, End, Backend

(* A question opens, or the remark that a program is missing.              *)
LEMMA QuestionOpens ==
  ASSUME AskInv, NEW d \in {"hybrid", "confirm", "noWimlib"}, dialogs' = <<d>>,
         backend = "none", file # None,
         UNCHANGED <<backend, isWriting, startBtn, file>>,
         asked' \in Asked \cup {None}, asked' # None <=> d \in Question,
         d = "confirm" => asked'.named # None,
         (asked' # None /\ ~asked'.stale) => asked'.named \in {asked'.entry, None}
  PROVE  AskInv'
<1>1. dialogs' \in Stacks /\ top' = d
  BY DEF Stacks, top, MW!Dialog
<1> QED
  BY <1>1 DEF AskInv, Question, End, Backend

(* A dialog is closed, after an answer or without one.                     *)
LEMMA DialogCloses ==
  ASSUME AskInv, NEW d \in MW!Dialog, MW!Answer(d), dialogs' = Tail(dialogs), asked' = None,
         UNCHANGED file,
         backend' \in Backend \ {"finished"},
         isWriting' <=> backend' # "none", startBtn' => ~isWriting'
  PROVE  AskInv'
<1>1. dialogs # <<>> /\ dialogs \in Stacks
  BY DEF MW!Answer, AskInv
<1>2. dialogs' \in Stacks /\ top' \in Plain \cup {"window"}
  BY <1>1, StackClose DEF top
<1> QED
  BY <1>2 DEF AskInv, Plain, Question, End

(* What startWrite and the answer to its first question have in common.    *)
LEMMA AskKeeps ==
  ASSUME HotInv, AskInv, NEW dev \in Asked, MW!AskToConfirm(dev, <<>>),
         backend = "none", file # None,
         UNCHANGED <<backend, isWriting, startBtn, file>>
  PROVE  AskInv'
<1>1. CASE dialogs' = <<"confirm">> \o <<>> /\ \E e \in MW!DevRead(dev) : asked' = [dev EXCEPT !.named = e]
  <2>1. PICK e \in MW!DevRead(dev) : asked' = [dev EXCEPT !.named = e]
    BY <1>1
  <2>2. e \in Offered /\ (~dev.stale => e = dev.entry)
    BY <2>1 DEF MW!DevRead, MW!Range, HotInv, Asked
  <2>3. /\ asked' \in Asked /\ asked'.named = e
        /\ asked'.entry = dev.entry /\ asked'.stale = dev.stale
    BY <2>1, <2>2 DEF Asked
  <2>4. asked' # None /\ e # None
    <3>1. Asked \subseteq MW!Reference /\ Offered \subseteq DM!Entry
      BY DEF Asked, Offered, MW!Reference
    <3> QED
      BY <2>2, <2>3, <3>1, LufusAssumption
  <2>5. dialogs' = <<"confirm">>
    BY <1>1
  <2> QED
    BY <2>2, <2>3, <2>4, <2>5, QuestionOpens DEF Question
<1>2. CASE dialogs' = <<"noWimlib">> \o <<>> /\ asked' = None
  <2>1. dialogs' = <<"noWimlib">>
    BY <1>2
  <2> QED
    BY <1>2, <2>1, QuestionOpens DEF Question
<1> QED
  BY <1>1, <1>2 DEF MW!AskToConfirm

(* Files are those picked, and only a file can be found to be an image.    *)
FileInv ==
  /\ \A job \in jobs : job[2] \in DOMAIN Analyses
  /\ file \in DOMAIN Analyses \cup {None}
  /\ file = None => ~analysis.isValid

(* What is open, and what was picked.                                      *)
DialogInv == HotInv /\ AskInv /\ FileInv

askVars == <<dialogs, asked, backend, isWriting, startBtn, file, analysis, jobs>>

HandEdit ==
  \/ MW!onWriteModeChanged \/ MW!onPartitionSchemeChanged \/ MW!onTargetSystemChanged
  \/ MW!onFileSystemChanged \/ MW!labelEdited

(* START, pressed.                                                         *)
LEMMA StartKeeps ==
  ASSUME DialogInv, MW!startWrite
  PROVE  AskInv' /\ FileInv'
<1>1. /\ dialogs = <<>> /\ devices \in Seq(Offered) /\ combo \in DOMAIN devices
      /\ startBtn /\ analysis.isValid
      /\ UNCHANGED <<backend, isWriting, startBtn, file, analysis, jobs>>
  BY DEF MW!startWrite, MW!Input, DialogInv, HotInv
<1>2. backend = "none" /\ file # None
  <2>1. top = "window"
    BY <1>1 DEF top
  <2> QED
    BY <1>1, <2>1 DEF DialogInv, AskInv, FileInv, End
<1> DEFINE dev == [entry |-> devices[combo], stale |-> FALSE, named |-> None]
<1>3. dev \in Asked /\ dev # None /\ dev.named = None
  <2>1. devices[combo] \in Offered
    BY <1>1
  <2>2. dev \in Asked
    BY <2>1 DEF Asked
  <2>3. Asked \subseteq MW!Reference
    BY DEF Asked, Offered, MW!Reference
  <2> QED
    BY <2>2, <2>3, LufusAssumption
<1>4. (MW!Open("hybrid") /\ asked' = dev) \/ MW!AskToConfirm(dev, dialogs)
  BY DEF MW!startWrite
<1> HIDE DEF dev
<1>5. AskInv'
  <2>1. CASE MW!Open("hybrid") /\ asked' = dev
    <3>1. dialogs' = <<"hybrid">>
      BY <1>1, <2>1 DEF MW!Open
    <3> QED
      BY <1>1, <1>2, <1>3, <2>1, <3>1, QuestionOpens DEF Question, DialogInv
  <2>2. CASE MW!AskToConfirm(dev, dialogs)
    BY <1>1, <1>2, <1>3, <2>2, AskKeeps DEF DialogInv
  <2> QED
    BY <1>4, <2>1, <2>2
<1> QED
  BY <1>1, <1>5 DEF DialogInv, FileInv

(* The answer to the first question asks the second, or ends startWrite.   *)
LEMMA HybridKeeps ==
  ASSUME DialogInv, MW!hybridAnswered
  PROVE  AskInv' /\ FileInv'
<1>1. /\ MW!Answer("hybrid") /\ UNCHANGED <<backend, isWriting, startBtn, file, analysis, jobs>>
      /\ \/ MW!AskToConfirm(asked, Tail(dialogs))
         \/ dialogs' = Tail(dialogs) /\ asked' = None
  BY DEF MW!hybridAnswered
<1>2. dialogs # <<>> /\ Head(dialogs) = "hybrid" /\ top = "hybrid" /\ dialogs \in Stacks
  BY <1>1 DEF MW!Answer, top, DialogInv, AskInv
<1>3. Tail(dialogs) = <<>>
  BY <1>2, StackClose DEF End
<1>4. asked \in Asked /\ backend = "none" /\ file # None /\ ~isWriting
  BY <1>2 DEF DialogInv, AskInv, Question
<1>5. CASE MW!AskToConfirm(asked, Tail(dialogs))
  BY <1>1, <1>3, <1>4, <1>5, AskKeeps DEF DialogInv, FileInv
<1>6. CASE dialogs' = Tail(dialogs) /\ asked' = None
  <2>1. backend' \in Backend \ {"finished"} /\ (isWriting' <=> backend' # "none")
    BY <1>1, <1>4 DEF Backend
  <2> QED
    BY <1>1, <1>4, <1>6, <2>1, DialogCloses DEF DialogInv, FileInv, MW!Dialog
<1> QED
  BY <1>1, <1>5, <1>6

(* The answer to the second starts a backend, or ends startWrite.          *)
LEMMA ConfirmKeeps ==
  ASSUME DialogInv, MW!confirmAnswered
  PROVE  /\ AskInv' /\ FileInv' /\ dialogs' = <<>>
         /\ asked \in Asked /\ asked.named \in Offered /\ ~isWriting /\ file \in DOMAIN Analyses
<1>1. /\ MW!Answer("confirm") /\ UNCHANGED <<file, analysis, jobs>>
      /\ dialogs' = Tail(dialogs) /\ asked' = None
      /\ \/ UNCHANGED <<backend, isWriting, startBtn>>
         \/ isWriting' = TRUE /\ startBtn' = FALSE /\ backend' \in {"asking", "own", "notStarted"}
  BY DEF MW!confirmAnswered
<1>2. dialogs # <<>> /\ Head(dialogs) = "confirm" /\ top = "confirm" /\ dialogs \in Stacks
  BY <1>1 DEF MW!Answer, top, DialogInv, AskInv
<1>3. Tail(dialogs) = <<>>
  BY <1>2, StackClose DEF End
<1>4. /\ asked \in Asked /\ backend = "none" /\ ~isWriting
      /\ asked.named # None /\ file \in DOMAIN Analyses
  BY <1>2 DEF DialogInv, AskInv, FileInv, Question
<1>5. /\ backend' \in Backend \ {"finished"} /\ (isWriting' <=> backend' # "none")
      /\ startBtn' => ~isWriting'
  BY <1>1, <1>4 DEF Backend
<1>6. AskInv'
  BY <1>1, <1>5, DialogCloses DEF DialogInv, MW!Dialog
<1> QED
  BY <1>1, <1>3, <1>4, <1>6 DEF DialogInv, FileInv, Asked

(* The end of a write may be told over a dialog, but not over a question.  *)
LEMMA CompletedKeeps ==
  ASSUME DialogInv, MW!onWriteCompleted
  PROVE  /\ AskInv' /\ FileInv'
         /\ top' = IF backend = "ok" THEN "success" ELSE "failure"
<1> DEFINE d == IF backend = "ok" THEN "success" ELSE "failure"
<1>1. /\ backend \in {"ok", "failed"} /\ backend' = "finished" /\ isWriting' = FALSE
      /\ dialogs' = <<d>> \o dialogs /\ UNCHANGED <<asked, file, analysis, jobs>>
  BY DEF MW!onWriteCompleted, MW!Open
<1>2. d \in End /\ d \in MW!Dialog
  BY DEF End, MW!Dialog
<1> HIDE DEF d
<1>3. top \notin Question /\ top \notin End /\ asked = None /\ dialogs \in Stacks
  BY <1>1 DEF DialogInv, AskInv
<1>4. dialogs = <<>> \/ Head(dialogs) \in Plain
  BY <1>3, StackClose DEF top, Question, End, Plain, MW!Dialog
<1>5. dialogs' \in Stacks /\ top' = d
  BY <1>1, <1>2, <1>3, <1>4, StackOpen DEF top
<1>6. AskInv'
  BY <1>1, <1>2, <1>3, <1>5 DEF AskInv, Backend, End, Question
<1> QED
  BY <1>1, <1>5, <1>6 DEF DialogInv, FileInv, d

(* What neither opens nor closes a dialog, nor ends a write.               *)
Aside ==
  \/ refreshDevices \/ devicesChanged \/ HandEdit
  \/ MW!onDeviceSelected \/ MW!onIsoAnalyzed \/ MW!Crash \/ MW!waitTimesOut
  \/ MW!pkexecAnswered \/ MW!cancelWrite \/ MW!closeWindow

Around == Aside \/ MW!backendEnds

(* It enables START only when nothing is written, and moves the backend    *)
(* on without letting go of it.                                            *)
LEMMA AroundKeeps ==
  ASSUME DialogInv, Around
  PROVE  AskInv' /\ FileInv' /\ UNCHANGED dialogs
<1>1. /\ UNCHANGED <<dialogs, isWriting>>
      /\ \/ startBtn' = startBtn
         \/ \E devs, a : startBtn' = MW!canStart(devs, a)
  BY DEF Around, Aside, HandEdit, refreshDevices, devicesChanged, MW!refreshDevices, MW!onDevicesChanged,
         MW!updateStartButtonState, MW!Edit, MW!onWriteModeChanged,
         MW!onPartitionSchemeChanged, MW!onTargetSystemChanged, MW!onFileSystemChanged,
         MW!labelEdited, MW!onDeviceSelected, MW!onIsoAnalyzed, MW!Crash, MW!waitTimesOut,
         MW!pkexecAnswered, MW!backendEnds, MW!cancelWrite, MW!closeWindow
<1>2. startBtn' => ~isWriting'
  BY <1>1 DEF DialogInv, AskInv, MW!canStart
<1>3. \/ backend' = backend
      \/ /\ backend \notin {"none", "finished"}
         /\ backend' \in {"asking", "own", "root", "notStarted", "ok", "failed"}
  BY DEF Around, Aside, HandEdit, refreshDevices, devicesChanged, MW!refreshDevices, MW!onDevicesChanged,
         MW!Edit, MW!onWriteModeChanged,
         MW!onPartitionSchemeChanged, MW!onTargetSystemChanged, MW!onFileSystemChanged,
         MW!labelEdited, MW!onDeviceSelected, MW!onIsoAnalyzed, MW!Crash, MW!waitTimesOut,
         MW!pkexecAnswered, MW!backendEnds, MW!cancelWrite, MW!closeWindow, MW!Killed
<1>4. \/ asked' = asked
      \/ asked # None /\ asked' = [asked EXCEPT !.stale = TRUE]
  BY DEF Around, Aside, HandEdit, refreshDevices, devicesChanged, MW!refreshDevices, MW!onDevicesChanged,
         MW!Edit, MW!onWriteModeChanged,
         MW!onPartitionSchemeChanged, MW!onTargetSystemChanged, MW!onFileSystemChanged,
         MW!labelEdited, MW!onDeviceSelected, MW!onIsoAnalyzed, MW!Crash, MW!waitTimesOut,
         MW!pkexecAnswered, MW!backendEnds, MW!cancelWrite, MW!closeWindow
<1>5. FileInv' /\ (file # None => file' # None)
  <2>1. CASE MW!onIsoAnalyzed
    <3>1. PICK job \in jobs : \E a \in Analyses[job[2]] :
            jobs' = jobs \ {job} /\ file' = job[2] /\ analysis' = a
      BY <2>1 DEF MW!onIsoAnalyzed, MW!Taken
    <3>2. job[2] \in DOMAIN Analyses /\ None \notin DOMAIN Analyses
      BY <3>1, LufusAssumption DEF DialogInv, FileInv
    <3> QED
      BY <3>1, <3>2 DEF DialogInv, FileInv
  <2>2. CASE UNCHANGED <<file, analysis, jobs>>
    BY <2>2 DEF DialogInv, FileInv
  <2>3. MW!onIsoAnalyzed \/ UNCHANGED <<file, analysis, jobs>>
    BY DEF Around, Aside, HandEdit, refreshDevices, devicesChanged, MW!refreshDevices, MW!onDevicesChanged,
         MW!Edit, MW!onWriteModeChanged,
         MW!onPartitionSchemeChanged, MW!onTargetSystemChanged, MW!onFileSystemChanged,
         MW!labelEdited, MW!onDeviceSelected, MW!Crash, MW!waitTimesOut,
         MW!pkexecAnswered, MW!backendEnds, MW!cancelWrite, MW!closeWindow
  <2> QED
    BY <2>1, <2>2, <2>3
<1>6. AskInv'
  BY <1>1, <1>2, <1>3, <1>4, <1>5, BackendKeeps DEF DialogInv
<1> QED
  BY <1>1, <1>5, <1>6

(* A dialog that is only closed, or chooses a file.                        *)
LEMMA ClosingKeeps ==
  ASSUME DialogInv, MW!fileChosen \/ MW!dialogClosed \/ MW!completionRead
  PROVE  /\ AskInv' /\ FileInv' /\ top' # "success"
<1>1. PICK d \in {"file", "about", "noWimlib", "success", "failure"} :
        /\ MW!Answer(d) /\ dialogs' = Tail(dialogs)
        /\ UNCHANGED <<asked, isWriting, startBtn, file, analysis>>
        /\ IF d \in End THEN backend' = "none" ELSE backend' = backend
  BY DEF MW!fileChosen, MW!dialogClosed, MW!completionRead, End
<1>2. /\ dialogs # <<>> /\ Head(dialogs) = d /\ top = d /\ dialogs \in Stacks
      /\ d \in MW!Dialog /\ d \notin Question
  BY <1>1 DEF MW!Answer, top, DialogInv, AskInv, Question, MW!Dialog
<1>3. asked = None /\ (d \in End <=> backend = "finished") /\ backend \in Backend
  BY <1>2 DEF DialogInv, AskInv
<1>4. backend' \in Backend \ {"finished"} /\ (isWriting' <=> backend' # "none") /\ (startBtn' => ~isWriting')
  BY <1>1, <1>3 DEF DialogInv, AskInv, Backend
<1>5. AskInv'
  BY <1>1, <1>2, <1>3, <1>4, DialogCloses DEF DialogInv
<1>6. FileInv'
  <2>1. \A job \in jobs' : job \in jobs \/ job[2] \in DOMAIN Analyses
    BY DEF MW!fileChosen, MW!dialogClosed, MW!completionRead, MW!ImageFile
  <2> QED
    BY <1>1, <2>1 DEF DialogInv, FileInv
<1>7. top' \in Plain \cup {"window"}
  BY <1>1, <1>2, StackClose DEF top
<1> QED
  BY <1>5, <1>6, <1>7 DEF Plain

(* No drive, no image, nothing to answer.                                  *)
LEMMA DialogInit == Init => DialogInv
<1> SUFFICES ASSUME Init PROVE DialogInv
  OBVIOUS
<1>1. dialogs = <<>> /\ asked = None /\ backend = "none" /\ ~isWriting /\ ~startBtn
  BY DEF Init, MW!MWInit
<1>2. jobs = {} /\ file = None /\ ~analysis.isValid
  BY DEF Init, MW!MWInit, MW!NoAnalysis
<1>3. AskInv
  BY <1>1 DEF AskInv, Stacks, top, Question, End, Backend
<1> QED
  BY <1>2, <1>3, HotInit DEF DialogInv, FileInv

(* The window's steps, one by one.                                         *)
LEMMA DialogNext == DialogInv /\ [Next]_vars => DialogInv'
<1> SUFFICES ASSUME DialogInv, [Next]_vars PROVE DialogInv'
  OBVIOUS
<1>1. HotInv'
  BY HotNext DEF DialogInv
<1>2. CASE Around
  BY <1>1, <1>2, AroundKeeps DEF DialogInv
<1>3. CASE UNCHANGED askVars
  BY <1>1, <1>3 DEF askVars, DialogInv, AskInv, FileInv, top
<1>4. CASE MW!browseIso \/ MW!showAbout
  <2>1. /\ dialogs = <<>>
        /\ MW!Open("file") \/ MW!Open("about")
        /\ UNCHANGED <<asked, backend, isWriting, startBtn, file, analysis, jobs>>
    BY <1>4 DEF MW!browseIso, MW!showAbout, MW!Input
  <2>2. AskInv'
    BY <2>1, PlainOpens DEF Plain, DialogInv
  <2> QED
    BY <1>1, <2>1, <2>2 DEF DialogInv, FileInv
<1>5. CASE MW!fileChosen \/ MW!dialogClosed \/ MW!completionRead
  BY <1>1, <1>5, ClosingKeeps DEF DialogInv
<1>6. CASE MW!startWrite
  BY <1>1, <1>6, StartKeeps DEF DialogInv
<1>7. CASE MW!hybridAnswered
  BY <1>1, <1>7, HybridKeeps DEF DialogInv
<1>8. CASE MW!confirmAnswered
  BY <1>1, <1>8, ConfirmKeeps DEF DialogInv
<1>9. CASE MW!onWriteCompleted
  BY <1>1, <1>9, CompletedKeeps DEF DialogInv
<1>10. CASE \/ startMonitoring \/ pollUdevMonitor \/ stopMonitoring \/ Destroy \/ Finish
            \/ \E n \in Node : Unplug(n) \/ \E d \in Drive : Plug(n, d)
  <2>1. UNCHANGED askVars
    BY <1>10 DEF askVars, startMonitoring, pollUdevMonitor, stopMonitoring, Destroy, Finish,
                 Holding, Unplug, Plug
  <2> QED
    BY <1>3, <2>1
<1>11. CASE UNCHANGED vars
  BY <1>3, <1>11 DEF askVars
<1>12. confirmAnswered \/ window =>
         \/ MW!confirmAnswered \/ Around \/ MW!browseIso \/ MW!showAbout \/ MW!fileChosen
         \/ MW!dialogClosed \/ MW!completionRead \/ MW!startWrite \/ MW!hybridAnswered
         \/ MW!onWriteCompleted
  BY DEF confirmAnswered, window, Slot, MW!User, MW!Events, Around, Aside, HandEdit
<1>13. refreshDevices \/ devicesChanged \/ backendEnds \/ pkexecAnswered => Around
  BY DEF backendEnds, pkexecAnswered, Around, Aside
<1> QED
  BY <1>2, <1>4, <1>5, <1>6, <1>7, <1>8, <1>9, <1>10, <1>11, <1>12, <1>13 DEF Next, Gui

-----------------------------------------------------------------------------
(* What was agreed to, what the configuration says, and what the drive     *)
(* holds.                                                                  *)

(* The agreement binds: the list was left alone, and the drive its node.   *)
Firm == agreed.stays /\ agreed.quiet

RequestInv ==
  request # None =>
    /\ agreed # None /\ request.isoPath = agreed.image
    /\ request.deviceNode \in Node \ {RootName}
    /\ Firm => attached[request.deviceNode] = agreed.drive

OutcomeInv ==
  (finished /\ request # None) \/ backend = "ok" \/ top = "success" =>
    agreed # None /\ (Firm => holds[agreed.drive] = agreed.image)

WriteInv ==
  /\ agreed \in Agreement \cup {None} /\ finished \in BOOLEAN
  /\ DOMAIN holds = Drive
  /\ RequestInv /\ OutcomeInv

(* "Yes" makes an agreement on the drive that is then asked for.           *)
LEMMA ConsentKeeps ==
  ASSUME DialogInv, WriteInv, confirmAnswered
  PROVE  WriteInv'
<1>1. MW!confirmAnswered /\ UNCHANGED <<attached, holds>>
  BY DEF confirmAnswered, Slot
<1>2. /\ top' = "window" /\ asked \in Asked /\ asked.named \in Offered
      /\ ~isWriting /\ file \in DOMAIN Analyses
  BY <1>1, ConfirmKeeps DEF top
<1>3. top = "confirm"
  BY <1>1 DEF MW!confirmAnswered, MW!Answer, top
<1>4. CASE UNCHANGED <<isWriting, request, backend>>
  <2>1. agreed' = agreed /\ finished' = finished
    BY <1>2, <1>4 DEF confirmAnswered
  <2> QED
    BY <1>1, <1>2, <1>4, <2>1 DEF WriteInv, RequestInv, OutcomeInv, Firm
<1>5. CASE /\ isWriting' = TRUE
           /\ request' = None \/ \E e \in MW!DevRead(asked) : request' = MW!WriteConfig(e)
           /\ backend' \in {"asking", "own", "notStarted"}
  <2>1. agreed' = Consent /\ finished' = FALSE
    BY <1>2, <1>5 DEF confirmAnswered
  <2>2. /\ asked.named.node \in Node /\ asked.named.drive \in Drive
        /\ asked.stale \in BOOLEAN /\ asked.entry \in Offered
    BY <1>2 DEF Asked, Offered, DM!Entry, Drive, DM!Drive
  <2>3. /\ agreed' \in Agreement /\ agreed' # None
        /\ agreed'.drive = asked.named.drive /\ agreed'.image = file
        /\ agreed'.quiet = ~asked.stale
        /\ agreed'.stays = (attached[asked.named.node] = asked.named.drive)
    <3>1. Consent \in Agreement
      BY <1>2, <2>2 DEF Consent, Agreement
    <3> QED
      BY <2>1, <3>1, LufusAssumption DEF Consent
  <2>4. ASSUME NEW e \in MW!DevRead(asked), request' = MW!WriteConfig(e)
        PROVE  RequestInv'
    <3>1. e \in Offered /\ (~asked.stale => e = asked.entry)
      BY <2>2, <2>4 DEF MW!DevRead, MW!Range, DialogInv, HotInv
    <3>2. request'.deviceNode = e.node /\ request'.isoPath = file
      BY <2>4 DEF MW!WriteConfig, MW!Config, MW!isoPath
    <3>3. e.node \in Node \ {RootName}
      BY <3>1 DEF Offered, DM!Entry
    <3>4. ~asked.stale => e = asked.named
      <4>1. asked # None
        BY <1>3 DEF DialogInv, AskInv, Question
      <4> QED
        BY <1>3, <3>1, <4>1 DEF DialogInv, AskInv
    <3>5. Firm' => attached'[e.node] = agreed'.drive
      BY <1>1, <2>3, <3>4 DEF Firm
    <3> QED
      BY <2>3, <3>2, <3>3, <3>5 DEF RequestInv
  <2>5. RequestInv'
    BY <1>5, <2>4 DEF RequestInv
  <2>6. OutcomeInv'
    BY <1>2, <1>5, <2>1 DEF OutcomeInv
  <2> QED
    BY <1>1, <2>1, <2>3, <2>5, <2>6 DEF WriteInv
<1>6. \/ UNCHANGED <<isWriting, request, backend>>
      \/ /\ isWriting' = TRUE
         /\ request' = None \/ \E e \in MW!DevRead(asked) : request' = MW!WriteConfig(e)
         /\ backend' \in {"asking", "own", "notStarted"}
  BY <1>1 DEF MW!confirmAnswered
<1> QED
  BY <1>4, <1>5, <1>6

(* A drive that is pulled out is no longer where it was agreed to be.      *)
LEMMA HandsKeep ==
  ASSUME DialogInv, WriteInv, NEW n \in Node, Unplug(n) \/ \E d \in Drive : Plug(n, d)
  PROVE  WriteInv'
<1>1. /\ UNCHANGED <<windowVars, holds, finished>> /\ \A o \in Node : o # n => attached'[o] = attached[o]
  BY MoveFacts DEF DialogInv, Unplug, Plug
<1>2. top' = top
  BY <1>1 DEF top
<1>3. agreed \in Agreement \cup {None} /\ None \notin Agreement /\ None \notin Drive
  BY LufusAssumption DEF WriteInv
<1>4. CASE Unplug(n) /\ agreed # None /\ agreed.drive = attached[n]
  <2>1. agreed' = [agreed EXCEPT !.stays = FALSE]
    BY <1>4 DEF Unplug
  <2>2. /\ agreed' \in Agreement /\ agreed' # None /\ ~Firm' /\ agreed'.image = agreed.image
    BY <1>3, <1>4, <2>1 DEF Agreement, Firm
  <2> QED
    BY <1>1, <1>2, <2>2 DEF WriteInv, RequestInv, OutcomeInv
<1>5. CASE agreed' = agreed /\ (agreed = None \/ agreed.drive # attached[n])
  <2>1. RequestInv'
    <3>1. ASSUME request # None, Firm PROVE request.deviceNode # n
      BY <1>5, <3>1 DEF WriteInv, RequestInv
    <3> QED
      BY <1>1, <1>5, <3>1 DEF WriteInv, RequestInv, Firm
  <2> QED
    BY <1>1, <1>2, <1>5, <2>1 DEF WriteInv, OutcomeInv, Firm
<1>6. ASSUME NEW d \in Drive, Plug(n, d)
      PROVE  agreed' = agreed /\ (agreed = None \/ agreed.drive # attached[n])
  <2>1. agreed' = agreed /\ attached[n] = None
    BY <1>6 DEF Plug, DM!Plug
  <2>2. agreed # None => agreed.drive \in Drive
    BY <1>3 DEF Agreement
  <2> QED
    BY <1>3, <2>1, <2>2
<1>7. Unplug(n) => \/ agreed # None /\ agreed.drive = attached[n]
                   \/ agreed' = agreed /\ (agreed = None \/ agreed.drive # attached[n])
  BY DEF Unplug
<1> QED
  BY <1>4, <1>5, <1>6, <1>7

(* The backend's steps.                                                    *)
LEMMA BackendWrites ==
  ASSUME DialogInv, WriteInv, Destroy \/ Finish \/ backendEnds
  PROVE  WriteInv'
<1>1. CASE Destroy \/ Finish
  <2>1. /\ backend \in {"own", "root"} /\ request # None /\ ~finished
        /\ UNCHANGED <<attached, windowVars, agreed>>
    BY <1>1 DEF Destroy, Finish, Running, Holding
  <2>2. top # "success" /\ top' = top
    BY <2>1 DEF DialogInv, AskInv, End, top
  <2>3. RequestInv' /\ DOMAIN holds' = Drive
    BY <1>1, <2>1 DEF WriteInv, RequestInv, Firm, Destroy, Finish, Holding
  <2>4. CASE Destroy
    <3>1. finished' = FALSE
      BY <2>1, <2>4 DEF Destroy, WriteInv
    <3> QED
      BY <2>1, <2>2, <2>3, <3>1 DEF WriteInv, OutcomeInv
  <2>5. CASE Finish
    <3>1. agreed # None /\ agreed.drive \in Drive /\ agreed.drive # None
      BY <2>1, LufusAssumption DEF WriteInv, RequestInv, Agreement
    <3>2. Firm => Written = agreed.drive
      BY <2>1 DEF WriteInv, RequestInv, Written
    <3>3. Firm => holds'[agreed.drive] = agreed.image
      BY <2>1, <2>5, <3>1, <3>2 DEF Finish, Holding, WriteInv, RequestInv
    <3>4. finished' \in BOOLEAN
      BY <2>5 DEF Finish
    <3> QED
      BY <2>1, <2>3, <3>1, <3>3, <3>4 DEF WriteInv, OutcomeInv, Firm
  <2> QED
    BY <1>1, <2>4, <2>5
<1>2. CASE backendEnds
  <2>1. /\ UNCHANGED <<attached, holds, finished, agreed, request, dialogs>>
        /\ backend \in {"own", "root"}
        /\ backend' = "ok" => finished /\ request # None
    BY <1>2 DEF backendEnds, MW!backendEnds
  <2>2. top' = top
    BY <2>1 DEF top
  <2> QED
    BY <2>1, <2>2 DEF WriteInv, RequestInv, OutcomeInv, Firm
<1> QED
  BY <1>1, <1>2

(* The end of a write is told as it was, and the configuration removed.    *)
LEMMA EndTold ==
  ASSUME DialogInv, WriteInv, MW!onWriteCompleted, UNCHANGED <<attached, holds, finished, agreed>>
  PROVE  WriteInv'
<1>1. /\ request' = None /\ backend' = "finished"
      /\ top' = IF backend = "ok" THEN "success" ELSE "failure"
  BY CompletedKeeps DEF MW!onWriteCompleted
<1> QED
  BY <1>1 DEF WriteInv, RequestInv, OutcomeInv, Firm

(* No other step makes a configuration, or a success.                      *)
LEMMA OtherKeeps ==
  ASSUME WriteInv, UNCHANGED <<attached, holds, finished, agreed, request>>,
         backend' = "ok" => backend = "ok", top' = "success" => top = "success"
  PROVE  WriteInv'
BY DEF WriteInv, RequestInv, OutcomeInv, Firm

(* At first nothing is agreed to, and every drive is the user's.           *)
LEMMA WriteInit == Init => WriteInv
<1> SUFFICES ASSUME Init PROVE WriteInv
  OBVIOUS
<1>1. request = None /\ backend = "none" /\ top = "window"
  BY DEF Init, MW!MWInit, top
<1> QED
  BY <1>1 DEF Init, WriteInv, RequestInv, OutcomeInv

(* All the steps.                                                          *)
LEMMA WriteNext == DialogInv /\ WriteInv /\ [Next]_vars => WriteInv'
<1> SUFFICES ASSUME DialogInv, WriteInv, [Next]_vars PROVE WriteInv'
  OBVIOUS
<1>1. CASE confirmAnswered
  BY <1>1, ConsentKeeps
<1>2. CASE Destroy \/ Finish \/ backendEnds
  BY <1>2, BackendWrites
<1>3. CASE \E n \in Node : Unplug(n) \/ \E d \in Drive : Plug(n, d)
  BY <1>3, HandsKeep
<1>4. ASSUME MW!onWriteCompleted, UNCHANGED <<attached, holds, finished, agreed>> PROVE WriteInv'
  BY <1>4, EndTold
<1>5. ASSUME UNCHANGED <<attached, holds, finished, agreed, request, backend, dialogs>> PROVE WriteInv'
  BY <1>5, OtherKeeps DEF top
<1>6. ASSUME UNCHANGED <<attached, holds, finished, agreed>>, Aside \/ MW!browseIso \/ MW!showAbout
      PROVE  WriteInv'
  <2>1. UNCHANGED request /\ (backend' = "ok" => backend = "ok")
    BY <1>6 DEF Around, Aside, HandEdit, refreshDevices, devicesChanged, MW!refreshDevices,
         MW!onDevicesChanged, MW!Edit, MW!onWriteModeChanged, MW!onPartitionSchemeChanged,
         MW!onTargetSystemChanged, MW!onFileSystemChanged, MW!labelEdited, MW!onDeviceSelected,
         MW!onIsoAnalyzed, MW!Crash, MW!waitTimesOut, MW!pkexecAnswered, MW!cancelWrite,
         MW!closeWindow, MW!Killed, MW!browseIso, MW!showAbout
  <2>2. top' = "success" => top = "success"
    <3>1. CASE Aside
      BY <3>1, AroundKeeps DEF Around, top
    <3>2. CASE MW!browseIso \/ MW!showAbout
      <4>1. /\ dialogs = <<>>
            /\ MW!Open("file") \/ MW!Open("about")
        BY <3>2 DEF MW!browseIso, MW!showAbout, MW!Input
      <4>2. "file" \in MW!Dialog /\ "about" \in MW!Dialog /\ dialogs \in Stacks
        BY DEF MW!Dialog, DialogInv, AskInv
      <4> QED
        BY <4>1, <4>2, StackOpen DEF MW!Open, top
    <3> QED
      BY <1>6, <3>1, <3>2
  <2> QED
    BY <1>6, <2>1, <2>2, OtherKeeps
<1>7. ASSUME UNCHANGED <<attached, holds, finished, agreed>>,
             \/ MW!fileChosen \/ MW!dialogClosed \/ MW!completionRead
             \/ MW!startWrite \/ MW!hybridAnswered
      PROVE  WriteInv'
  <2>1. UNCHANGED request /\ (backend' = "ok" => backend = "ok")
    BY <1>7 DEF MW!fileChosen, MW!dialogClosed, MW!completionRead, MW!startWrite, MW!hybridAnswered
  <2>2. top' = "success" => top = "success"
    <3>1. CASE MW!fileChosen \/ MW!dialogClosed \/ MW!completionRead
      BY <3>1, ClosingKeeps
    <3>2. CASE MW!startWrite \/ MW!hybridAnswered
      <4>1. AskInv' /\ UNCHANGED backend
        BY <3>2, StartKeeps, HybridKeeps DEF MW!startWrite, MW!hybridAnswered
      <4>2. backend = "none"
        <5>1. CASE MW!startWrite
          <6>1. ~isWriting /\ top = "window"
            BY <5>1 DEF MW!startWrite, MW!Input, top, DialogInv, AskInv
          <6> QED
            BY <6>1 DEF DialogInv, AskInv, End
        <5>2. CASE MW!hybridAnswered
          <6>1. top = "hybrid"
            BY <5>2 DEF MW!hybridAnswered, MW!Answer, top
          <6> QED
            BY <6>1 DEF DialogInv, AskInv, Question
        <5> QED
          BY <3>2, <5>1, <5>2
      <4> QED
        BY <4>1, <4>2 DEF AskInv, End
    <3> QED
      BY <1>7, <3>1, <3>2
  <2> QED
    BY <1>7, <2>1, <2>2, OtherKeeps
<1>8. CASE \/ startMonitoring \/ pollUdevMonitor \/ stopMonitoring \/ UNCHANGED vars
  <2>1. UNCHANGED <<attached, holds, finished, agreed, request, backend, dialogs>>
    BY <1>8 DEF startMonitoring, DM!startMonitoring, pollUdevMonitor, DM!pollUdevMonitor,
                stopMonitoring, DM!stopMonitoring
  <2> QED
    BY <1>5, <2>1
<1>9. CASE refreshDevices \/ devicesChanged \/ pkexecAnswered
  <2>1. UNCHANGED <<attached, holds, finished, agreed>>
    BY <1>9 DEF refreshDevices, DM!refreshDevices, DM!setShowFixedDrives, DM!scanDevices,
                devicesChanged, DM!pollReturns, pkexecAnswered
  <2>2. UNCHANGED <<request>> /\ (backend' = "ok" => backend = "ok")
    BY <1>9 DEF refreshDevices, devicesChanged, pkexecAnswered, MW!refreshDevices,
                MW!onDevicesChanged, MW!pkexecAnswered
  <2>3. Around
    BY <1>9 DEF Around, Aside, pkexecAnswered
  <2>4. UNCHANGED dialogs
    BY <2>3, AroundKeeps
  <2> QED
    BY <2>1, <2>2, <2>4, OtherKeeps DEF top
<1>10. CASE window
  <2>1. UNCHANGED <<attached, holds, finished, agreed>>
    BY <1>10 DEF window, Slot
  <2>2. \/ MW!onWriteCompleted
        \/ Aside \/ MW!browseIso \/ MW!showAbout
        \/ MW!fileChosen \/ MW!dialogClosed \/ MW!completionRead
        \/ MW!startWrite \/ MW!hybridAnswered
    BY <1>10 DEF window, Slot, MW!User, MW!Events, Aside, HandEdit
  <2> QED
    BY <1>4, <1>6, <1>7, <2>1, <2>2
<1> QED
  BY <1>1, <1>2, <1>3, <1>8, <1>9, <1>10 DEF Next, Gui

-----------------------------------------------------------------------------
(* The theorems.                                                           *)

(* A drive loses its content only if it is the one agreed on, provided the *)
(* agreement is firm: whatever else is plugged in or pulled out, whatever  *)
(* the list shows, and whatever dialogs are open.                          *)
THEOREM OnlyTheNamedDrive == Spec => OnlyTheNamedIfQuiet
<1>1. DialogInv /\ WriteInv /\ [Next]_vars =>
        [\A d \in Drive : (holds'[d] # holds[d] /\ agreed.stays /\ agreed.quiet) =>
           d = agreed.drive]_vars
  <2> SUFFICES ASSUME DialogInv, WriteInv, Next, NEW d \in Drive, holds'[d] # holds[d], Firm
               PROVE  d = agreed.drive
    BY DEF Firm
  <2>1. Destroy \/ Finish
    BY DEF Next, Gui, startMonitoring, refreshDevices, pollUdevMonitor, devicesChanged,
           stopMonitoring, confirmAnswered, window, Slot, backendEnds, pkexecAnswered, Plug, Unplug
  <2>2. request # None /\ \E content : holds' = [holds EXCEPT ![Written] = content]
    BY <2>1 DEF Destroy, Finish, Running, Holding
  <2>3. d = Written
    BY <2>2 DEF WriteInv
  <2> QED
    BY <2>2, <2>3 DEF WriteInv, RequestInv, Written
<1> QED
  BY <1>1, DialogInit, DialogNext, WriteInit, WriteNext, PTL DEF Spec, OnlyTheNamedIfQuiet

(* The success the user reads is of a write that came to its end: of the   *)
(* image that was chosen, to the drive that was named, as long as nobody   *)
(* has moved the drive.  Neither a cancelled write nor an earlier one is   *)
(* taken for it.  What such a write has put there is for DiskWriter to say.*)
THEOREM SuccessOfTheNamed == Spec => []SuccessIsTrue
<1>1. WriteInv => SuccessIsTrue
  BY DEF WriteInv, OutcomeInv, SuccessIsTrue, Firm, top
<1> QED
  BY <1>1, DialogInit, DialogNext, WriteInit, WriteNext, PTL DEF Spec

(* The disk of the running system is never written to, provided that       *)
(* /proc/mounts names it: no list has it, so no configuration can.         *)
THEOREM SystemDiskStays ==
  ASSUME RootName = Root
  PROVE  Spec => []SystemDiskKept
<1>1. Init => SystemDiskKept
  BY LufusAssumption DEF Init, DM!DMInit, SystemDiskKept, Drive, DM!Drive
<1>2. DialogInv /\ WriteInv /\ SystemDiskKept /\ [Next]_vars => SystemDiskKept'
  <2> SUFFICES ASSUME DialogInv, WriteInv, SystemDiskKept, [Next]_vars PROVE SystemDiskKept'
    OBVIOUS
  <2>1. CASE (Destroy \/ Finish) /\ Written # None
    <3>1. /\ request # None /\ Written # None /\ UNCHANGED attached
          /\ \E content : holds' = [holds EXCEPT ![Written] = content]
      BY <2>1 DEF Destroy, Finish, Running, Holding
    <3>2. request.deviceNode \in Node /\ request.deviceNode # Root
      BY <3>1 DEF WriteInv, RequestInv
    <3>3. Written # attached[Root]
      BY <3>1, <3>2, LufusAssumption DEF Written, DialogInv, HotInv
    <3>4. attached[Root] \in Drive
      BY LufusAssumption DEF DialogInv, HotInv
    <3>5. holds'[attached[Root]] = holds[attached[Root]]
      BY <3>1, <3>3, <3>4 DEF WriteInv
    <3> QED
      BY <3>1, <3>5 DEF SystemDiskKept
  <2>2. CASE \E n \in Node : Unplug(n) \/ \E d \in Drive : Plug(n, d)
    BY <2>2, MoveFacts, LufusAssumption DEF DialogInv, SystemDiskKept
  <2>3. CASE UNCHANGED <<attached, holds>>
    BY <2>3 DEF SystemDiskKept
  <2>4. \/ (Destroy \/ Finish) /\ Written # None
        \/ \E n \in Node : Unplug(n) \/ \E d \in Drive : Plug(n, d)
        \/ UNCHANGED <<attached, holds>>
    BY DEF Next, Gui, startMonitoring, DM!startMonitoring, refreshDevices, DM!refreshDevices,
           DM!setShowFixedDrives, DM!scanDevices, pollUdevMonitor, DM!pollUdevMonitor,
           devicesChanged, DM!pollReturns, stopMonitoring, DM!stopMonitoring, confirmAnswered,
           window, Slot, backendEnds, pkexecAnswered, Destroy, Finish, Holding
  <2> QED
    BY <2>1, <2>2, <2>3, <2>4
<1> QED
  BY <1>1, <1>2, DialogInit, DialogNext, WriteInit, WriteNext, PTL DEF Spec

-----------------------------------------------------------------------------
(* The parts in the whole.  A step of the program is a step of the list of *)
(* drives or leaves it alone, and a step of the window or leaves it alone: *)
(* what is proved of each of them by itself then holds of the program.     *)

(* The list of drives and the window, with what is proved of them.  The    *)
(* window may be handed any list of entries.                               *)
DP == INSTANCE DeviceManagerProofs WITH shown <- devices

W == INSTANCE MainWindowProofs WITH Entries <- DM!Entry, Lists <- Seq(DM!Entry)

USE DEF W!listVars, W!imageVars, W!formVars, W!buttonVars, W!writeVars, W!mwVars, DP!vars

(* The constants are as the list of drives assumes them.                   *)
LEMMA ListConstants == DP!DMAssumption
BY LufusAssumption DEF Drive, DP!Drive, DP!DMAssumption, IsFiniteSet, DP!IsFiniteSet

(* The constants are as the window assumes them.                           *)
LEMMA WindowConstants == W!MWAssumption
BY LufusAssumption DEF W!MWAssumption, W!ImageFile, W!Verdict, MW!Verdict, W!NoAnalysis,
                       MW!NoAnalysis, W!Trouble, MW!Trouble, W!Reference, MW!Reference,
                       W!Label, MW!Label, W!IsoType, MW!IsoType

(* A step of the program is a step of the list of drives, or leaves it     *)
(* alone.                                                                  *)
LEMMA ListOfWhole == [Next]_vars => [DP!DMNext]_DP!vars
<1> SUFFICES ASSUME [Next]_vars PROVE [DP!DMNext]_DP!vars
  OBVIOUS
<1>1. CASE startMonitoring
  BY <1>1 DEF startMonitoring, DM!startMonitoring, DP!startMonitoring, DP!DMNext, DP!Gui
<1>2. CASE refreshDevices
  BY <1>2 DEF refreshDevices, DM!refreshDevices, DP!refreshDevices, DM!setShowFixedDrives,
              DP!setShowFixedDrives, DP!DMNext, DP!Gui, DM!scanDevices, DP!scanDevices,
              DM!Orders, DP!Orders, DM!Listed, DP!Listed, DM!isUsbDevice, DP!isUsbDevice,
              DM!systemRootDisk, DP!systemRootDisk, DM!buildDeviceInfo,
              DP!buildDeviceInfo, DM!Cardinality, DP!Cardinality, DM!Range, DP!Range
<1>3. CASE pollUdevMonitor
  BY <1>3 DEF pollUdevMonitor, DM!pollUdevMonitor, DP!pollUdevMonitor, DP!DMNext, DP!Gui,
              DM!AfterEvent, DP!AfterEvent, DM!Accepted, DP!Accepted, DM!isUsbDevice,
              DP!isUsbDevice, DM!systemRootDisk, DP!systemRootDisk, DM!buildDeviceInfo,
              DP!buildDeviceInfo, DM!Without, DP!Without, DM!Kept, DP!Kept, DM!Of, DP!Of,
              DM!Orders, DP!Orders, DM!Cardinality, DP!Cardinality, DM!Range, DP!Range
<1>4. CASE devicesChanged
  BY <1>4 DEF devicesChanged, DM!pollReturns, DP!pollReturns, DM!Emitted, DP!Emitted,
              DP!DMNext, DP!Gui
<1>5. CASE stopMonitoring
  BY <1>5 DEF stopMonitoring, DM!stopMonitoring, DP!stopMonitoring, DP!DMNext, DP!Gui
<1>6. ASSUME NEW n \in Node, Unplug(n) PROVE DP!DMNext
  BY <1>6 DEF Unplug, DM!Unplug, DP!Unplug, DM!Move, DP!Move, DM!Queued, DP!Queued,
              DP!DMNext
<1>7. ASSUME NEW n \in Node, NEW d \in Drive, Plug(n, d) PROVE DP!DMNext
  BY <1>7 DEF Plug, DM!Plug, DP!Plug, DM!Move, DP!Move, DM!Queued, DP!Queued, DP!DMNext,
              DM!Range, DP!Range, Drive, DP!Drive
<1>8. CASE \/ confirmAnswered \/ window \/ backendEnds \/ pkexecAnswered
           \/ Destroy \/ Finish \/ UNCHANGED vars
  <2>1. UNCHANGED hotplugVars
    BY <1>8 DEF confirmAnswered, window, Slot, backendEnds, pkexecAnswered, Destroy,
                Finish, Holding
  <2>2. UNCHANGED devices
    BY <1>8, WindowKeepsList
       DEF confirmAnswered, window, Slot, backendEnds, pkexecAnswered, Destroy, Finish,
           Holding
  <2> QED
    BY <2>1, <2>2
<1> QED
  BY <1>1, <1>2, <1>3, <1>4, <1>5, <1>6, <1>7, <1>8 DEF Next, Gui

(* The invariants of the list of drives by itself.                         *)
ListInv == DP!TypeInv /\ DP!SettleInv

(* They hold at first.                                                     *)
LEMMA ListInit == Init => ListInv
<1>1. DM!DMInit => DP!DMInit
  BY DEF DM!DMInit, DP!DMInit, DM!Drive, DP!Drive
<1> QED
  BY <1>1, ListConstants, DP!TypeInit, DP!SettleInit DEF Init, ListInv

(* A step of the program keeps them, being a step of the list.             *)
LEMMA ListNext == ListInv /\ [Next]_vars => ListInv'
BY ListConstants, ListOfWhole, DP!TypeNext, DP!SettleNext DEF ListInv

(* The list a scan or an event leaves is one of entries.                   *)
LEMMA ListMeansNext == ListInv' => current' \in Seq(DM!Entry)
<1>1. DP!TypeInv' => DM!DMTypeOK'
  BY DEF DP!TypeInv, DP!DMTypeOK, DM!DMTypeOK, DP!Entry, DM!Entry, DP!Event, DM!Event,
         DP!Drive, DM!Drive
<1> QED
  BY <1>1 DEF ListInv, DM!DMTypeOK

(* They say that the list is a list of entries, and settles.               *)
LEMMA ListMeans == ListInv => DM!DMTypeOK /\ DM!Settled /\ current \in Seq(DM!Entry)
<1>1. DP!TypeInv => DM!DMTypeOK
  BY DEF DP!TypeInv, DP!DMTypeOK, DM!DMTypeOK, DP!Entry, DM!Entry, DP!Event, DM!Event,
         DP!Drive, DM!Drive
<1>2. DP!Settled => DM!Settled
  BY DEF DP!Settled, DM!Settled, DP!ListedRight, DM!ListedRight, DM!Listed, DP!Listed,
         DM!isUsbDevice, DP!isUsbDevice, DM!systemRootDisk, DP!systemRootDisk, DM!Range,
         DP!Range
<1> QED
  BY <1>1, <1>2, ListConstants, DP!SettleImplies DEF ListInv, DM!DMTypeOK

(* The window's slots are the same in the program as by themselves: those  *)
(* about the drives and the image,                                         *)
LEMMA SameSlots ==
  /\ \A devs : MW!refreshDevices(devs) => W!refreshDevices(devs)
  /\ \A devs : MW!onDevicesChanged(devs) => W!onDevicesChanged(devs)
  /\ MW!onDeviceSelected => W!onDeviceSelected
  /\ MW!browseIso => W!browseIso
  /\ MW!fileChosen => W!fileChosen
  /\ MW!onIsoAnalyzed => W!onIsoAnalyzed
BY DEF MW!EventLoop, W!EventLoop, MW!Input, W!Input, MW!Answer, W!Answer, MW!Open, W!Open,
       MW!updateStartButtonState, W!updateStartButtonState, MW!canStart, W!canStart,
       MW!refreshDevices, W!refreshDevices, MW!onDevicesChanged, W!onDevicesChanged,
       MW!onDeviceSelected, W!onDeviceSelected, MW!browseIso, W!browseIso, MW!fileChosen,
       W!fileChosen, MW!ImageFile, W!ImageFile, MW!onIsoAnalyzed, W!onIsoAnalyzed,
       MW!Taken, W!Taken, MW!autoConfigureForIso, W!autoConfigureForIso, MW!SetLabel,
       W!SetLabel, MW!FsForm, W!FsForm, MW!SetFs, W!SetFs, MW!sanitizeVolumeLabel,
       W!sanitizeVolumeLabel, MW!fat32Blocked, W!fat32Blocked, MW!isWindowsIso,
       W!isWindowsIso, MW!BootForm, W!BootForm, MW!Scheme, W!Scheme

(* those about the form,                                                   *)
LEMMA SameEdits ==
  /\ MW!onWriteModeChanged => W!onWriteModeChanged
  /\ MW!onPartitionSchemeChanged => W!onPartitionSchemeChanged
  /\ MW!onTargetSystemChanged => W!onTargetSystemChanged
  /\ MW!onFileSystemChanged => W!onFileSystemChanged
  /\ MW!labelEdited => W!labelEdited
BY DEF MW!Input, W!Input, MW!Edit, W!Edit, MW!updateStartButtonState,
       W!updateStartButtonState, MW!canStart, W!canStart, MW!onWriteModeChanged,
       W!onWriteModeChanged, MW!onPartitionSchemeChanged, W!onPartitionSchemeChanged,
       MW!onTargetSystemChanged, W!onTargetSystemChanged, MW!onFileSystemChanged,
       W!onFileSystemChanged, MW!labelEdited, W!labelEdited, MW!Label, W!Label,
       MW!Targets, W!Targets, MW!SetLabel, W!SetLabel, MW!SetFs, W!SetFs,
       MW!sanitizeVolumeLabel, W!sanitizeVolumeLabel, MW!Scheme, W!Scheme

(* and those about the write, its backend and the dialogs.                 *)
LEMMA SameWrite ==
  /\ MW!startWrite => W!startWrite
  /\ MW!hybridAnswered => W!hybridAnswered
  /\ MW!confirmAnswered => W!confirmAnswered
  /\ MW!Crash => W!Crash
  /\ MW!pkexecAnswered => W!pkexecAnswered
  /\ MW!backendEnds => W!backendEnds
  /\ MW!cancelWrite => W!cancelWrite
  /\ MW!onWriteCompleted => W!onWriteCompleted
  /\ MW!completionRead => W!completionRead
  /\ MW!showAbout => W!showAbout
  /\ MW!dialogClosed => W!dialogClosed
  /\ MW!closeWindow => W!closeWindow
  /\ MW!waitTimesOut => W!waitTimesOut
BY DEF MW!EventLoop, W!EventLoop, MW!Input, W!Input, MW!Answer, W!Answer, MW!Open, W!Open,
       MW!startWrite, W!startWrite, MW!AskToConfirm, W!AskToConfirm, MW!DevRead,
       W!DevRead, MW!Range, W!Range, MW!isWindowsIso, W!isWindowsIso, MW!hybridAnswered,
       W!hybridAnswered, MW!confirmAnswered, W!confirmAnswered, MW!WriteConfig,
       W!WriteConfig, MW!Config, W!Config, MW!isoPath, W!isoPath, MW!Target, W!Target,
       MW!Targets, W!Targets, MW!Crash, W!Crash, MW!Alive, W!Alive, MW!Killed, W!Killed,
       MW!pkexecAnswered, W!pkexecAnswered, MW!backendEnds, W!backendEnds, MW!cancelWrite,
       W!cancelWrite, MW!onWriteCompleted, W!onWriteCompleted, MW!completionRead,
       W!completionRead, MW!showAbout, W!showAbout, MW!dialogClosed, W!dialogClosed,
       MW!closeWindow, W!closeWindow, MW!waitTimesOut, W!waitTimesOut

(* A step of the program is a step of the window, or leaves it alone: the  *)
(* list it is handed is a list of entries.                                 *)
LEMMA WindowOfWhole == ListInv /\ [Next]_vars => [W!MWNext]_W!mwVars
<1> SUFFICES ASSUME ListInv, [Next]_vars PROVE [W!MWNext]_W!mwVars
  OBVIOUS
<1>1. ListInv'
  BY ListNext
<1>2. current \in Seq(DM!Entry) /\ current' \in Seq(DM!Entry)
  BY <1>1, ListMeans, ListMeansNext
<1>3. CASE refreshDevices
  BY <1>2, <1>3, SameSlots DEF refreshDevices, W!MWNext
<1>4. CASE devicesChanged
  <2>1. CASE changed
    BY <1>2, <1>4, <2>1, SameSlots DEF devicesChanged, W!MWNext
  <2>2. CASE ~changed
    BY <1>4, <2>2 DEF devicesChanged, DM!pollReturns, DM!Emitted
  <2> QED
    BY <2>1, <2>2
<1>5. CASE window
  BY <1>5, SameSlots, SameEdits, SameWrite
     DEF window, Slot, MW!User, MW!Events, W!User, W!Events, W!MWNext
<1>6. CASE confirmAnswered \/ backendEnds \/ pkexecAnswered
  BY <1>6, SameWrite DEF confirmAnswered, Slot, backendEnds, pkexecAnswered, W!MWNext
<1>7. CASE \/ startMonitoring \/ pollUdevMonitor \/ stopMonitoring \/ Destroy \/ Finish
           \/ \E n \in Node : Unplug(n) \/ \E d \in Drive : Plug(n, d)
  BY <1>7 DEF startMonitoring, DM!startMonitoring, pollUdevMonitor, DM!pollUdevMonitor,
              stopMonitoring, DM!stopMonitoring, Destroy, Finish, Holding, Unplug,
              DM!Unplug, Plug, DM!Plug, DM!Move
<1>8. CASE UNCHANGED vars
  BY <1>8
<1> QED
  BY <1>3, <1>4, <1>5, <1>6, <1>7, <1>8 DEF Next, Gui

(* The window's invariants hold at first.                                  *)
LEMMA WindowInit == Init => W!WInv
<1>1. MW!MWInit => W!MWInit
  BY DEF MW!MWInit, W!MWInit, MW!NoAnalysis, W!NoAnalysis
<1> QED
  BY <1>1, WindowConstants, W!WInit DEF Init

(* A step of the program keeps them, being a step of the window.           *)
LEMMA WindowNext == ListInv /\ W!WInv /\ [Next]_vars => W!WInv'
BY WindowConstants, WindowOfWhole, W!WNext

(* What they say of the buttons, the form, the name and the configuration. *)
LEMMA WindowMeans ==
  W!WInv => /\ MW!MWTypeOK /\ MW!ButtonsRight /\ MW!FormFits /\ MW!NameSettles
            /\ MW!RequestOfOneImage
<1>1. W!WInv => W!MWTypeOK /\ W!ButtonsRight /\ W!FitsInv /\ W!ImageInv
  BY DEF W!WInv
<1>2. W!MWTypeOK => MW!MWTypeOK
  BY DEF W!MWTypeOK, MW!MWTypeOK, W!ImageFile, MW!ImageFile, W!Verdict, MW!Verdict,
         W!Label, MW!Label, W!IsoType, MW!IsoType, W!FormType, MW!FormType, W!Targets,
         MW!Targets, W!Dialog, MW!Dialog, W!Reference, MW!Reference
<1>3. W!ButtonsRight => MW!ButtonsRight
  BY DEF W!ButtonsRight, MW!ButtonsRight
<1>4. W!FitsInv => MW!FormFits
  BY DEF W!FitsInv, W!LabelFits, MW!FormFits, MW!fat32Blocked, W!fat32Blocked,
         MW!isWindowsIso, W!isWindowsIso
<1>5. W!ImageInv => MW!NameSettles /\ MW!RequestOfOneImage
  BY DEF W!ImageInv, W!NameSettles, MW!NameSettles, W!RequestOfOneImage,
         MW!RequestOfOneImage, MW!ImageFile, W!ImageFile
<1> QED
  BY <1>1, <1>2, <1>3, <1>4, <1>5

(* A drive holds what it came with, an unfinished write, or an image.      *)
HoldsType == holds \in [Drive -> {"user", "scratch"} \cup DOMAIN Analyses]

(* A backend that finishes leaves an image there is on the drive.          *)
LEMMA HoldsNext ==
  ASSUME HoldsType, MW!RequestOfOneImage, [Next]_vars
  PROVE  HoldsType'
<1>1. ASSUME NEW content \in {"user", "scratch"} \cup DOMAIN Analyses,
             Holding(content)
      PROVE  HoldsType'
  BY <1>1 DEF Holding, HoldsType
<1>2. CASE Destroy
  BY <1>1, <1>2 DEF Destroy
<1>3. CASE Finish
  <2>1. request.isoPath \in DOMAIN Analyses
    BY <1>3 DEF Finish, Holding, Running, MW!RequestOfOneImage, MW!ImageFile
  <2> QED
    BY <1>1, <1>3, <2>1 DEF Finish
<1>4. Destroy \/ Finish \/ UNCHANGED holds
  BY DEF Next, Gui, startMonitoring, refreshDevices, pollUdevMonitor, devicesChanged,
         stopMonitoring, confirmAnswered, window, Slot, backendEnds, pkexecAnswered, Plug,
         Unplug
<1> QED
  BY <1>2, <1>3, <1>4 DEF HoldsType

(* All that is proved of the program, together.                            *)
WholeInv == ListInv /\ W!WInv /\ HoldsType /\ DialogInv /\ WriteInv

(* It holds at first.                                                      *)
LEMMA WholeInit == Init => WholeInv
BY ListInit, WindowInit, DialogInit, WriteInit DEF WholeInv, Init, HoldsType

(* Every step keeps it.                                                    *)
LEMMA WholeNext == WholeInv /\ [Next]_vars => WholeInv'
<1> SUFFICES ASSUME WholeInv, [Next]_vars PROVE WholeInv'
  OBVIOUS
<1>1. HoldsType'
  BY WindowMeans, HoldsNext DEF WholeInv
<1> QED
  BY <1>1, ListNext, WindowNext, DialogNext, WriteNext DEF WholeInv

(* It always holds.                                                        *)
LEMMA WholeHolds == Spec => []WholeInv
BY WholeInit, WholeNext, PTL DEF Spec

(* Every variable of the program keeps to its type: the list of drives,    *)
(* the window and its references, and what the drives hold.                *)
THEOREM TypesOfTheWhole == Spec => []TypeOK
<1>1. WholeInv => TypeOK
  BY ListMeans, WindowMeans DEF WholeInv, TypeOK, HoldsType, WriteInv
<1> QED
  BY <1>1, WholeHolds, PTL

(* The program runs the list of drives: whatever the window, its dialogs   *)
(* and a backend do, DeviceManager goes through a run of its own.          *)
THEOREM ListOfTheWhole == Spec => DP!DMInit /\ [][DP!DMNext]_DP!vars
<1>1. Init => DP!DMInit
  BY DEF Init, DM!DMInit, DP!DMInit, DM!Drive, DP!Drive
<1> QED
  BY <1>1, ListOfWhole, PTL DEF Spec

(* The program runs the window: with the lists DeviceManager hands it, of  *)
(* whatever drives come and go, MainWindow goes through a run of its own.  *)
THEOREM WindowOfTheWhole == Spec => W!MWInit /\ [][W!MWNext]_W!mwVars
<1>1. Init => W!MWInit
  BY DEF Init, MW!MWInit, W!MWInit, MW!NoAnalysis, W!NoAnalysis
<1>2. WholeInv /\ [Next]_vars => [W!MWNext]_W!mwVars
  BY WindowOfWhole DEF WholeInv
<1> QED
  BY <1>1, <1>2, WholeHolds, PTL DEF Spec

(* So the drives, the buttons, the form, the name and the configuration    *)
(* are right in the program as they are in its parts.                      *)
THEOREM PartsHold ==
  Spec => [](/\ DM!Settled /\ MW!ButtonsRight /\ MW!FormFits /\ MW!NameSettles
             /\ MW!RequestOfOneImage)
<1>1. WholeInv => /\ DM!Settled /\ MW!ButtonsRight /\ MW!FormFits /\ MW!NameSettles
                  /\ MW!RequestOfOneImage
  BY ListMeans, WindowMeans DEF WholeInv
<1> QED
  BY <1>1, WholeHolds, PTL

(* In the program, too, a write starts only where no backend is left of an *)
(* earlier one, and the form is set for the image that was just analysed.  *)
THEOREM StepsHold == Spec => MW!OneBackend /\ MW!AutoConfigured
<1>1. WholeInv /\ [Next]_vars =>
        [ /\ (isWriting' /\ ~isWriting) => backend = "none"
          /\ backend' = "none" => backend \in {"none", "finished"} ]_MW!mwVars
  BY WindowConstants, WindowOfWhole, W!BackendStep DEF WholeInv
<1>2. WholeInv /\ [Next]_vars =>
        [analysis' # analysis /\ analysis'.isValid /\ analysis'.bootMode # {} =>
           MW!Target(form') = analysis'.bootMode]_MW!mwVars
  BY WindowConstants, WindowOfWhole, W!ConfigureStep
     DEF WholeInv, MW!Target, W!Target, MW!Targets, W!Targets
<1> QED
  BY <1>1, <1>2, WholeHolds, PTL DEF Spec, MW!OneBackend, MW!AutoConfigured
=============================================================================
