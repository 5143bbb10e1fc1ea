-------------------------- MODULE MainWindowProofs --------------------------
(***************************************************************************)
(* What holds of the window for every image, every drive list, every       *)
(* number of images picked and of changes made by hand.                    *)
(***************************************************************************)
EXTENDS MainWindow, SequenceTheorems, TLAPS

-----------------------------------------------------------------------------
(* The form.                                                               *)

FormOK == {f \in FormType : f.target + 1 \in DOMAIN Targets(f.scheme)}

LabelFits(f) == f.label = "a:b" => f.filesystem = "NTFS"

(* The targets of both schemes.                                            *)
LEMMA TargetsFacts ==
  /\ DOMAIN Targets("GPT") = 1..2
  /\ Targets("GPT")[1] = {"uefi"} /\ Targets("GPT")[2] = {"bios", "uefi"}
  /\ DOMAIN Targets("MBR") = 1..3
  /\ Targets("MBR")[1] = {"bios"}
BY DEF Targets

(* A choice of scheme leaves a target selected that the scheme has.        *)
LEMMA SchemeForm ==
  ASSUME NEW f \in FormOK, NEW s \in {"MBR", "GPT"}
  PROVE  /\ Scheme(f, s) \in FormOK /\ Scheme(f, s).scheme = s
         /\ Scheme(f, s).filesystem = f.filesystem /\ Scheme(f, s).label = f.label
         /\ Scheme(f, s).fat32 = f.fat32
<1>1. CASE f.scheme = s
  BY <1>1 DEF Scheme
<1>2. CASE f.scheme # s
  <2>1. Scheme(f, s) = [f EXCEPT !.scheme = s, !.target = 0]
    BY <1>2 DEF Scheme
  <2>2. Scheme(f, s) \in FormType /\ Scheme(f, s).scheme = s /\ Scheme(f, s).target = 0
    <3>1. Scheme(f, s) = [mode |-> f.mode, scheme |-> s, target |-> 0,
                          filesystem |-> f.filesystem, fat32 |-> f.fat32, label |-> f.label]
      BY <2>1 DEF FormOK, FormType
    <3> QED
      BY <3>1 DEF FormOK, FormType
  <2>3. 1 \in DOMAIN Targets(s)
    BY TargetsFacts
  <2>4. Scheme(f, s) \in FormOK
    BY <2>2, <2>3 DEF FormOK
  <2> QED
    BY <2>1, <2>2, <2>4 DEF FormOK, FormType
<1> QED
  BY <1>1, <1>2

(* The form is set for the firmware of an image whatever it was before.    *)
LEMMA BootFormForm ==
  ASSUME NEW f \in FormOK, NEW mode \in SUBSET {"bios", "uefi"}
  PROVE  /\ BootForm(f, mode) \in FormOK
         /\ mode # {} => Target(BootForm(f, mode)) = mode
         /\ BootForm(f, mode).filesystem = f.filesystem /\ BootForm(f, mode).label = f.label
         /\ BootForm(f, mode).fat32 = f.fat32
<1> DEFINE Set(s, t) == [Scheme(f, s) EXCEPT !.target = t]
<1>1. ASSUME NEW s \in {"MBR", "GPT"}, NEW t \in 0..2, t + 1 \in DOMAIN Targets(s)
      PROVE  /\ Set(s, t) \in FormOK /\ Target(Set(s, t)) = Targets(s)[t + 1]
             /\ Set(s, t).filesystem = f.filesystem /\ Set(s, t).label = f.label
             /\ Set(s, t).fat32 = f.fat32
  BY <1>1, SchemeForm DEF FormOK, FormType, Target
<1>2. CASE mode = {"bios", "uefi"}
  <2>1. BootForm(f, mode) = Set("GPT", 1)
    BY <1>2 DEF BootForm
  <2> QED
    BY <2>1, <1>1, <1>2, TargetsFacts
<1>3. CASE mode = {"uefi"}
  <2>1. BootForm(f, mode) = Set("GPT", 0)
    BY <1>3 DEF BootForm
  <2> QED
    BY <2>1, <1>1, <1>3, TargetsFacts
<1>4. CASE mode = {"bios"}
  <2>1. BootForm(f, mode) = Set("MBR", 0)
    BY <1>4 DEF BootForm
  <2> QED
    BY <2>1, <1>1, <1>4, TargetsFacts
<1>5. CASE mode = {}
  <2>1. BootForm(f, mode) = f
    BY <1>5 DEF BootForm
  <2> QED
    BY <2>1, <1>5
<1>6. mode = {"bios", "uefi"} \/ mode = {"uefi"} \/ mode = {"bios"} \/ mode = {}
  OBVIOUS
<1> QED
  BY <1>2, <1>3, <1>4, <1>5, <1>6

(* A label set by whatever way fits the file system.                       *)
LEMMA SetLabelForm ==
  ASSUME NEW f \in FormOK, NEW label \in Label
  PROVE  /\ SetLabel(f, label) \in FormOK /\ LabelFits(SetLabel(f, label))
         /\ SetLabel(f, label).filesystem = f.filesystem
         /\ SetLabel(f, label).fat32 = f.fat32
BY DEF SetLabel, sanitizeVolumeLabel, FormOK, FormType, Label, LabelFits

(* So it does after another file system is chosen.                         *)
LEMMA SetFsForm ==
  ASSUME NEW f \in FormOK, LabelFits(f), NEW fs \in {"FAT32", "NTFS", "exFAT"}
  PROVE  /\ SetFs(f, fs) \in FormOK /\ LabelFits(SetFs(f, fs))
         /\ SetFs(f, fs).filesystem = fs /\ SetFs(f, fs).fat32 = f.fat32
         /\ SetFs(f, fs).scheme = f.scheme /\ SetFs(f, fs).target = f.target
BY DEF SetFs, sanitizeVolumeLabel, FormOK, FormType, Label, LabelFits

(* FAT32 is selected unless it is blocked, and is blocked until the next   *)
(* image.                                                                  *)
LEMMA FsFormForm ==
  ASSUME NEW f \in FormOK, LabelFits(f), NEW a \in Verdict
  PROVE  /\ FsForm(f, a) \in FormOK /\ LabelFits(FsForm(f, a))
         /\ fat32Blocked(a) => ~FsForm(f, a).fat32 /\ FsForm(f, a).filesystem # "FAT32"
         /\ Target(FsForm(f, a)) = Target(f)
<1> DEFINE fs == IF fat32Blocked(a) THEN "exFAT" ELSE "FAT32"
<1>1. fs \in {"FAT32", "NTFS", "exFAT"} /\ fat32Blocked(a) \in BOOLEAN
  BY DEF fat32Blocked, isWindowsIso, Verdict
<1>2. /\ SetFs(f, fs) \in FormOK /\ LabelFits(SetFs(f, fs)) /\ SetFs(f, fs).filesystem = fs
      /\ SetFs(f, fs).scheme = f.scheme /\ SetFs(f, fs).target = f.target
  BY <1>1, SetFsForm
<1>3. FsForm(f, a) = [SetFs(f, fs) EXCEPT !.fat32 = ~fat32Blocked(a)]
  BY DEF FsForm
<1> HIDE DEF fs
<1>4. /\ FsForm(f, a) \in FormOK /\ LabelFits(FsForm(f, a)) /\ FsForm(f, a).filesystem = fs
      /\ FsForm(f, a).fat32 = ~fat32Blocked(a)
      /\ FsForm(f, a).scheme = f.scheme /\ FsForm(f, a).target = f.target
  BY <1>1, <1>2, <1>3 DEF FormOK, FormType, LabelFits
<1>5. Target(FsForm(f, a)) = Target(f)
  BY <1>4 DEF Target
<1> QED
  BY <1>4, <1>5 DEF fs

-----------------------------------------------------------------------------
(* Sequences of dialogs.                                                   *)

(* A dialog opened over the others.                                        *)
LEMMA OpenFacts ==
  ASSUME NEW S, NEW s \in Seq(S), NEW d \in S
  PROVE  /\ <<d>> \o s \in Seq(S) /\ Len(<<d>> \o s) = Len(s) + 1
         /\ (<<d>> \o s)[1] = d /\ Len(s) >= 1 => (<<d>> \o s)[2] = s[1]
OBVIOUS

(* The innermost dialog closed.                                            *)
LEMMA CloseFacts ==
  ASSUME NEW S, NEW s \in Seq(S), s # <<>>
  PROVE  /\ Tail(s) \in Seq(S) /\ Len(Tail(s)) = Len(s) - 1 /\ Len(s) \in Nat \ {0}
         /\ Len(s) >= 2 => Tail(s)[1] = s[2]
         /\ Head(s) = s[1] /\ s[1] \in S
OBVIOUS

-----------------------------------------------------------------------------
(* The invariant.                                                          *)

Plain    == {"file", "about", "noWimlib"}
Question == {"hybrid", "confirm"}
End      == {"success", "failure"}

Asking == Len(dialogs) = 1 /\ dialogs[1] \in Question

(* As a dialog takes the input away, only the message at the end of a      *)
(* write ever comes over another dialog; startWrite asks while no backend  *)
(* is there, and with an image.                                            *)
DialogsInv ==
  /\ Len(dialogs) <= 2
  /\ backend = "finished" <=> (Len(dialogs) >= 1 /\ dialogs[1] \in End)
  /\ Len(dialogs) = 2 => dialogs[1] \in End /\ dialogs[2] \in Plain
  /\ Asking <=> asked # None
  /\ Asking => backend = "none" /\ file # None
  /\ isWriting <=> backend \notin {"none", "finished"}

(* FAT32 cannot be chosen by hand while it is blocked.                     *)
FitsInv ==
  /\ fat32Blocked(analysis) => ~form.fat32 /\ form.filesystem # "FAT32"
  /\ LabelFits(form)

ImageInv ==
  /\ file = None => analysis = NoAnalysis
  /\ file # None => analysis \in Analyses[file]
  /\ NameSettles
  /\ RequestOfOneImage

WInv == MWTypeOK /\ DialogsInv /\ ButtonsRight /\ FitsInv /\ ImageInv

USE DEF listVars, imageVars, formVars, buttonVars, writeVars, mwVars

(* The window opens with no drive, no image and nothing to press.          *)
LEMMA WInit == MWInit => WInv
<1> SUFFICES ASSUME MWInit PROVE WInv
  OBVIOUS
<1>1. analysis \in Verdict
  <2>1. {} \in SUBSET {"bios", "uefi"}
    OBVIOUS
  <2>2. NoAnalysis \in Verdict
    BY <2>1 DEF Verdict, NoAnalysis, Label, IsoType
  <2> QED
    BY <2>2 DEF MWInit
<1>2. form \in FormType /\ form.target + 1 \in DOMAIN Targets(form.scheme)
  BY TargetsFacts DEF MWInit, FormType, Label
<1>3. /\ devices \in Seq(Entries) /\ combo \in Nat \ {0} /\ dialogs \in Seq(Dialog)
      /\ jobs \subseteq (1..MaxPicks) \X ImageFile /\ picks \in 0..MaxPicks /\ edits \in 0..MaxEdits
  BY MWAssumption DEF MWInit
<1>4. MWTypeOK
  BY <1>1, <1>2, <1>3 DEF MWInit, MWTypeOK
<1>5. DialogsInv /\ ButtonsRight
  BY DEF MWInit, DialogsInv, Asking, ButtonsRight, End
<1>6. FitsInv /\ ImageInv
  BY DEF MWInit, FitsInv, LabelFits, fat32Blocked, NoAnalysis, ImageInv, NameSettles,
         RequestOfOneImage
<1> QED
  BY <1>4, <1>5, <1>6 DEF WInv

(* What startWrite and the answer to its first question have in common.    *)
LEMMA AskFacts ==
  ASSUME NEW dev \in Reference, NEW under, AskToConfirm(dev, under), devices \in Seq(Entries)
  PROVE  /\ asked' \in Reference \cup {None}
         /\ \/ dialogs' = <<"confirm">> \o under /\ asked' # None
            \/ dialogs' = <<"noWimlib">> \o under /\ asked' = None
<1>1. DevRead(dev) \subseteq Entries
  BY DEF DevRead, Reference, Range
<1>2. ASSUME NEW e \in DevRead(dev)
      PROVE  [dev EXCEPT !.named = e] \in Reference /\ [dev EXCEPT !.named = e] # None
  <2>1. [dev EXCEPT !.named = e] \in Reference
    BY <1>1, <1>2 DEF Reference
  <2> QED
    BY <2>1, MWAssumption
<1> QED
  BY <1>2 DEF AskToConfirm

(* What an analysis makes of the form.                                     *)
LEMMA AutoForm ==
  ASSUME form \in FormOK, LabelFits(form), NEW a \in Verdict
  PROVE  /\ autoConfigureForIso(a) \in FormOK /\ LabelFits(autoConfigureForIso(a))
         /\ fat32Blocked(a) => /\ ~autoConfigureForIso(a).fat32
                               /\ autoConfigureForIso(a).filesystem # "FAT32"
         /\ a.bootMode # {} => Target(autoConfigureForIso(a)) = a.bootMode
<1> DEFINE labelled == IF a.volumeLabel = "" THEN form ELSE SetLabel(form, a.volumeLabel)
           set      == BootForm(labelled, a.bootMode)
           booted   == FsForm(set, a)
<1>1. a.volumeLabel \in Label /\ a.bootMode \in SUBSET {"bios", "uefi"}
  BY DEF Verdict
<1>2. labelled \in FormOK /\ LabelFits(labelled)
  BY <1>1, SetLabelForm
<1>3. /\ set \in FormOK /\ LabelFits(set)
      /\ a.bootMode # {} => Target(set) = a.bootMode
  <2> HIDE DEF labelled
  <2> QED
    BY <1>1, <1>2, BootFormForm DEF LabelFits
<1>4. /\ booted \in FormOK /\ LabelFits(booted)
      /\ fat32Blocked(a) => ~booted.fat32 /\ booted.filesystem # "FAT32"
      /\ a.bootMode # {} => Target(booted) = a.bootMode
  <2> HIDE DEF set
  <2> QED
    BY <1>3, FsFormForm
<1>5. /\ [booted EXCEPT !.mode = "ISO"] \in FormOK
      /\ [booted EXCEPT !.mode = "ISO"].label = booted.label
      /\ [booted EXCEPT !.mode = "ISO"].filesystem = booted.filesystem
      /\ [booted EXCEPT !.mode = "ISO"].fat32 = booted.fat32
      /\ Target([booted EXCEPT !.mode = "ISO"]) = Target(booted)
  <2> HIDE DEF booted
  <2> QED
    BY <1>4 DEF FormOK, FormType, Target
<1>6. autoConfigureForIso(a) \in {booted, [booted EXCEPT !.mode = "ISO"]}
  BY DEF autoConfigureForIso
<1> HIDE DEF booted
<1> QED
  BY <1>4, <1>5, <1>6 DEF LabelFits

(* What a change by hand makes of it.                                      *)
GoodForm(f) ==
  /\ f \in FormOK /\ LabelFits(f)
  /\ fat32Blocked(analysis) => ~f.fat32 /\ f.filesystem # "FAT32"

(* Whatever the user changes by hand fits the rest of the form.            *)
LEMMA HandForm ==
  ASSUME form \in FormOK, FitsInv
  PROVE  /\ \A m \in {"ISO", "DD"} : GoodForm([form EXCEPT !.mode = m])
         /\ \A s \in {"MBR", "GPT"} : GoodForm(Scheme(form, s))
         /\ \A t \in DOMAIN Targets(form.scheme) : GoodForm([form EXCEPT !.target = t - 1])
         /\ \A fs \in {"NTFS", "exFAT"} \cup IF form.fat32 THEN {"FAT32"} ELSE {} :
              GoodForm(SetFs(form, fs))
         /\ \A label \in Label : GoodForm(SetLabel(form, label))
<1>1. ASSUME NEW m \in {"ISO", "DD"}
      PROVE  /\ [form EXCEPT !.mode = m] \in FormOK
             /\ [form EXCEPT !.mode = m].label = form.label
             /\ [form EXCEPT !.mode = m].filesystem = form.filesystem
             /\ [form EXCEPT !.mode = m].fat32 = form.fat32
  BY DEF FormOK, FormType
<1>2. ASSUME NEW t \in DOMAIN Targets(form.scheme)
      PROVE  /\ [form EXCEPT !.target = t - 1] \in FormOK
             /\ [form EXCEPT !.target = t - 1].label = form.label
             /\ [form EXCEPT !.target = t - 1].filesystem = form.filesystem
             /\ [form EXCEPT !.target = t - 1].fat32 = form.fat32
  <2>1. t \in 1..3 /\ form.scheme \in {"MBR", "GPT"}
    BY TargetsFacts DEF FormOK, FormType
  <2> QED
    BY <2>1 DEF FormOK, FormType
<1>3. ASSUME NEW fs \in {"NTFS", "exFAT"} \cup IF form.fat32 THEN {"FAT32"} ELSE {}
      PROVE  /\ SetFs(form, fs) \in FormOK /\ LabelFits(SetFs(form, fs))
             /\ SetFs(form, fs).filesystem = fs /\ SetFs(form, fs).fat32 = form.fat32
             /\ fs = "FAT32" => form.fat32
  BY SetFsForm DEF FitsInv
<1>4. ASSUME NEW m \in {"ISO", "DD"}
      PROVE  GoodForm([form EXCEPT !.mode = m])
  BY <1>1 DEF FitsInv, LabelFits, GoodForm
<1>5. ASSUME NEW s \in {"MBR", "GPT"}
      PROVE  GoodForm(Scheme(form, s))
  BY SchemeForm DEF FitsInv, LabelFits, GoodForm
<1>6. ASSUME NEW t \in DOMAIN Targets(form.scheme)
      PROVE  GoodForm([form EXCEPT !.target = t - 1])
  BY <1>2 DEF FitsInv, LabelFits, GoodForm
<1>7. ASSUME NEW fs \in {"NTFS", "exFAT"} \cup IF form.fat32 THEN {"FAT32"} ELSE {}
      PROVE  GoodForm(SetFs(form, fs))
  BY <1>3 DEF FitsInv, GoodForm
<1>8. ASSUME NEW label \in Label
      PROVE  GoodForm(SetLabel(form, label))
  BY SetLabelForm DEF FitsInv, GoodForm
<1> QED
  BY <1>4, <1>5, <1>6, <1>7, <1>8

HandEdit ==
  \/ onWriteModeChanged \/ onPartitionSchemeChanged \/ onTargetSystemChanged
  \/ onFileSystemChanged \/ labelEdited

(* A change by hand leaves the image alone.                                *)
LEMMA EditFacts ==
  ASSUME WInv, HandEdit
  PROVE  /\ GoodForm(form') /\ edits' \in 0..MaxEdits
         /\ UNCHANGED <<listVars, imageVars, dialogs, writeVars, gui>>
         /\ UNCHANGED buttonVars \/ updateStartButtonState(devices, analysis)
<1>1. form \in FormOK /\ FitsInv
  BY DEF WInv, MWTypeOK, FormOK
<1>2. edits \in 0..MaxEdits /\ MaxEdits \in Nat
  BY MWAssumption DEF WInv, MWTypeOK
<1>3. CASE onWriteModeChanged
  BY <1>1, <1>2, <1>3, HandForm DEF onWriteModeChanged, Edit
<1>4. CASE onPartitionSchemeChanged
  BY <1>1, <1>2, <1>4, HandForm DEF onPartitionSchemeChanged, Edit
<1>5. CASE onTargetSystemChanged
  BY <1>1, <1>2, <1>5, HandForm DEF onTargetSystemChanged, Edit
<1>6. CASE onFileSystemChanged
  BY <1>1, <1>2, <1>6, HandForm DEF onFileSystemChanged, Edit
<1>7. CASE labelEdited
  BY <1>1, <1>2, <1>7, HandForm DEF labelEdited, Edit
<1> QED
  BY <1>3, <1>4, <1>5, <1>6, <1>7 DEF HandEdit

(* An analysis that finishes is one of the file it was started for.        *)
LEMMA AnalyzedFacts ==
  ASSUME WInv, onIsoAnalyzed
  PROVE  \E f \in ImageFile, a \in Verdict :
           /\ a \in Analyses[f] /\ (~a.isValid => a = NoAnalysis)
           /\ Taken(f, a) /\ jobs' \subseteq jobs /\ picks' = picks /\ edits' = edits
           /\ shownFile' = IF a.isValid THEN f ELSE None
           /\ form' = IF a.isValid THEN autoConfigureForIso(a) ELSE form
           /\ IF a.isValid THEN updateStartButtonState(devices, a) ELSE UNCHANGED buttonVars
           /\ devices' = devices
<1>1. PICK job \in jobs : \E a \in Analyses[job[2]] :
        /\ jobs' = jobs \ {job}
        /\ Taken(job[2], a)
        /\ shownFile' = IF a.isValid THEN job[2] ELSE None
        /\ form' = IF a.isValid THEN autoConfigureForIso(a) ELSE form
        /\ IF a.isValid THEN updateStartButtonState(devices, a) ELSE UNCHANGED buttonVars
  BY DEF onIsoAnalyzed
<1>2. job[2] \in ImageFile
  BY DEF WInv, MWTypeOK
<1>3. \A a \in Analyses[job[2]] : a \in Verdict /\ (~a.isValid => a = NoAnalysis)
  BY <1>2, MWAssumption
<1>4. picks' = picks /\ edits' = edits /\ devices' = devices
  BY DEF onIsoAnalyzed
<1> QED
  BY <1>1, <1>2, <1>3, <1>4

(* A dialog that is answered is the innermost one.                         *)
LEMMA AnswerFacts ==
  ASSUME WInv, NEW d, Answer(d)
  PROVE  /\ Len(dialogs) \in 1..2 /\ dialogs[1] = d /\ d \in Dialog
         /\ Tail(dialogs) \in Seq(Dialog) /\ Len(Tail(dialogs)) = Len(dialogs) - 1
         /\ Len(dialogs) = 2 => Tail(dialogs)[1] = dialogs[2]
         /\ d \in Question => /\ Asking /\ Len(dialogs) = 1 /\ asked \in Reference
                              /\ backend = "none" /\ file # None /\ ~isWriting
<1>1. dialogs \in Seq(Dialog) /\ dialogs # <<>> /\ Head(dialogs) = d /\ Len(dialogs) <= 2
  BY DEF WInv, MWTypeOK, DialogsInv, Answer
<1>2. /\ Len(dialogs) \in 1..2 /\ dialogs[1] = d /\ d \in Dialog
      /\ Tail(dialogs) \in Seq(Dialog) /\ Len(Tail(dialogs)) = Len(dialogs) - 1
      /\ Len(dialogs) = 2 => Tail(dialogs)[1] = dialogs[2]
  <2>1. dialogs[1] \in Dialog /\ Head(dialogs) = dialogs[1] /\ Len(dialogs) \in Nat \ {0}
    BY <1>1, CloseFacts
  <2>2. Tail(dialogs) \in Seq(Dialog) /\ Len(Tail(dialogs)) = Len(dialogs) - 1
    BY <1>1, CloseFacts
  <2>3. Len(dialogs) = 2 => Tail(dialogs)[1] = dialogs[2]
    BY <1>1, CloseFacts
  <2> QED
    BY <1>1, <2>1, <2>2, <2>3
<1>3. ASSUME d \in Question
      PROVE  Len(dialogs) = 1 /\ Asking
  BY <1>2, <1>3 DEF WInv, DialogsInv, Asking, Question, End
<1> QED
  BY <1>2, <1>3 DEF WInv, DialogsInv, MWTypeOK

(* One that is opened lies on top.                                         *)
LEMMA OpenedFacts ==
  ASSUME dialogs \in Seq(Dialog), NEW d \in Dialog, Open(d)
  PROVE  /\ dialogs' \in Seq(Dialog) /\ Len(dialogs') = Len(dialogs) + 1 /\ dialogs'[1] = d
         /\ Len(dialogs) >= 1 => dialogs'[2] = dialogs[1]
BY OpenFacts DEF Open

-----------------------------------------------------------------------------
(* Which actions change what.                                              *)

ListAction == (\E devs \in Lists : refreshDevices(devs) \/ onDevicesChanged(devs)) \/ onDeviceSelected

(* Only these change what is known of the drives.                          *)
LEMMA ListFrame == [MWNext]_mwVars => ListAction \/ UNCHANGED listVars
BY DEF ListAction, MWNext, User, Events, HandEdit, Edit, refreshDevices, onDevicesChanged, onDeviceSelected,
       browseIso, fileChosen, onIsoAnalyzed, onWriteModeChanged, onPartitionSchemeChanged,
       onTargetSystemChanged, onFileSystemChanged, labelEdited, startWrite, hybridAnswered,
       confirmAnswered, Crash, pkexecAnswered, backendEnds, cancelWrite, onWriteCompleted,
       completionRead, showAbout, dialogClosed, closeWindow, waitTimesOut, updateStartButtonState

(* Only these change what is known of the image.                           *)
LEMMA ImageFrame == [MWNext]_mwVars => fileChosen \/ onIsoAnalyzed \/ UNCHANGED imageVars
BY DEF MWNext, User, Events, HandEdit, Edit, refreshDevices, onDevicesChanged, onDeviceSelected,
       browseIso, fileChosen, onIsoAnalyzed, onWriteModeChanged, onPartitionSchemeChanged,
       onTargetSystemChanged, onFileSystemChanged, labelEdited, startWrite, hybridAnswered,
       confirmAnswered, Crash, pkexecAnswered, backendEnds, cancelWrite, onWriteCompleted,
       completionRead, showAbout, dialogClosed, closeWindow, waitTimesOut, updateStartButtonState

(* Only these change the form.                                             *)
LEMMA FormFrame == [MWNext]_mwVars => onIsoAnalyzed \/ HandEdit \/ hybridAnswered \/ UNCHANGED formVars
BY DEF MWNext, User, Events, HandEdit, Edit, refreshDevices, onDevicesChanged, onDeviceSelected,
       browseIso, fileChosen, onIsoAnalyzed, onWriteModeChanged, onPartitionSchemeChanged,
       onTargetSystemChanged, onFileSystemChanged, labelEdited, startWrite, hybridAnswered,
       confirmAnswered, Crash, pkexecAnswered, backendEnds, cancelWrite, onWriteCompleted,
       completionRead, showAbout, dialogClosed, closeWindow, waitTimesOut, updateStartButtonState

(* Only these change the buttons.                                          *)
LEMMA ButtonFrame ==
  [MWNext]_mwVars => \/ ListAction \/ onIsoAnalyzed \/ HandEdit \/ confirmAnswered
                     \/ onWriteCompleted \/ UNCHANGED buttonVars
BY DEF ListAction, MWNext, User, Events, HandEdit, Edit, refreshDevices, onDevicesChanged, onDeviceSelected,
       browseIso, fileChosen, onIsoAnalyzed, onWriteModeChanged, onPartitionSchemeChanged,
       onTargetSystemChanged, onFileSystemChanged, labelEdited, startWrite, hybridAnswered,
       confirmAnswered, Crash, pkexecAnswered, backendEnds, cancelWrite, onWriteCompleted,
       completionRead, showAbout, dialogClosed, closeWindow, waitTimesOut, updateStartButtonState

(* Only the answer to the last question makes a configuration.             *)
LEMMA RequestFrame == [MWNext]_mwVars => confirmAnswered \/ request' = None \/ UNCHANGED request
BY DEF MWNext, User, Events, HandEdit, Edit, refreshDevices, onDevicesChanged, onDeviceSelected,
       browseIso, fileChosen, onIsoAnalyzed, onWriteModeChanged, onPartitionSchemeChanged,
       onTargetSystemChanged, onFileSystemChanged, labelEdited, startWrite, hybridAnswered,
       confirmAnswered, Crash, pkexecAnswered, backendEnds, cancelWrite, onWriteCompleted,
       completionRead, showAbout, dialogClosed, closeWindow, waitTimesOut, updateStartButtonState

-----------------------------------------------------------------------------
(* Every step keeps every part of the invariant.                           *)

(* The list of drives and what is selected in it.                          *)
LEMMA ListStep ==
  ASSUME WInv, [MWNext]_mwVars
  PROVE  devices' \in Seq(Entries) /\ combo' \in Nat \ {0}
<1>1. devices \in Seq(Entries) /\ combo \in Nat \ {0}
  BY DEF WInv, MWTypeOK
<1>2. CASE \E devs \in Lists : refreshDevices(devs) \/ onDevicesChanged(devs)
  BY <1>1, <1>2, MWAssumption DEF refreshDevices, onDevicesChanged
<1>3. CASE onDeviceSelected
  BY <1>1, <1>3 DEF onDeviceSelected
<1>4. CASE UNCHANGED listVars
  BY <1>1, <1>4
<1> QED
  BY <1>2, <1>3, <1>4, ListFrame DEF ListAction

(* The image, and the analyses under way.                                  *)
LEMMA ImageStep ==
  ASSUME WInv, [MWNext]_mwVars
  PROVE  /\ jobs' \subseteq (1..MaxPicks) \X ImageFile /\ picks' \in 0..MaxPicks
         /\ shownFile' \in ImageFile \cup {None} /\ file' \in ImageFile \cup {None}
         /\ analysis' \in Verdict
         /\ file' = None => analysis' = NoAnalysis
         /\ file' # None => analysis' \in Analyses[file']
         /\ NameSettles'
         /\ file # None => file' # None
<1>1. /\ jobs \subseteq (1..MaxPicks) \X ImageFile /\ picks \in 0..MaxPicks
      /\ shownFile \in ImageFile \cup {None} /\ file \in ImageFile \cup {None}
      /\ analysis \in Verdict
      /\ file = None => analysis = NoAnalysis
      /\ file # None => analysis \in Analyses[file]
      /\ NameSettles
  BY DEF WInv, MWTypeOK, ImageInv
<1>2. CASE fileChosen
  <2>1. CASE UNCHANGED <<picks, jobs, shownFile>>
    BY <1>1, <1>2, <2>1 DEF fileChosen, NameSettles
  <2>2. ASSUME NEW f \in ImageFile, picks < MaxPicks, picks' = picks + 1,
               jobs' = jobs \cup {<<picks', f>>}, shownFile' = f
        PROVE  /\ jobs' \subseteq (1..MaxPicks) \X ImageFile /\ picks' \in 0..MaxPicks
               /\ jobs' # {} /\ shownFile' \in ImageFile
    <3>1. picks' \in 1..MaxPicks
      BY <1>1, <2>2, MWAssumption
    <3>2. <<picks', f>> \in (1..MaxPicks) \X ImageFile
      BY <3>1, <2>2
    <3> QED
      BY <1>1, <2>2, <3>1, <3>2
  <2> QED
    BY <1>1, <1>2, <2>1, <2>2 DEF fileChosen, NameSettles
<1>3. CASE onIsoAnalyzed
  <2>1. PICK f \in ImageFile, a \in Verdict :
           /\ jobs' \subseteq jobs /\ a \in Analyses[f] /\ Taken(f, a) /\ picks' = picks
           /\ shownFile' = IF a.isValid THEN f ELSE None
    BY <1>3, AnalyzedFacts
  <2>2. f # None
    BY MWAssumption
  <2> QED
    BY <1>1, <2>1, <2>2 DEF Taken, NameSettles
<1>4. CASE UNCHANGED imageVars
  BY <1>1, <1>4 DEF NameSettles
<1> QED
  BY <1>2, <1>3, <1>4, ImageFrame

(* The configuration is of the image the window has.                       *)
LEMMA RequestStep ==
  ASSUME WInv, [MWNext]_mwVars
  PROVE  RequestOfOneImage'
<1>1. CASE confirmAnswered
  <2>1. file \in ImageFile /\ analysis \in Analyses[file]
    BY <1>1, AnswerFacts DEF confirmAnswered, WInv, MWTypeOK, ImageInv, Question
  <2>2. request' = None \/ UNCHANGED request \/ \E e \in DevRead(asked) : request' = Config(e.node)
    BY <1>1 DEF confirmAnswered, WriteConfig
  <2> QED
    BY <2>1, <2>2 DEF Config, isoPath, RequestOfOneImage, WInv, ImageInv
<1>2. CASE request' = None \/ UNCHANGED request
  BY <1>2 DEF RequestOfOneImage, WInv, ImageInv
<1> QED
  BY <1>1, <1>2, RequestFrame

(* The form.                                                               *)
LEMMA FormStep ==
  ASSUME WInv, [MWNext]_mwVars
  PROVE  form' \in FormOK /\ FitsInv' /\ edits' \in 0..MaxEdits
<1>1. form \in FormOK /\ FitsInv /\ edits \in 0..MaxEdits /\ analysis \in Verdict
  BY DEF WInv, MWTypeOK, FormOK
<1>2. CASE onIsoAnalyzed
  <2>1. PICK f \in ImageFile, a \in Verdict :
           /\ Taken(f, a) /\ edits' = edits /\ (~a.isValid => a = NoAnalysis)
           /\ form' = IF a.isValid THEN autoConfigureForIso(a) ELSE form
    BY <1>2, AnalyzedFacts
  <2>3. CASE a.isValid
    BY <1>1, <2>1, <2>3, AutoForm DEF Taken, FitsInv, LabelFits, fat32Blocked, isWindowsIso
  <2>4. CASE ~a.isValid
    <3>1. analysis' = NoAnalysis /\ form' = form /\ edits' = edits
      BY <2>1, <2>4 DEF Taken
    <3>2. ~fat32Blocked(NoAnalysis)
      BY DEF fat32Blocked, NoAnalysis
    <3>3. FitsInv'
      BY <1>1, <3>1, <3>2 DEF FitsInv, LabelFits, fat32Blocked, isWindowsIso
    <3> QED
      BY <1>1, <3>1, <3>3
  <2> QED
    BY <2>3, <2>4
<1>3. CASE HandEdit
  BY <1>3, EditFacts DEF GoodForm, FitsInv, LabelFits, fat32Blocked, isWindowsIso
<1>4. CASE hybridAnswered
  <2>1. GoodForm(form') /\ edits' = edits /\ analysis' = analysis
    BY <1>1, <1>4, HandForm DEF hybridAnswered, GoodForm, FitsInv
  <2> QED
    BY <1>1, <2>1 DEF GoodForm, FitsInv, LabelFits, fat32Blocked, isWindowsIso
<1>5. CASE UNCHANGED formVars
  <2>1. CASE fileChosen
    BY <1>1, <1>5, <2>1 DEF fileChosen, FitsInv, LabelFits, fat32Blocked, isWindowsIso
  <2>2. CASE UNCHANGED imageVars
    BY <1>1, <1>5, <2>2 DEF FitsInv, LabelFits, fat32Blocked, isWindowsIso
  <2> QED
    BY <1>2, <2>1, <2>2, ImageFrame
<1> QED
  BY <1>2, <1>3, <1>4, <1>5, FormFrame

(* Drives and image change only where START is looked at again, or where   *)
(* it need not be.                                                         *)
LEMMA ButtonStep ==
  ASSUME WInv, [MWNext]_mwVars
  PROVE  /\ startBtn' \in BOOLEAN /\ cancelBtn' \in BOOLEAN /\ isWriting' \in BOOLEAN
         /\ ButtonsRight'
<1>1. /\ startBtn \in BOOLEAN /\ cancelBtn \in BOOLEAN /\ isWriting \in BOOLEAN
      /\ ButtonsRight /\ analysis.isValid \in BOOLEAN
  BY DEF WInv, MWTypeOK, Verdict
<1>2. ASSUME NEW devs, NEW a \in Verdict, updateStartButtonState(devs, a), devices' = devs,
             analysis' = a
      PROVE  /\ startBtn' \in BOOLEAN /\ cancelBtn' \in BOOLEAN /\ isWriting' \in BOOLEAN
             /\ ButtonsRight'
  BY <1>1, <1>2 DEF updateStartButtonState, canStart, ButtonsRight, Verdict
<1>3. analysis \in Verdict
  BY DEF WInv, MWTypeOK
<1>4. CASE ListAction
  BY <1>2, <1>3, <1>4 DEF ListAction, refreshDevices, onDevicesChanged, onDeviceSelected
<1>5. CASE onIsoAnalyzed
  <2>1. PICK f \in ImageFile, a \in Verdict :
           /\ Taken(f, a) /\ devices' = devices
           /\ IF a.isValid THEN updateStartButtonState(devices, a) ELSE UNCHANGED buttonVars
    BY <1>5, AnalyzedFacts
  <2>2. CASE a.isValid
    BY <1>2, <2>1, <2>2 DEF Taken
  <2>3. CASE ~a.isValid
    BY <1>1, <2>1, <2>3 DEF Taken, ButtonsRight
  <2> QED
    BY <2>2, <2>3
<1>6. CASE UNCHANGED <<devices, analysis>>
  <2>1. CASE HandEdit
    BY <1>1, <1>2, <1>3, <1>6, <2>1, EditFacts DEF ButtonsRight
  <2>2. CASE confirmAnswered
    <3>1. \/ UNCHANGED buttonVars
          \/ isWriting' = TRUE /\ startBtn' = FALSE /\ cancelBtn' = TRUE
      BY <2>2 DEF confirmAnswered
    <3>2. CASE UNCHANGED buttonVars
      BY <1>1, <1>6, <3>2 DEF ButtonsRight
    <3>3. CASE isWriting' = TRUE /\ startBtn' = FALSE /\ cancelBtn' = TRUE
      BY <1>6, <3>3 DEF ButtonsRight
    <3> QED
      BY <3>1, <3>2, <3>3
  <2>3. CASE onWriteCompleted
    BY <1>1, <1>6, <2>3 DEF onWriteCompleted, ButtonsRight
  <2>4. CASE UNCHANGED buttonVars
    BY <1>1, <1>6, <2>4 DEF ButtonsRight
  <2> QED
    BY <1>4, <1>5, <2>1, <2>2, <2>3, <2>4, ButtonFrame
<1>7. CASE fileChosen
  BY <1>6, <1>7 DEF fileChosen
<1> QED
  BY <1>4, <1>5, <1>6, <1>7, ListFrame, ImageFrame

DialogPart ==
  /\ dialogs \in Seq(Dialog)
  /\ asked \in Reference \cup {None}
  /\ backend \in {"none", "asking", "own", "root", "notStarted", "ok", "failed", "finished"}
  /\ gui \in {"open", "closing", "closed"}
  /\ DialogsInv

(* What is not about a dialog leaves them alone, or kills the backend.     *)
LEMMA BackendKeeps ==
  ASSUME WInv, UNCHANGED <<dialogs, isWriting>>, file # None => file' # None,
         gui' \in {"open", "closing", "closed"},
         asked' \in Reference \cup {None}, asked' = None <=> asked = None,
         \/ backend' = backend
         \/ /\ backend \notin {"none", "finished"}
            /\ backend' \in {"asking", "own", "root", "notStarted", "ok", "failed"}
  PROVE  DialogPart'
BY DEF WInv, MWTypeOK, DialogPart, DialogsInv, Asking

(* A dialog that asks for nothing opens where the window has the input.    *)
LEMMA PlainOpens ==
  ASSUME WInv, dialogs = <<>>, NEW d \in Plain, Open(d),
         UNCHANGED <<asked, backend, gui, isWriting>>
  PROVE  DialogPart'
<1>1. dialogs \in Seq(Dialog) /\ Len(dialogs) = 0 /\ d \in Dialog
  BY DEF WInv, MWTypeOK, Plain, Dialog
<1>2. dialogs' \in Seq(Dialog) /\ Len(dialogs') = 1 /\ dialogs'[1] = d
  BY <1>1, OpenedFacts
<1> QED
  BY <1>1, <1>2 DEF WInv, MWTypeOK, DialogPart, DialogsInv, Asking, Plain, Question, End

(* A question that is answered, with nothing asked any more.               *)
LEMMA QuestionCloses ==
  ASSUME WInv, NEW d \in Question, Answer(d), dialogs' = Tail(dialogs), asked' = None,
         UNCHANGED gui,
         \/ UNCHANGED <<backend, isWriting>>
         \/ isWriting' = TRUE /\ backend' \in {"asking", "own", "notStarted"}
  PROVE  DialogPart'
<1>1. /\ dialogs' \in Seq(Dialog) /\ Len(dialogs') = 0
      /\ backend = "none" /\ ~isWriting
  BY AnswerFacts
<1>2. ~Asking' /\ asked' = None
  BY <1>1 DEF Asking
<1>3. /\ backend' \in {"none", "asking", "own", "notStarted"}
      /\ isWriting' <=> backend' # "none"
  BY <1>1
<1>4. DialogsInv'
  BY <1>1, <1>2, <1>3 DEF DialogsInv
<1> QED
  BY <1>1, <1>2, <1>3, <1>4 DEF WInv, MWTypeOK, DialogPart

(* startWrite, or the answer to its first question, asks.                  *)
LEMMA QuestionOpens ==
  ASSUME WInv, NEW under, under = <<>>, NEW d \in {"hybrid", "confirm", "noWimlib"},
         dialogs' = <<d>> \o under, backend = "none", file # None, file' # None,
         asked' \in Reference \cup {None}, asked' # None <=> d \in Question,
         UNCHANGED <<backend, isWriting, gui>>
  PROVE  DialogPart'
<1>1. under \in Seq(Dialog) /\ d \in Dialog /\ Len(under) = 0
  BY DEF Dialog
<1>2. dialogs' \in Seq(Dialog) /\ Len(dialogs') = 1 /\ dialogs'[1] = d
  BY <1>1, OpenFacts
<1> QED
  BY <1>2 DEF WInv, MWTypeOK, DialogPart, DialogsInv, Asking, Question, End

(* START, pressed or called.                                               *)
LEMMA StartKeeps ==
  ASSUME WInv, startWrite, file # None => file' # None
  PROVE  DialogPart'
<1>1. /\ dialogs = <<>> /\ devices \in Seq(Entries) /\ combo \in DOMAIN devices
      /\ UNCHANGED <<backend, isWriting, gui>>
  BY DEF startWrite, Input, WInv, MWTypeOK
<1>2. backend = "none" /\ file # None
  <2>1. ~isWriting /\ Len(dialogs) = 0
    BY <1>1 DEF startWrite, WInv, ButtonsRight
  <2>2. analysis # NoAnalysis
    <3>1. NoAnalysis.isValid = FALSE
      BY DEF NoAnalysis
    <3> QED
      BY <3>1 DEF startWrite
  <2> QED
    BY <2>1, <2>2 DEF WInv, DialogsInv, ImageInv
<1> DEFINE dev == [entry |-> devices[combo], stale |-> FALSE, named |-> None]
<1>3. dev \in Reference /\ dev # None
  <2>1. devices[combo] \in Entries
    BY <1>1
  <2>2. dev \in Reference
    BY <2>1 DEF Reference
  <2> QED
    BY <2>2, MWAssumption
<1>4. CASE Open("hybrid") /\ asked' = dev
  <2> HIDE DEF dev
  <2> QED
    BY <1>1, <1>2, <1>3, <1>4, QuestionOpens DEF Open, Question
<1>5. CASE AskToConfirm(dev, dialogs)
  <2> HIDE DEF dev
  <2>1. /\ asked' \in Reference \cup {None}
        /\ \/ dialogs' = <<"confirm">> \o dialogs /\ asked' # None
           \/ dialogs' = <<"noWimlib">> \o dialogs /\ asked' = None
    BY <1>1, <1>3, <1>5, AskFacts
  <2> QED
    BY <1>1, <1>2, <2>1, QuestionOpens DEF Question
<1> QED
  BY <1>4, <1>5 DEF startWrite

(* The answer to the first question asks the second, or ends startWrite.   *)
LEMMA HybridKeeps ==
  ASSUME WInv, hybridAnswered, file # None => file' # None
  PROVE  DialogPart'
<1>1. /\ Len(dialogs) = 1 /\ asked \in Reference /\ backend = "none" /\ file # None
      /\ Tail(dialogs) \in Seq(Dialog) /\ Len(Tail(dialogs)) = 0
  BY AnswerFacts DEF hybridAnswered, Question
<1>2. Answer("hybrid") /\ UNCHANGED <<backend, isWriting, gui>> /\ devices \in Seq(Entries)
  BY DEF hybridAnswered, WInv, MWTypeOK
<1>3. CASE AskToConfirm(asked, Tail(dialogs))
  <2>1. /\ asked' \in Reference \cup {None}
        /\ \/ dialogs' = <<"confirm">> \o Tail(dialogs) /\ asked' # None
           \/ dialogs' = <<"noWimlib">> \o Tail(dialogs) /\ asked' = None
    BY <1>1, <1>2, <1>3, AskFacts
  <2>2. Tail(dialogs) = <<>>
    BY <1>1, EmptySeq
  <2> QED
    BY <1>1, <1>2, <2>1, <2>2, QuestionOpens DEF Question
<1>4. CASE dialogs' = Tail(dialogs) /\ asked' = None
  BY <1>2, <1>4, QuestionCloses DEF Question
<1> QED
  BY <1>3, <1>4 DEF hybridAnswered

(* The answer to the second starts a backend, or ends startWrite.          *)
LEMMA ConfirmKeeps ==
  ASSUME WInv, confirmAnswered
  PROVE  DialogPart'
<1>1. /\ Answer("confirm") /\ dialogs' = Tail(dialogs) /\ asked' = None /\ UNCHANGED gui
      /\ \/ UNCHANGED <<backend, isWriting>>
         \/ isWriting' = TRUE /\ backend' \in {"asking", "own", "notStarted"}
  BY DEF confirmAnswered
<1>2. "confirm" \in Question
  BY DEF Question
<1> QED
  BY <1>1, <1>2, QuestionCloses

(* The end of a write may be told over a dialog, but not over a question.  *)
LEMMA CompletedKeeps ==
  ASSUME WInv, onWriteCompleted
  PROVE  DialogPart'
<1>1. /\ dialogs \in Seq(Dialog) /\ Len(dialogs) <= 2 /\ backend \in {"ok", "failed"}
      /\ Len(dialogs) >= 1 => dialogs[1] \notin End
      /\ ~Asking /\ asked = None
  BY DEF WInv, MWTypeOK, DialogsInv, onWriteCompleted
<1>2. Len(dialogs) \in 0..1
  <2>1. Len(dialogs) \in Nat
    BY <1>1
  <2>2. Len(dialogs) # 2
    <3>1. Len(dialogs) = 2 => dialogs[1] \in End
      BY DEF WInv, DialogsInv
    <3> QED
      BY <1>1, <3>1
  <2>3. Len(dialogs) <= 2
    BY <1>1
  <2> HIDE DEF End
  <2> DEFINE n == Len(dialogs)
  <2>4. n \in Nat /\ n <= 2 /\ n # 2
    BY <2>1, <2>2, <2>3
  <2> HIDE DEF n
  <2>5. n \in 0..1
    BY <2>4
  <2> QED
    BY <2>5 DEF n
<1>3. Len(dialogs) = 1 => dialogs[1] \in Plain
  BY <1>1, <1>2 DEF Asking, Plain, Question, End, Dialog
<1>4. PICK d \in End : Open(d)
  BY DEF onWriteCompleted, End
<1>5. /\ dialogs' \in Seq(Dialog) /\ Len(dialogs') = Len(dialogs) + 1 /\ dialogs'[1] \in End
      /\ Len(dialogs) >= 1 => dialogs'[2] = dialogs[1]
  BY <1>1, <1>4, OpenedFacts DEF End, Dialog
<1>6. backend' = "finished" /\ asked' = asked /\ gui' = gui /\ ~isWriting'
  BY DEF onWriteCompleted
<1>7. ~Asking'
  BY <1>5 DEF Asking, Question, End
<1>8. DialogsInv'
  <2>1. Len(dialogs') \in 1..2 /\ (Len(dialogs') = 2 => Len(dialogs) = 1)
    <3> DEFINE n == Len(dialogs)
               m == Len(dialogs')
    <3>1. n \in 0..1 /\ m = n + 1
      BY <1>2, <1>5
    <3> HIDE DEF n, m
    <3>2. m \in 1..2 /\ (m = 2 => n = 1)
      BY <3>1
    <3> QED
      BY <3>2 DEF n, m
  <2>2. ASSUME Len(dialogs') = 2
        PROVE  dialogs'[1] \in End /\ dialogs'[2] \in Plain
    <3>1. Len(dialogs) = 1
      BY <2>1, <2>2
    <3>2. dialogs[1] \in Plain /\ Len(dialogs) >= 1
      BY <3>1, <1>3
    <3>3. dialogs'[2] = dialogs[1]
      BY <3>2, <1>5
    <3> QED
      BY <3>2, <3>3, <1>5
  <2>3. asked' = None
    BY <1>1, <1>6
  <2> QED
    BY <1>5, <1>6, <1>7, <2>1, <2>2, <2>3 DEF DialogsInv
<1> QED
  BY <1>1, <1>5, <1>6, <1>8 DEF WInv, MWTypeOK, DialogPart

(* Closing a dialog uncovers the one below, which asks nothing.            *)
LEMMA ClosingKeeps ==
  ASSUME WInv, NEW d \in Plain \cup End, Answer(d), dialogs' = Tail(dialogs),
         UNCHANGED <<asked, isWriting>>,
         backend' = IF d \in End THEN "none" ELSE backend,
         gui' \in {"open", "closing", "closed"}
  PROVE  DialogPart'
<1>1. /\ Len(dialogs) \in 1..2 /\ dialogs[1] = d
      /\ dialogs' \in Seq(Dialog) /\ Len(dialogs') = Len(dialogs) - 1
      /\ Len(dialogs) = 2 => dialogs'[1] = dialogs[2]
  BY AnswerFacts
<1>2. asked' = None
  BY <1>1 DEF WInv, DialogsInv, Asking, Plain, End, Question
<1>3. Len(dialogs) = 2 => dialogs[1] \in End /\ dialogs[2] \in Plain
  BY DEF WInv, DialogsInv
<1>4. Len(dialogs') \in 0..1 /\ (Len(dialogs') = 1 => dialogs'[1] \in Plain)
  BY <1>1, <1>3
<1>5. ~Asking' /\ ~(Len(dialogs') >= 1 /\ dialogs'[1] \in End)
  BY <1>4 DEF Asking, Plain, End, Question
<1>6. backend' # "finished" /\ (isWriting' <=> backend' \notin {"none", "finished"})
  BY <1>1 DEF WInv, DialogsInv, Plain, End
<1>7. DialogsInv'
  <2>1. Len(dialogs') <= 2 /\ Len(dialogs') # 2
    <3> DEFINE m == Len(dialogs')
    <3>1. m \in 0..1
      BY <1>4
    <3> HIDE DEF m
    <3>2. m <= 2 /\ m # 2
      BY <3>1
    <3> QED
      BY <3>2 DEF m
  <2>2. backend' = "finished" <=> (Len(dialogs') >= 1 /\ dialogs'[1] \in End)
    BY <1>5, <1>6
  <2>3. Len(dialogs') = 2 => dialogs'[1] \in End /\ dialogs'[2] \in Plain
    BY <2>1
  <2>4. (Asking' <=> asked' # None) /\ (Asking' => backend' = "none" /\ file' # None)
    BY <1>2, <1>5
  <2> QED
    BY <1>6, <2>1, <2>2, <2>3, <2>4 DEF DialogsInv
<1>8. backend' \in {"none", "asking", "own", "root", "notStarted", "ok", "failed", "finished"}
  BY DEF WInv, MWTypeOK
<1> QED
  BY <1>1, <1>2, <1>7, <1>8 DEF DialogPart

BackendAction ==
  \/ \E devs \in Lists : refreshDevices(devs) \/ onDevicesChanged(devs)
  \/ onDeviceSelected \/ onIsoAnalyzed \/ HandEdit \/ Crash
  \/ pkexecAnswered \/ backendEnds \/ cancelWrite \/ closeWindow \/ waitTimesOut

(* What happens to the backend, and what it does to the dialogs.           *)
LEMMA BackendActionKeeps ==
  ASSUME WInv, BackendAction, file # None => file' # None
  PROVE  DialogPart'
<1>1. /\ backend \in {"none", "asking", "own", "root", "notStarted", "ok", "failed", "finished"}
      /\ gui \in {"open", "closing", "closed"} /\ asked \in Reference \cup {None}
  BY DEF WInv, MWTypeOK
<1>2. /\ UNCHANGED dialogs
      /\ gui' \in {"open", "closing", "closed"}
      /\ \/ backend' = backend
         \/ /\ backend \notin {"none", "finished"}
            /\ backend' \in {"asking", "own", "root", "notStarted", "ok", "failed"}
  BY <1>1 DEF BackendAction, HandEdit, Edit, refreshDevices, onDevicesChanged, onDeviceSelected,
       onIsoAnalyzed, onWriteModeChanged, onPartitionSchemeChanged, onTargetSystemChanged,
       onFileSystemChanged, labelEdited, Crash, pkexecAnswered, backendEnds, cancelWrite,
       closeWindow, waitTimesOut, Killed
<1>3. UNCHANGED isWriting
  BY DEF BackendAction, HandEdit, Edit, refreshDevices, onDevicesChanged, onDeviceSelected,
       onIsoAnalyzed, onWriteModeChanged, onPartitionSchemeChanged, onTargetSystemChanged,
       onFileSystemChanged, labelEdited, Crash, pkexecAnswered, backendEnds, cancelWrite,
       closeWindow, waitTimesOut, updateStartButtonState
<1>4. asked' \in Reference \cup {None} /\ (asked' = None <=> asked = None)
  <2>1. CASE \E devs \in Lists : onDevicesChanged(devs)
    <3>1. asked' = IF asked = None THEN None ELSE [asked EXCEPT !.stale = TRUE]
      BY <2>1 DEF onDevicesChanged
    <3>2. asked \in Reference => [asked EXCEPT !.stale = TRUE] \in Reference
      BY DEF Reference
    <3> QED
      BY <1>1, <3>1, <3>2, MWAssumption
  <2>2. CASE UNCHANGED asked
    BY <1>1, <2>2
  <2>3. UNCHANGED asked \/ \E devs \in Lists : onDevicesChanged(devs)
    BY DEF BackendAction, HandEdit, Edit, refreshDevices, onDeviceSelected,
       onIsoAnalyzed, onWriteModeChanged, onPartitionSchemeChanged, onTargetSystemChanged,
       onFileSystemChanged, labelEdited, Crash, pkexecAnswered, backendEnds, cancelWrite,
       closeWindow, waitTimesOut
  <2> QED
    BY <2>1, <2>2, <2>3
<1> QED
  BY <1>2, <1>3, <1>4, BackendKeeps

(* Whatever opens, answers or closes a dialog keeps their order.           *)
LEMMA DialogStep ==
  ASSUME WInv, [MWNext]_mwVars
  PROVE  DialogPart'
<1>1. file # None => file' # None
  BY ImageStep
<1>2. CASE BackendAction
  BY <1>1, <1>2, BackendActionKeeps
<1>3. CASE UNCHANGED mwVars
  BY <1>3 DEF WInv, MWTypeOK, DialogPart, DialogsInv, Asking
<1>4. CASE browseIso \/ showAbout
  <2>1. /\ dialogs = <<>> /\ UNCHANGED <<asked, backend, gui, isWriting>>
        /\ Open("file") \/ Open("about")
    BY <1>4 DEF browseIso, showAbout, Input
  <2> QED
    BY <2>1, PlainOpens DEF Plain
<1>5. CASE fileChosen \/ dialogClosed
  <2>1. /\ dialogs' = Tail(dialogs) /\ UNCHANGED <<asked, backend, gui, isWriting>>
        /\ Answer("file") \/ Answer("about") \/ Answer("noWimlib")
    BY <1>5 DEF fileChosen, dialogClosed
  <2>2. {"file", "about", "noWimlib"} \cap End = {} /\ gui' \in {"open", "closing", "closed"}
    BY <2>1 DEF End, WInv, MWTypeOK
  <2> QED
    BY <2>1, <2>2, ClosingKeeps DEF Plain
<1>6. CASE completionRead
  <2>1. /\ dialogs' = Tail(dialogs) /\ UNCHANGED <<asked, isWriting>> /\ backend' = "none"
        /\ Answer("success") \/ Answer("failure")
        /\ gui' \in {"open", "closing", "closed"}
    BY <1>6 DEF completionRead, WInv, MWTypeOK
  <2> QED
    BY <2>1, ClosingKeeps DEF End
<1>7. CASE startWrite
  BY <1>1, <1>7, StartKeeps
<1>8. CASE hybridAnswered
  BY <1>1, <1>8, HybridKeeps
<1>9. CASE confirmAnswered
  BY <1>9, ConfirmKeeps
<1>10. CASE onWriteCompleted
  BY <1>10, CompletedKeeps
<1> QED
  BY <1>2, <1>3, <1>4, <1>5, <1>6, <1>7, <1>8, <1>9, <1>10
     DEF MWNext, User, Events, HandEdit, BackendAction

(* The parts together.                                                     *)
LEMMA WNext == WInv /\ [MWNext]_mwVars => WInv'
<1> SUFFICES ASSUME WInv, [MWNext]_mwVars PROVE WInv'
  OBVIOUS
<1>1. DialogPart'
  BY DialogStep
<1>2. MWTypeOK'
  BY <1>1, ListStep, ImageStep, FormStep, ButtonStep DEF MWTypeOK, DialogPart, FormOK
<1>3. ImageInv'
  BY ImageStep, RequestStep DEF ImageInv
<1> QED
  BY <1>1, <1>2, <1>3, FormStep, ButtonStep DEF WInv, DialogPart

(* A write starts where there is no backend, and a backend is let go of    *)
(* when its end has been read.                                             *)
LEMMA BackendStep ==
  ASSUME WInv, [MWNext]_mwVars
  PROVE  /\ (isWriting' /\ ~isWriting) => backend = "none"
         /\ backend' = "none" => backend \in {"none", "finished"}
<1>1. (isWriting' /\ ~isWriting) => backend = "none"
  <2>1. CASE confirmAnswered
    BY <2>1, AnswerFacts DEF confirmAnswered, Question
  <2>2. CASE onWriteCompleted
    BY <2>2 DEF onWriteCompleted
  <2>3. CASE UNCHANGED isWriting
    BY <2>3
  <2>4. ListAction \/ UNCHANGED buttonVars => UNCHANGED isWriting
    BY DEF ListAction, refreshDevices, onDevicesChanged, onDeviceSelected, updateStartButtonState
  <2>5. onIsoAnalyzed \/ HandEdit => UNCHANGED isWriting
    BY DEF onIsoAnalyzed, HandEdit, Edit, onWriteModeChanged, onPartitionSchemeChanged,
           onTargetSystemChanged, onFileSystemChanged, labelEdited, updateStartButtonState
  <2>6. confirmAnswered \/ onWriteCompleted \/ UNCHANGED isWriting
    BY <2>4, <2>5, ButtonFrame
  <2> QED
    BY <2>1, <2>2, <2>3, <2>6
<1>2. backend' = "none" => backend \in {"none", "finished"}
  <2>1. CASE completionRead
    <3>1. PICK d \in End : Answer(d)
      BY <2>1 DEF completionRead, End
    <3>2. Len(dialogs) \in 1..2 /\ dialogs[1] \in End
      BY <3>1, AnswerFacts
    <3>3. Len(dialogs) >= 1
      BY <3>2
    <3> QED
      BY <3>2, <3>3 DEF WInv, DialogsInv
  <2>2. CASE \/ UNCHANGED backend
             \/ backend' \in {"asking", "own", "root", "notStarted", "ok", "failed", "finished"}
    BY <2>2
  <2>3. CASE confirmAnswered
    BY <2>3 DEF confirmAnswered
  <2> QED
    BY <2>1, <2>2, <2>3
       DEF MWNext, User, Events, Edit, refreshDevices, onDevicesChanged, onDeviceSelected,
           browseIso, fileChosen, onIsoAnalyzed, onWriteModeChanged, onPartitionSchemeChanged,
           onTargetSystemChanged, onFileSystemChanged, labelEdited, startWrite,
           hybridAnswered, Crash, pkexecAnswered, backendEnds, cancelWrite, onWriteCompleted,
           showAbout, dialogClosed, closeWindow, waitTimesOut, Killed
<1> QED
  BY <1>1, <1>2

(* An analysis is taken in onIsoAnalyzed, which sets the form for it.      *)
LEMMA ConfigureStep ==
  ASSUME WInv, [MWNext]_mwVars, analysis' # analysis, analysis'.isValid, analysis'.bootMode # {}
  PROVE  Target(form') = analysis'.bootMode
<1>1. onIsoAnalyzed
  BY ImageFrame DEF fileChosen
<1>2. PICK a \in Verdict : analysis' = a /\ form' = IF a.isValid THEN autoConfigureForIso(a) ELSE form
  BY <1>1, AnalyzedFacts DEF Taken
<1>3. form \in FormOK /\ LabelFits(form)
  BY DEF WInv, MWTypeOK, FormOK, FitsInv
<1> QED
  BY <1>2, <1>3, AutoForm

(* The invariant the theorems below follow from.                           *)
LEMMA WindowInvariant == MWSpec => []WInv
BY WInit, WNext, PTL DEF MWSpec

-----------------------------------------------------------------------------
(* The theorems.                                                           *)

(* The state of the window stays within its types, and the target chosen   *)
(* is always one that the target list of the scheme has (Targets, refilled *)
(* by onPartitionSchemeChanged).                                           *)
THEOREM WindowTypes == MWSpec => []MWTypeOK
<1>1. WInv => MWTypeOK
  BY DEF WInv
<1> QED
  BY WindowInvariant, <1>1, PTL

(* START and CANCEL of an open window can be trusted, in whatever order    *)
(* hotplugs, analyses, dialogs and the end of the backend come.            *)
THEOREM ButtonsAreRight == MWSpec => []ButtonsRight
<1>1. WInv => ButtonsRight
  BY DEF WInv
<1> QED
  BY WindowInvariant, <1>1, PTL

(* No file system is selected that the image or the label does not fit:    *)
(* FAT32 is out of reach by hand as long as it is blocked, and whatever    *)
(* changes the file system or the label looks at the label.                *)
THEOREM FormAlwaysFits == MWSpec => []FormFits
<1>1. WInv => FormFits
  BY DEF WInv, FitsInv, FormFits, LabelFits
<1> QED
  BY WindowInvariant, <1>1, PTL

(* Once no analysis is under way, the window names the file it would       *)
(* write, however many were picked and in what order they finished.        *)
THEOREM NameAlwaysSettles == MWSpec => []NameSettles
<1>1. WInv => NameSettles
  BY DEF WInv, ImageInv
<1> QED
  BY WindowInvariant, <1>1, PTL

(* The configuration startWrite writes is that of one analysis of one      *)
(* file, although an analysis may finish while it waits for an answer.     *)
THEOREM RequestIsOfOneImage == MWSpec => []RequestOfOneImage
<1>1. WInv => RequestOfOneImage
  BY DEF WInv, ImageInv
<1> QED
  BY WindowInvariant, <1>1, PTL

(* startWrite starts a backend only when there is none, and only the end   *)
(* of onWriteCompleted lets go of one: its modal message keeps the second  *)
(* write out until then.                                                   *)
THEOREM OneBackendOnly == MWSpec => OneBackend
<1>1. WInv /\ [MWNext]_mwVars =>
        [ /\ (isWriting' /\ ~isWriting) => backend = "none"
          /\ backend' = "none" => backend \in {"none", "finished"} ]_mwVars
  BY BackendStep
<1> QED
  BY WindowInvariant, <1>1, PTL DEF MWSpec, OneBackend

(* autoConfigureForIso leaves the target the image can boot with selected, *)
(* although each combo box refills the next.                               *)
THEOREM FormIsAutoConfigured == MWSpec => AutoConfigured
<1>1. WInv /\ [MWNext]_mwVars =>
        [analysis' # analysis /\ analysis'.isValid /\ analysis'.bootMode # {} =>
           Target(form') = analysis'.bootMode]_mwVars
  BY ConfigureStep
<1> QED
  BY WindowInvariant, <1>1, PTL DEF MWSpec, AutoConfigured
=============================================================================
