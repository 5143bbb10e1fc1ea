--------------------------- MODULE IsoScanProofs ----------------------------
(***************************************************************************)
(* What holds of an analysis for every image, catalog and directory tree.  *)
(***************************************************************************)
EXTENDS IsoScanDirectories

USE DEF vars, catalogVars, fileVars, mountVars

(* A device that losetup returned is there only while loopDev names it or  *)
(* when losetup -d has failed, a mount that succeeded only where umount is *)
(* still to come or when it has failed.                                    *)
MountInv ==
  /\ "loop" \in host => loopDev \/ "loop" \in unreleased
  /\ "mount" \in host => pc = "mounted" \/ "mount" \in unreleased
  /\ loopDev => pc \in {"mountLoop", "mounted"} \/ "loop" \notin host \/ "loop" \in unreleased

(* Nothing is attached before the first scan.                              *)
LEMMA MountInvInit == Init => MountInv
BY DEF Init, MountInv

(* Every way out of scanViaMount detaches what the way in attached.        *)
LEMMA MountInvNext == MountInv /\ [Next]_vars => MountInv'
<1> SUFFICES ASSUME MountInv, [Next]_vars PROVE MountInv'
  OBVIOUS
<1>1. CASE readPrimaryVolumeDescriptor
  BY <1>1 DEF readPrimaryVolumeDescriptor, MountInv
<1>2. CASE readElToritoBootRecord
  BY <1>2 DEF readElToritoBootRecord, MountInv
<1>3. CASE readSectionHeader
  BY <1>3 DEF readSectionHeader, MountInv
<1>4. CASE readSectionEntry
  BY <1>4 DEF readSectionEntry, MountInv
<1>5. CASE scanDirectoryTree
  BY <1>5 DEF scanDirectoryTree, MountInv
<1>6. CASE lookForInstaller
  BY <1>6 DEF lookForInstaller, Step, MountInv
<1>7. CASE scanVia7z
  BY <1>7 DEF scanVia7z, Step, MountInv
<1>8. CASE losetup
  BY <1>8 DEF losetup, GivenUp, Step, MountInv
<1>9. CASE mountLoop
  BY <1>9 DEF mountLoop, Mount, Release, Step, MountInv
<1>10. CASE mountLegacy
  BY <1>10 DEF mountLegacy, Mount, GivenUp, Step, MountInv
<1>11. CASE scanMountedDir
  BY <1>11 DEF scanMountedDir, Release, Step, MountInv
<1>12. CASE classify
  BY <1>12 DEF classify, MountInv
<1>13. CASE UNCHANGED vars
  BY <1>13 DEF MountInv
<1> QED
  BY <1>1, <1>2, <1>3, <1>4, <1>5, <1>6, <1>7, <1>8, <1>9, <1>10, <1>11, <1>12, <1>13 DEF Next

(* No mount that succeeded and no device that losetup returned is          *)
(* forgotten by an analysis, whichever commands of scanViaMount fail, the  *)
(* umount and the losetup -d at its end (iso_analyzer.cpp:374) among them. *)
THEOREM NothingIsLeft == Spec => []NothingLeft
<1>1. MountInv => NothingLeft
  BY DEF MountInv, NothingLeft
<1> QED
  BY <1>1, MountInvInit, MountInvNext, PTL DEF Spec

(* Induction on the natural numbers, for a set of them.                    *)
LEMMA NatSetInduction ==
  ASSUME NEW S, 0 \in S, \A n \in Nat : n \in S => n + 1 \in S
  PROVE  Nat \subseteq S
<1> DEFINE T    == Nat \ S
           Less == {ij \in Nat \X Nat : ij[1] < ij[2]}
<1>1. SUFFICES ASSUME T # {} PROVE FALSE
  OBVIOUS
<1>2. PICK x \in T : \A y \in T : ~(<<y, x>> \in Less)
  <2>1. IsWellFoundedOn(Less, Nat)
    BY NatLessThanWellFounded DEF OpToRel
  <2>2. T \subseteq Nat
    OBVIOUS
  <2> HIDE DEF T, Less
  <2> QED
    BY <1>1, <2>1, <2>2, WFMin
<1>3. x # 0 /\ x \in Nat
  OBVIOUS
<1>4. x - 1 \in Nat /\ x - 1 \in T
  BY <1>3
<1>5. <<x - 1, x>> \in Less
  BY <1>3, <1>4
<1> QED
  BY <1>2, <1>4, <1>5

(* A list of lists that are put together from the last one on.             *)
Joined(g, H, a, n) == g = [i \in a..(n + 1) |-> IF i > n THEN <<>> ELSE H[i] \o g[i + 1]]

(* There is such a list: by induction from the last one on.                *)
LEMMA JoinedExists ==
  ASSUME NEW n \in Nat, NEW H
  PROVE  \E g : Joined(g, H, 1, n)
<1> DEFINE S == {m \in Nat : m <= n => \E g : Joined(g, H, n + 1 - m, n)}
<1>1. 0 \in S
  <2> DEFINE g == [i \in (n + 1)..(n + 1) |-> <<>>]
  <2>1. g = [i \in (n + 1)..(n + 1) |-> IF i > n THEN <<>> ELSE H[i] \o g[i + 1]]
    <3>1. \A i \in (n + 1)..(n + 1) : i > n
      OBVIOUS
    <3>2. g = [i \in (n + 1)..(n + 1) |-> g[i]] /\ \A i \in (n + 1)..(n + 1) : g[i] = <<>>
      OBVIOUS
    <3> HIDE DEF g
    <3>3. \A i \in (n + 1)..(n + 1) : g[i] = IF i > n THEN <<>> ELSE H[i] \o g[i + 1]
      BY <3>1, <3>2
    <3> QED
      BY <3>2, <3>3
  <2>2. n + 1 - 0 = n + 1
    OBVIOUS
  <2> HIDE DEF g
  <2>3. Joined(g, H, n + 1 - 0, n)
    BY <2>1, <2>2 DEF Joined
  <2> QED
    BY <2>3
<1>2. ASSUME NEW m \in Nat, m \in S PROVE m + 1 \in S
  <2> SUFFICES ASSUME m + 1 <= n PROVE \E g : Joined(g, H, n + 1 - (m + 1), n)
    OBVIOUS
  <2>1. PICK g : Joined(g, H, n + 1 - m, n)
    BY <1>2
  <2> DEFINE a == n + 1 - m
             f == [i \in (a - 1)..(n + 1) |-> IF i = a - 1 THEN H[i] \o g[i + 1] ELSE g[i]]
  <2>2. a \in Nat /\ a - 1 \in Nat /\ a <= n + 1 /\ a - 1 <= n /\ n + 1 - (m + 1) = a - 1
    OBVIOUS
  <2>3. g = [i \in a..(n + 1) |-> IF i > n THEN <<>> ELSE H[i] \o g[i + 1]]
    BY <2>1 DEF Joined
  <2> HIDE DEF a
  <2>4. ASSUME NEW i \in (a - 1)..(n + 1)
        PROVE  f[i] = IF i > n THEN <<>> ELSE H[i] \o f[i + 1]
    <3>1. CASE i = a - 1
      <4>1. i + 1 = a /\ a \in (a - 1)..(n + 1) /\ a # a - 1 /\ ~(i > n)
        BY <2>2, <3>1
      <4>2. f[i] = H[i] \o g[a] /\ f[a] = g[a]
        BY <3>1, <4>1
      <4> QED
        BY <4>1, <4>2
    <3>2. CASE i # a - 1
      <4>1. i \in a..(n + 1) /\ f[i] = g[i]
        BY <2>2, <3>2
      <4>2. g[i] = IF i > n THEN <<>> ELSE H[i] \o g[i + 1]
        <5> HIDE DEF f
        <5> QED
          BY <2>3, <4>1
      <4>3. i <= n => i + 1 \in (a - 1)..(n + 1) /\ i + 1 # a - 1
        BY <2>2, <4>1
      <4>4. i <= n => f[i + 1] = g[i + 1]
        BY <4>3
      <4> HIDE DEF f
      <4> QED
        BY <2>2, <4>1, <4>2, <4>4
    <3> QED
      BY <3>1, <3>2
  <2>5. f = [i \in (a - 1)..(n + 1) |-> f[i]]
    OBVIOUS
  <2> HIDE DEF f
  <2>6. f = [i \in (a - 1)..(n + 1) |-> IF i > n THEN <<>> ELSE H[i] \o f[i + 1]]
    BY <2>4, <2>5
  <2>7. Joined(f, H, n + 1 - (m + 1), n)
    BY <2>2, <2>6 DEF Joined
  <2> QED
    BY <2>7
<1>3. n \in S
  <2> HIDE DEF S
  <2> QED
    BY <1>1, <1>2, NatSetInduction
<1>4. n + 1 - n = 1
  OBVIOUS
<1> QED
  BY <1>3, <1>4

(* It is a list of what the lists are of.                                  *)
LEMMA JoinedType ==
  ASSUME NEW n \in Nat, NEW T, NEW H \in [1..n -> Seq(T)], NEW g, Joined(g, H, 1, n)
  PROVE  g \in [1..(n + 1) -> Seq(T)]
<1> DEFINE S == {m \in Nat : m <= n => g[n + 1 - m] \in Seq(T)}
<1>0. /\ DOMAIN g = 1..(n + 1) /\ g = [i \in DOMAIN g |-> g[i]]
      /\ \A i \in 1..(n + 1) : g[i] = IF i > n THEN <<>> ELSE H[i] \o g[i + 1]
  <2>1. g = [i \in 1..(n + 1) |-> IF i > n THEN <<>> ELSE H[i] \o g[i + 1]]
    BY DEF Joined
  <2>2. DOMAIN g = 1..(n + 1)
    BY <2>1
  <2>3. \A i \in 1..(n + 1) : g[i] = IF i > n THEN <<>> ELSE H[i] \o g[i + 1]
    BY <2>1
  <2>4. g = [i \in DOMAIN g |-> g[i]]
    BY <2>1
  <2> QED
    BY <2>2, <2>3, <2>4
<1>1. 0 \in S
  <2>1. n + 1 - 0 \in 1..(n + 1) /\ n + 1 - 0 > n
    OBVIOUS
  <2>2. g[n + 1 - 0] = <<>>
    BY <1>0, <2>1
  <2>4. <<>> \in Seq(T)
    OBVIOUS
  <2>3. g[n + 1 - 0] \in Seq(T)
    BY <2>2, <2>4, Zenon
  <2> QED
    BY <2>3
<1>2. ASSUME NEW m \in Nat, m \in S PROVE m + 1 \in S
  <2> SUFFICES ASSUME m + 1 <= n PROVE g[n + 1 - (m + 1)] \in Seq(T)
    OBVIOUS
  <2> DEFINE i == n + 1 - (m + 1)
  <2>1. i \in 1..n /\ i \in 1..(n + 1) /\ ~(i > n) /\ i + 1 = n + 1 - m
    OBVIOUS
  <2>2. g[n + 1 - m] \in Seq(T)
    BY <1>2
  <2> HIDE DEF i
  <2>3. g[i] = H[i] \o g[i + 1] /\ g[i + 1] \in Seq(T) /\ H[i] \in Seq(T)
    BY <1>0, <2>1, <2>2
  <2>4. H[i] \o g[i + 1] \in Seq(T)
    BY <2>3
  <2> QED
    BY <2>3, <2>4 DEF i
<1>3. ASSUME NEW i \in 1..(n + 1) PROVE g[i] \in Seq(T)
  <2>1. n + 1 - i \in Nat /\ n + 1 - i <= n /\ n + 1 - (n + 1 - i) = i
    OBVIOUS
  <2>2. n + 1 - i \in S
    <3> HIDE DEF S
    <3> QED
      BY <1>1, <1>2, <2>1, NatSetInduction
  <2> QED
    BY <2>1, <2>2
<1> QED
  BY <1>0, <1>3

(* The slots of the catalog: none behind the last section; the header and  *)
(* the entries of a section, and then those of the next.                   *)
SlotType ==
  [kind : {"header", "finalHeader"}, platform : {"bios", "uefi", "other"}, count : Nat]
    \cup [kind : {"entry"}, bootable : BOOLEAN]

(* The sections of a catalog, and the slots each of them takes.            *)
LEMMA SectionFacts ==
  ASSUME raw \in RawImages
  PROVE  /\ Len(raw.sections) \in Nat /\ DOMAIN raw.sections = 1..Len(raw.sections)
         /\ \A i \in 1..Len(raw.sections) :
              /\ raw.sections[i].entries \in Seq(BOOLEAN) /\ Len(raw.sections[i].entries) \in Nat
              /\ DOMAIN raw.sections[i].entries = 1..Len(raw.sections[i].entries)
              /\ \A j \in DOMAIN raw.sections[i].entries : raw.sections[i].entries[j] \in BOOLEAN
              /\ Header(i) \in SlotType /\ Entries(i) \in Seq(SlotType)
              /\ Len(Entries(i)) = Len(raw.sections[i].entries)
<1>1. raw.sections \in Seq(Section)
  BY ImageFacts
<1>2. /\ Len(raw.sections) \in Nat /\ DOMAIN raw.sections = 1..Len(raw.sections)
      /\ \A i \in 1..Len(raw.sections) : raw.sections[i] \in Section
  BY <1>1
<1>3. ASSUME NEW i \in 1..Len(raw.sections)
      PROVE  /\ raw.sections[i].entries \in Seq(BOOLEAN) /\ Len(raw.sections[i].entries) \in Nat
             /\ DOMAIN raw.sections[i].entries = 1..Len(raw.sections[i].entries)
             /\ \A j \in DOMAIN raw.sections[i].entries : raw.sections[i].entries[j] \in BOOLEAN
             /\ Header(i) \in SlotType /\ Entries(i) \in Seq(SlotType)
             /\ Len(Entries(i)) = Len(raw.sections[i].entries)
  <2> DEFINE es == raw.sections[i].entries
             m  == Len(es)
  <2>1. es \in Seq(BOOLEAN) /\ raw.sections[i].platform \in {"bios", "uefi", "other"}
    BY <1>2 DEF Section
  <2>2. m \in Nat /\ DOMAIN es = 1..m /\ \A j \in DOMAIN es : es[j] \in BOOLEAN
    BY <2>1
  <2>3. Header(i) \in SlotType
    BY <2>1, <2>2 DEF Header, SlotType
  <2>4. Entries(i) = [j \in DOMAIN es |-> [kind |-> "entry", bootable |-> es[j]]]
    BY DEF Entries
  <2> HIDE DEF es, m
  <2>5. \A j \in DOMAIN es : [kind |-> "entry", bootable |-> es[j]] \in SlotType
    BY <2>2 DEF SlotType
  <2>6. Entries(i) \in [1..m -> SlotType]
    BY <2>2, <2>4, <2>5
  <2>7. Entries(i) \in Seq(SlotType) /\ Len(Entries(i)) = m
    <3> HIDE DEF SlotType
    <3> QED
      BY <2>2, <2>6
  <2> QED
    BY <2>1, <2>2, <2>3, <2>7 DEF es, m
<1> QED
  BY <1>2, <1>3

(* The slots from section i on are its header, its entries, and the rest.  *)
LEMMA SlotsFacts ==
  ASSUME raw \in RawImages
  PROVE  /\ SlotsFrom \in [1..(Len(raw.sections) + 1) -> Seq(SlotType)]
         /\ SlotsFrom[Len(raw.sections) + 1] = <<>>
         /\ \A i \in 1..Len(raw.sections) :
              SlotsFrom[i] = (<<Header(i)>> \o Entries(i)) \o SlotsFrom[i + 1]
<1> DEFINE n == Len(raw.sections)
           H == [i \in 1..n |-> <<Header(i)>> \o Entries(i)]
           Slotted(g) == g = [i \in 1..(n + 1) |->
                                IF i > n THEN <<>> ELSE <<Header(i)>> \o Entries(i) \o g[i + 1]]
<1>1. n \in Nat
  BY SectionFacts
<1>2. H \in [1..n -> Seq(SlotType)]
  <2>1. ASSUME NEW i \in 1..n PROVE <<Header(i)>> \o Entries(i) \in Seq(SlotType)
    <3>1. Header(i) \in SlotType /\ Entries(i) \in Seq(SlotType)
      BY SectionFacts
    <3> QED
      BY <3>1
  <2> QED
    BY <2>1
<1>3. \A g : Slotted(g) <=> Joined(g, H, 1, n)
  <2> TAKE g
  <2> DEFINE A == [i \in 1..(n + 1) |-> IF i > n THEN <<>> ELSE <<Header(i)>> \o Entries(i) \o g[i + 1]]
             B == [i \in 1..(n + 1) |-> IF i > n THEN <<>> ELSE H[i] \o g[i + 1]]
  <2>1. \A i \in 1..(n + 1) : i <= n => H[i] = <<Header(i)>> \o Entries(i)
    BY <1>1
  <2>2. \A i \in 1..(n + 1) :
          (IF i > n THEN <<>> ELSE <<Header(i)>> \o Entries(i) \o g[i + 1]) =
            IF i > n THEN <<>> ELSE H[i] \o g[i + 1]
    <3> TAKE i \in 1..(n + 1)
    <3>1. CASE i > n
      BY <3>1
    <3>2. CASE ~(i > n)
      <4>1. H[i] = <<Header(i)>> \o Entries(i)
        <5>1. i <= n
          BY <1>1, <3>2
        <5> HIDE DEF H, n
        <5> QED
          BY <2>1, <5>1
      <4> HIDE DEF H, n
      <4> QED
        BY <3>2, <4>1, Zenon
    <3> QED
      BY <3>1, <3>2
  <2>3. A = B
    <3> HIDE DEF H, n
    <3> QED
      BY <2>2, Zenon
  <2> QED
    BY <2>3 DEF Joined
<1>4. Slotted(SlotsFrom)
  <2>1. \E g : Slotted(g)
    <3> HIDE DEF H, n, Slotted
    <3> QED
      BY <1>1, <1>3, JoinedExists
  <2> QED
    BY <2>1 DEF SlotsFrom
<1>5. SlotsFrom \in [1..(n + 1) -> Seq(SlotType)]
  <2> HIDE DEF H, n, Slotted
  <2> QED
    BY <1>1, <1>2, <1>3, <1>4, JoinedType
<1>6. \A i \in 1..(n + 1) :
        SlotsFrom[i] = IF i > n THEN <<>> ELSE <<Header(i)>> \o Entries(i) \o SlotsFrom[i + 1]
  BY <1>4
<1>7. n + 1 \in 1..(n + 1) /\ n + 1 > n /\ \A i \in 1..n : i \in 1..(n + 1) /\ ~(i > n)
  BY <1>1
<1> HIDE DEF n
<1>8. SlotsFrom[n + 1] = <<>>
  BY <1>1, <1>6, <1>7
<1> QED
  BY <1>5, <1>6, <1>7, <1>8 DEF n

(* Section i is what the catalog has from slot o on.                       *)
From(o, i) ==
  /\ Len(Slots) + 1 = o + Len(SlotsFrom[i])
  /\ \A k \in 1..Len(SlotsFrom[i]) : Slots[o - 1 + k] = SlotsFrom[i][k]

(* The first section is what the catalog has from slot 1 on.               *)
LEMMA FromFirst == ASSUME raw \in RawImages PROVE From(1, 1) /\ Len(Slots) \in Nat
<1>1. 1 \in 1..(Len(raw.sections) + 1)
  BY SectionFacts
<1>2. Slots \in Seq(SlotType)
  BY <1>1, SlotsFacts DEF Slots
<1>3. Len(Slots) \in Nat /\ DOMAIN Slots = 1..Len(Slots)
  <2> HIDE DEF Slots
  <2> QED
    BY <1>2
<1>4. SlotsFrom[1] = Slots
  BY DEF Slots
<1>5. \A k \in 1..Len(Slots) : 1 - 1 + k = k
  BY <1>3
<1> QED
  BY <1>3, <1>4, <1>5 DEF From

(* A section's slots are its header and its entries, and then comes the    *)
(* next section.                                                           *)
LEMMA FromSection ==
  ASSUME raw \in RawImages, NEW i \in 1..Len(raw.sections), NEW o \in Nat \ {0}, From(o, i)
  PROVE  LET m == Len(raw.sections[i].entries)
         IN  /\ o \in DOMAIN Slots /\ Slots[o] = Header(i) /\ o + m <= Len(Slots)
             /\ \A j \in 1..m : /\ o + j \in DOMAIN Slots
                                /\ Slots[o + j] = [kind |-> "entry", bootable |-> raw.sections[i].entries[j]]
             /\ From(o + 1 + m, i + 1)
<1> DEFINE m == Len(raw.sections[i].entries)
           E == Entries(i)
           R == SlotsFrom[i + 1]
           W == SlotsFrom[i]
           h == Header(i)
<1>1. /\ m \in Nat /\ h \in SlotType /\ E \in Seq(SlotType) /\ Len(E) = m
      /\ DOMAIN raw.sections[i].entries = 1..m
  BY SectionFacts
<1>2. /\ i + 1 \in 1..(Len(raw.sections) + 1) /\ i \in 1..(Len(raw.sections) + 1)
  BY SectionFacts
<1>3. R \in Seq(SlotType) /\ W = (<<h>> \o E) \o R
  BY <1>2, SlotsFacts
<1>4. \A j \in 1..m : E[j] = [kind |-> "entry", bootable |-> raw.sections[i].entries[j]]
  BY <1>1 DEF Entries
<1>5. Slots \in Seq(SlotType)
  <2>1. 1 \in 1..(Len(raw.sections) + 1)
    BY SectionFacts
  <2> QED
    BY <2>1, SlotsFacts DEF Slots
<1>6. /\ Len(Slots) + 1 = o + Len(W)
      /\ \A k \in 1..Len(W) : Slots[o - 1 + k] = W[k]
  BY DEF From
<1> HIDE DEF m, E, R, W, h
<1>7. /\ Len(R) \in Nat /\ Len(W) = 1 + m + Len(R)
      /\ W[1] = h /\ \A j \in 1..m : W[1 + j] = E[j]
      /\ \A k \in 1..Len(R) : W[1 + m + k] = R[k]
  <2> DEFINE U == <<h>> \o E
  <2>1. U \in Seq(SlotType) /\ Len(U) = 1 + m /\ U[1] = h /\ \A j \in 1..m : U[1 + j] = E[j]
    <3> HIDE DEF SlotType
    <3> QED
      BY <1>1
  <2>2. W = U \o R
    BY <1>3
  <2> HIDE DEF U
  <2>0. R \in Seq(SlotType)
    BY <1>3
  <2>7. /\ Len(U) \in Nat /\ Len(R) \in Nat /\ Len(U \o R) = Len(U) + Len(R)
        /\ \A k \in 1..Len(U) : (U \o R)[k] = U[k]
        /\ \A k \in 1..Len(R) : (U \o R)[Len(U) + k] = R[k]
    <3>1. U \in Seq(SlotType)
      BY <2>1
    <3> QED
      BY <2>0, <3>1, SMT
  <2>3. Len(R) \in Nat /\ Len(W) = 1 + m + Len(R)
    BY <2>1, <2>2, <2>7
  <2>4. \A k \in 1..(1 + m) : W[k] = U[k]
    BY <2>1, <2>2, <2>7
  <2>5. \A k \in 1..Len(R) : W[1 + m + k] = R[k]
    BY <2>1, <2>2, <2>7
  <2>6. 1 \in 1..(1 + m) /\ \A j \in 1..m : 1 + j \in 1..(1 + m)
    BY <1>1
  <2> QED
    BY <2>1, <2>3, <2>4, <2>5, <2>6
<1>13. o \in Nat /\ m \in Nat /\ Len(R) \in Nat /\ Len(W) = 1 + m + Len(R)
  BY <1>1, <1>7
<1>8. Len(Slots) \in Nat /\ DOMAIN Slots = 1..Len(Slots)
  <2> HIDE DEF Slots, SlotType
  <2> QED
    BY <1>5
<1>9. /\ o \in DOMAIN Slots /\ o + m <= Len(Slots)
      /\ \A j \in 1..m : o + j \in DOMAIN Slots
  BY <1>1, <1>6, <1>7, <1>8
<1>10. Slots[o] = h
  <2>1. 1 \in 1..Len(W) /\ o - 1 + 1 = o
    BY <1>1, <1>7
  <2> QED
    BY <1>6, <1>7, <2>1
<1>11. ASSUME NEW j \in 1..m PROVE Slots[o + j] = E[j]
  <2>1. 1 + j \in 1..Len(W) /\ o - 1 + (1 + j) = o + j
    BY <1>1, <1>7
  <2> QED
    BY <1>6, <1>7, <2>1
<1>12. From(o + 1 + m, i + 1)
  <2>1. Len(Slots) + 1 = o + 1 + m + Len(R)
    BY <1>1, <1>6, <1>7, <1>8
  <2>2. ASSUME NEW k \in 1..Len(R) PROVE Slots[((o + 1 + m) - 1) + k] = R[k]
    <3>1. 1 + m + k \in 1..Len(W) /\ o - 1 + (1 + m + k) = ((o + 1 + m) - 1) + k
      BY <1>13
    <3> QED
      BY <1>6, <1>7, <3>1
  <2>3. R = SlotsFrom[i + 1]
    BY DEF R
  <2>4. /\ Len(Slots) + 1 = o + 1 + m + Len(SlotsFrom[i + 1])
        /\ \A k \in 1..Len(SlotsFrom[i + 1]) : Slots[((o + 1 + m) - 1) + k] = SlotsFrom[i + 1][k]
    BY <2>1, <2>2, <2>3
  <2> QED
    BY <2>4, Zenon DEF From
<1> QED
  BY <1>4, <1>9, <1>10, <1>11, <1>12 DEF m, h

(* Behind the last section there are zeros.                                *)
LEMMA FromEnd ==
  ASSUME raw \in RawImages, NEW o \in Nat \ {0}, From(o, Len(raw.sections) + 1)
  PROVE  Slot(o).kind = "zero"
<1>1. SlotsFrom[Len(raw.sections) + 1] = <<>>
  BY SlotsFacts
<1>2. Len(Slots) + 1 = o
  BY <1>1 DEF From
<1>3. Slots \in Seq(SlotType)
  <2>1. 1 \in 1..(Len(raw.sections) + 1)
    BY SectionFacts
  <2> QED
    BY <2>1, SlotsFacts DEF Slots
<1>4. o \notin DOMAIN Slots
  <2> HIDE DEF Slots, SlotType
  <2> QED
    BY <1>2, <1>3
<1> QED
  BY <1>4 DEF Slot

(* What the default entry and the first sections say, and the first        *)
(* entries of a section.                                                   *)
Platforms(i) == Booted(raw.sections[i].platform, TRUE \in Range(raw.sections[i].entries))

BootedBefore(i) ==
  Booted(raw.default.platform, raw.default.bootable) \cup UNION {Platforms(k) : k \in 1..(i - 1)}

BootedOf(i, e) ==
  UNION {Booted(raw.sections[i].platform, raw.sections[i].entries[j]) : j \in 1..e}

(* Before the first section there is the default entry.                    *)
LEMMA BootedFirst == BootedBefore(1) = Booted(raw.default.platform, raw.default.bootable)
BY DEF BootedBefore

(* Behind the last section the catalog has said all it says.               *)
LEMMA BootedAll ==
  ASSUME raw \in RawImages, raw.hasElTorito
  PROVE  BootedBefore(Len(raw.sections) + 1) = Catalog
<1> DEFINE n == Len(raw.sections)
<1>1. DOMAIN raw.sections = 1..n /\ 1..((n + 1) - 1) = 1..n
  BY SectionFacts
<1> DEFINE G(s) == Booted(s.platform, TRUE \in Range(s.entries))
<1>2. {Platforms(k) : k \in 1..n} = {G(s) : s \in Range(raw.sections)}
  <2>1. \A k \in 1..n : Platforms(k) = G(raw.sections[k])
    BY DEF Platforms
  <2>2. Range(raw.sections) = {raw.sections[k] : k \in 1..n}
    BY <1>1 DEF Range
  <2> HIDE DEF G, n
  <2> QED
    BY <2>1, <2>2
<1>3. BootedBefore(n + 1) =
        Booted(raw.default.platform, raw.default.bootable) \cup UNION {Platforms(k) : k \in 1..n}
  <2>1. BootedBefore(n + 1) = Booted(raw.default.platform, raw.default.bootable)
                                \cup UNION {Platforms(k) : k \in 1..((n + 1) - 1)}
    BY Zenon DEF BootedBefore
  <2> HIDE DEF n
  <2> QED
    BY <1>1, <2>1, Zenon
<1> QED
  BY <1>2, <1>3 DEF Catalog

(* A section says what its entries say, one after the other.               *)
LEMMA BootedNext ==
  ASSUME raw \in RawImages, NEW i \in 1..Len(raw.sections)
  PROVE  /\ BootedBefore(i + 1) = BootedBefore(i) \cup BootedOf(i, Len(raw.sections[i].entries))
         /\ BootedOf(i, 0) = {}
         /\ \A e \in Nat : BootedOf(i, e + 1) =
              BootedOf(i, e) \cup Booted(raw.sections[i].platform, raw.sections[i].entries[e + 1])
<1> DEFINE es == raw.sections[i].entries
           m  == Len(es)
<1>1. m \in Nat /\ DOMAIN es = 1..m /\ \A j \in 1..m : es[j] \in BOOLEAN
  BY SectionFacts
<1>2. Platforms(i) = BootedOf(i, m)
  <2>1. CASE TRUE \in Range(es)
    <3>1. PICK j \in 1..m : es[j] = TRUE
      BY <1>1, <2>1 DEF Range
    <3>2. \A k \in 1..m : Booted(raw.sections[i].platform, es[k])
                            \subseteq {raw.sections[i].platform} \cap {"bios", "uefi"}
      BY DEF Booted
    <3>3. Booted(raw.sections[i].platform, es[j]) = {raw.sections[i].platform} \cap {"bios", "uefi"}
      BY <3>1 DEF Booted
    <3>4. BootedOf(i, m) = {raw.sections[i].platform} \cap {"bios", "uefi"}
      BY <3>1, <3>2, <3>3 DEF BootedOf
    <3> QED
      BY <2>1, <3>4 DEF Platforms, Booted
  <2>2. CASE TRUE \notin Range(es)
    <3>1. \A k \in 1..m : es[k] = FALSE
      BY <1>1, <2>2 DEF Range
    <3>2. BootedOf(i, m) = {}
      BY <3>1 DEF BootedOf, Booted
    <3> QED
      BY <2>2, <3>2 DEF Platforms, Booted
  <2> QED
    BY <2>1, <2>2
<1>3. 1..((i + 1) - 1) = 1..(i - 1) \cup {i}
  BY SectionFacts
<1>4. UNION {Platforms(k) : k \in 1..((i + 1) - 1)} = (UNION {Platforms(k) : k \in 1..(i - 1)}) \cup Platforms(i)
  BY <1>3
<1>5. BootedBefore(i + 1) = BootedBefore(i) \cup BootedOf(i, m)
  BY <1>2, <1>4 DEF BootedBefore
<1>6. BootedOf(i, 0) = {}
  BY DEF BootedOf
<1>7. ASSUME NEW e \in Nat
      PROVE  BootedOf(i, e + 1) = BootedOf(i, e) \cup Booted(raw.sections[i].platform, es[e + 1])
  <2>1. 1..(e + 1) = 1..e \cup {e + 1}
    OBVIOUS
  <2> HIDE DEF es
  <2> QED
    BY <2>1 DEF BootedOf, es
<1> QED
  BY <1>5, <1>6, <1>7

(* The catalog is read section by section and entry by entry: bootMode is  *)
(* what the part before offset says, and in the end what all of it says.   *)
HeaderNext(o, mode) ==
  \E i \in 1..(Len(raw.sections) + 1) : From(o, i) /\ o \in Nat \ {0} /\ mode = BootedBefore(i)

EntryAfter(i, start, e, sec, mode) ==
  /\ From(start, i) /\ start \in Nat \ {0}
  /\ sec = [kind |-> Header(i).kind, platform |-> raw.sections[i].platform,
            count |-> Len(raw.sections[i].entries) - e]
  /\ mode = BootedBefore(i) \cup BootedOf(i, e)

EntryNext(o, sec, mode) ==
  \E i \in 1..Len(raw.sections), start \in Nat : \E e \in 0..Len(raw.sections[i].entries) :
    o = start + 1 + e /\ EntryAfter(i, start, e, sec, mode)

OneSector == raw.isIso /\ Len(Slots) <= CatalogSlots

CatalogInv ==
  OneSector =>
    /\ pc \in {"descriptor", "bootRecord"} => offset = 1 /\ bootMode = {}
    /\ pc = "header" => raw.hasElTorito /\ HeaderNext(offset, bootMode)
    /\ pc = "entry" => raw.hasElTorito /\ EntryNext(offset, section, bootMode)
    /\ pc \notin {"descriptor", "bootRecord", "header", "entry"} => bootMode = Catalog

(* The catalog is read from its first slot on.                             *)
LEMMA CatalogInvInit == Init => CatalogInv
BY DEF Init, CatalogInv

(* The image is the same in every state.                                   *)
LEMMA CatalogFrame ==
  ASSUME raw' = raw,
         OneSector =>
           /\ pc' \in {"descriptor", "bootRecord"} => offset' = 1 /\ bootMode' = {}
           /\ pc' = "header" => raw.hasElTorito /\ HeaderNext(offset', bootMode')
           /\ pc' = "entry" => raw.hasElTorito /\ EntryNext(offset', section', bootMode')
           /\ pc' \notin {"descriptor", "bootRecord", "header", "entry"} => bootMode' = Catalog
  PROVE  CatalogInv'
<1>1. SlotsFrom' = SlotsFrom
  BY DEF SlotsFrom, Header, Entries
<1>2. Slots' = Slots
  BY <1>1 DEF Slots
<1>3. Catalog' = Catalog
  BY DEF Catalog, Booted
<1>4. \A i : Platforms(i)' = Platforms(i) /\ Header(i)' = Header(i)
  BY DEF Platforms, Booted, Header
<1>5. \A i : BootedBefore(i)' = BootedBefore(i)
  BY <1>4 DEF BootedBefore, Booted
<1>6. \A i, e : BootedOf(i, e)' = BootedOf(i, e)
  BY DEF BootedOf, Booted
<1>7. OneSector' = OneSector
  BY <1>2 DEF OneSector
<1>8. HeaderNext(offset, bootMode)' <=> HeaderNext(offset', bootMode')
  BY <1>1, <1>2, <1>5 DEF HeaderNext, From
<1>9. EntryNext(offset, section, bootMode)' <=> EntryNext(offset', section', bootMode')
  <2>1. \A i, start : From(start, i)' <=> From(start, i)
    BY <1>1, <1>2 DEF From
  <2>2. \A i, start, e : EntryAfter(i, start, e, section, bootMode)' <=>
                           EntryAfter(i, start, e, section', bootMode')
    BY <1>4, <1>5, <1>6, <2>1 DEF EntryAfter
  <2> QED
    BY <2>2 DEF EntryNext
<1> QED
  BY <1>3, <1>7, <1>8, <1>9 DEF CatalogInv

(* At a header there is the next section, or zeros and the end.            *)
LEMMA HeaderRead ==
  ASSUME TypeInv, CatalogInv, readSectionHeader
  PROVE  CatalogInv'
<1>1. raw \in RawImages /\ raw' = raw /\ offset \in Nat \ {0} /\ pc = "header" /\ bootMode' = bootMode
  BY BoundFacts DEF TypeInv, readSectionHeader
<1>2. ASSUME OneSector
      PROVE  \/ pc' = "tree" /\ bootMode = Catalog
             \/ pc' = "entry" /\ raw.hasElTorito /\ EntryNext(offset', section', bootMode')
  <2>0. raw.hasElTorito /\ HeaderNext(offset, bootMode)
    BY <1>1, <1>2 DEF CatalogInv
  <2>1. PICK i \in 1..(Len(raw.sections) + 1) : From(offset, i) /\ bootMode = BootedBefore(i)
    BY <2>0 DEF HeaderNext
  <2>2. CASE i \in 1..Len(raw.sections)
    <3> DEFINE h == Header(i)
    <3>1. offset \in DOMAIN Slots /\ Slots[offset] = h /\ offset <= Len(Slots)
      <4>1. offset \in DOMAIN Slots /\ Slots[offset] = h
        BY <1>1, <2>1, <2>2, FromSection
      <4>2. 1 \in 1..(Len(raw.sections) + 1)
        BY <1>1, SectionFacts
      <4>3. Slots \in Seq(SlotType)
        BY <1>1, <4>2, SlotsFacts DEF Slots
      <4>4. DOMAIN Slots = 1..Len(Slots)
        <5> HIDE DEF Slots, SlotType
        <5> QED
          BY <4>3
      <4> QED
        BY <4>1, <4>4
    <3>2. h.kind \in {"header", "finalHeader"}
          /\ h = [kind |-> h.kind, platform |-> raw.sections[i].platform,
                  count |-> Len(raw.sections[i].entries)]
      BY DEF Header
    <3>3. InSector /\ Slot(offset) = h
      <4>1. Len(Slots) \in Nat /\ Len(Slots) <= CatalogSlots
        BY <1>1, <1>2, FromFirst DEF OneSector
      <4> QED
        BY <1>1, <3>1, <4>1, BoundFacts DEF InSector, Slot
    <3>4. section' = h /\ offset' = offset + 1 /\ pc' = "entry"
      BY <3>2, <3>3 DEF readSectionHeader
    <3>5. Len(raw.sections[i].entries) \in Nat /\ BootedOf(i, 0) = {}
      BY <1>1, <2>2, SectionFacts, BootedNext
    <3>6. 0 \in 0..Len(raw.sections[i].entries)
          /\ Len(raw.sections[i].entries) - 0 = Len(raw.sections[i].entries)
          /\ offset + 1 = offset + 1 + 0
      BY <1>1, <3>5
    <3>7. EntryAfter(i, offset, 0, section', bootMode')
      BY <1>1, <2>1, <3>2, <3>4, <3>5, <3>6 DEF EntryAfter
    <3>8. EntryNext(offset', section', bootMode')
      BY <1>1, <2>2, <3>4, <3>6, <3>7 DEF EntryNext
    <3> QED
      BY <2>0, <3>4, <3>8
  <2>3. CASE i = Len(raw.sections) + 1
    <3>1. Slot(offset).kind = "zero"
      BY <1>1, <2>1, <2>3, FromEnd
    <3>2. pc' = "tree"
      BY <3>1 DEF readSectionHeader
    <3>3. bootMode = Catalog
      BY <1>1, <2>0, <2>1, <2>3, BootedAll
    <3> QED
      BY <3>2, <3>3
  <2> QED
    BY <1>1, <2>2, <2>3, SectionFacts
<1> QED
  BY <1>1, <1>2, CatalogFrame

(* At an entry there is the next one, or the section is at its end.        *)
LEMMA EntryRead ==
  ASSUME TypeInv, CatalogInv, readSectionEntry
  PROVE  CatalogInv'
<1>1. raw \in RawImages /\ raw' = raw /\ pc = "entry"
  BY DEF TypeInv, readSectionEntry
<1>2. ASSUME OneSector
      PROVE  \/ pc' = "tree" /\ bootMode' = Catalog
             \/ pc' = "header" /\ raw.hasElTorito /\ HeaderNext(offset', bootMode')
             \/ pc' = "entry" /\ raw.hasElTorito /\ EntryNext(offset', section', bootMode')
  <2>0. raw.hasElTorito /\ EntryNext(offset, section, bootMode)
    BY <1>1, <1>2 DEF CatalogInv
  <2>1. PICK i \in 1..Len(raw.sections), start \in Nat : \E e \in 0..Len(raw.sections[i].entries) :
               offset = start + 1 + e /\ EntryAfter(i, start, e, section, bootMode)
    BY <2>0 DEF EntryNext
  <2> DEFINE es == raw.sections[i].entries
             m  == Len(es)
  <2>2. PICK e \in 0..m : offset = start + 1 + e /\ EntryAfter(i, start, e, section, bootMode)
    BY <2>1
  <2>3. /\ From(start, i) /\ start \in Nat \ {0}
        /\ section = [kind |-> Header(i).kind, platform |-> raw.sections[i].platform, count |-> m - e]
        /\ bootMode = BootedBefore(i) \cup BootedOf(i, e)
    BY <2>2 DEF EntryAfter
  <2>4. /\ start \in DOMAIN Slots /\ start + m <= Len(Slots)
        /\ \A j \in 1..m : /\ start + j \in DOMAIN Slots
                           /\ Slots[start + j] = [kind |-> "entry", bootable |-> es[j]]
        /\ From(start + 1 + m, i + 1)
    BY <1>1, <2>3, FromSection
  <2>5. /\ m \in Nat /\ Len(Slots) \in Nat /\ Len(Slots) <= CatalogSlots /\ CatalogSlots \in Nat
        /\ Len(raw.sections) \in Nat
    BY <1>1, <1>2, FromFirst, SectionFacts, BoundFacts DEF OneSector
  <2>6. Header(i).kind = IF i = Len(raw.sections) THEN "finalHeader" ELSE "header"
    BY DEF Header
  <2> HIDE DEF es, m
  <2>7. CASE e < m
    <3>1. section.count > 0 /\ InSector
      BY <2>2, <2>3, <2>4, <2>5, <2>7 DEF InSector
    <3>2. e + 1 \in 1..m /\ start + (e + 1) = offset /\ e \in Nat /\ e + 1 \in 0..m
          /\ (m - e) - 1 = m - (e + 1) /\ offset + 1 = start + 1 + (e + 1)
      BY <2>2, <2>3, <2>5, <2>7
    <3>3. Slot(offset) = [kind |-> "entry", bootable |-> es[e + 1]]
      BY <2>4, <3>2 DEF Slot
    <3>4. /\ bootMode' = bootMode \cup Booted(section.platform, es[e + 1])
          /\ section' = [section EXCEPT !.count = @ - 1] /\ offset' = offset + 1 /\ pc' = pc
      BY <3>1, <3>3 DEF readSectionEntry
    <3>5. section' = [kind |-> Header(i).kind, platform |-> raw.sections[i].platform, count |-> m - (e + 1)]
      BY <2>3, <3>2, <3>4
    <3>6. BootedOf(i, e + 1) = BootedOf(i, e) \cup Booted(raw.sections[i].platform, es[e + 1])
      BY <1>1, <3>2, BootedNext DEF es
    <3>7. bootMode' = BootedBefore(i) \cup BootedOf(i, e + 1)
      BY <2>3, <3>4, <3>6
    <3>8. EntryAfter(i, start, e + 1, section', bootMode')
      BY <2>3, <3>5, <3>7 DEF EntryAfter, m, es
    <3>9. offset' = start + 1 + (e + 1)
      BY <3>2, <3>4
    <3>10. EntryNext(offset', section', bootMode')
      BY <3>2, <3>8, <3>9 DEF EntryNext, m, es
    <3> QED
      BY <1>1, <2>0, <3>4, <3>10
  <2>8. CASE e = m
    <3>1. ~(section.count > 0)
      BY <2>3, <2>5, <2>8
    <3>2. /\ pc' = IF section.kind = "finalHeader" THEN "tree" ELSE "header"
          /\ bootMode' = bootMode /\ offset' = offset
      BY <3>1 DEF readSectionEntry
    <3>3. bootMode' = BootedBefore(i + 1)
      BY <1>1, <2>3, <2>8, <3>2, BootedNext DEF m, es
    <3>4. offset' = start + 1 + m
      BY <2>2, <2>8, <3>2
    <3>5. CASE i = Len(raw.sections)
      <4>1. pc' = "tree" /\ bootMode' = Catalog
        BY <1>1, <2>0, <2>3, <2>6, <3>2, <3>3, <3>5, BootedAll
      <4> QED
        BY <4>1
    <3>6. CASE i # Len(raw.sections)
      <4>1. pc' = "header"
        BY <2>3, <2>6, <3>2, <3>6
      <4>2. i + 1 \in 1..(Len(raw.sections) + 1) /\ start + 1 + m \in Nat \ {0}
        BY <2>3, <2>5
      <4>3. From(offset', i + 1) /\ offset' \in Nat \ {0}
        BY <2>4, <3>4, <4>2
      <4>4. HeaderNext(offset', bootMode')
        BY <3>3, <4>2, <4>3 DEF HeaderNext
      <4> QED
        BY <2>0, <4>1, <4>4
    <3> QED
      BY <3>5, <3>6
  <2> QED
    BY <2>5, <2>7, <2>8
<1> QED
  BY <1>1, <1>2, CatalogFrame

(* No other step reads the catalog.                                        *)
LEMMA CatalogInvNext == TypeInv /\ CatalogInv /\ [Next]_vars => CatalogInv'
<1> SUFFICES ASSUME TypeInv, CatalogInv, [Next]_vars PROVE CatalogInv'
  OBVIOUS
<1> DEFINE Late == pc \notin {"descriptor", "bootRecord", "header", "entry"}
<1>0. ASSUME Late, Late', raw' = raw, bootMode' = bootMode PROVE CatalogInv'
  <2>1. OneSector => bootMode' = Catalog
    BY <1>0 DEF CatalogInv
  <2> QED
    BY <1>0, <2>1, CatalogFrame
<1>1. CASE readPrimaryVolumeDescriptor
  <2>1. raw' = raw /\ offset' = offset /\ bootMode' = bootMode /\ pc = "descriptor"
        /\ (raw.isIso => pc' = "bootRecord")
    BY <1>1 DEF readPrimaryVolumeDescriptor
  <2> QED
    BY <2>1, CatalogFrame DEF CatalogInv, OneSector
<1>2. CASE readElToritoBootRecord
  <2>1. raw' = raw /\ offset' = offset /\ pc = "bootRecord" /\ raw \in RawImages
    BY <1>2 DEF readElToritoBootRecord, TypeInv
  <2>2. CASE raw.hasElTorito
    <3>1. bootMode' = Booted(raw.default.platform, raw.default.bootable) /\ pc' = "header"
      BY <1>2, <2>2 DEF readElToritoBootRecord
    <3>2. ASSUME OneSector PROVE HeaderNext(offset', bootMode')
      <4>1. offset' = 1 /\ 1 \in 1..(Len(raw.sections) + 1) /\ From(1, 1) /\ 1 \in Nat \ {0}
        BY <2>1, <3>2, FromFirst, SectionFacts DEF CatalogInv
      <4>2. bootMode' = BootedBefore(1)
        BY <3>1, BootedFirst
      <4> QED
        BY <4>1, <4>2 DEF HeaderNext
    <3> QED
      BY <2>1, <2>2, <3>1, <3>2, CatalogFrame
  <2>3. CASE ~raw.hasElTorito
    <3>1. bootMode' = bootMode /\ pc' = "tree"
      BY <1>2, <2>3 DEF readElToritoBootRecord
    <3>2. Catalog = {}
      BY <2>3 DEF Catalog
    <3> QED
      BY <2>1, <3>1, <3>2, CatalogFrame DEF CatalogInv
  <2> QED
    BY <2>2, <2>3
<1>3. CASE readSectionHeader
  BY <1>3, HeaderRead
<1>4. CASE readSectionEntry
  BY <1>4, EntryRead
<1>5. CASE scanDirectoryTree
  BY <1>0, <1>5 DEF scanDirectoryTree
<1>6. CASE lookForInstaller
  BY <1>0, <1>6 DEF lookForInstaller, Step
<1>7. CASE scanVia7z
  BY <1>0, <1>7 DEF scanVia7z, Step
<1>8. CASE losetup
  BY <1>0, <1>8 DEF losetup, Step
<1>9. CASE mountLoop
  BY <1>0, <1>9 DEF mountLoop, Mount, Step
<1>10. CASE mountLegacy
  BY <1>0, <1>10 DEF mountLegacy, Mount, Step
<1>11. CASE scanMountedDir
  BY <1>0, <1>11 DEF scanMountedDir, Step
<1>12. CASE classify
  BY <1>0, <1>12 DEF classify
<1>13. CASE UNCHANGED vars
  <2>1. raw' = raw /\ pc' = pc /\ offset' = offset /\ section' = section /\ bootMode' = bootMode
    BY <1>13
  <2> QED
    BY <2>1, CatalogFrame DEF CatalogInv
<1> QED
  BY <1>1, <1>2, <1>3, <1>4, <1>5, <1>6, <1>7, <1>8, <1>9, <1>10, <1>11, <1>12, <1>13 DEF Next

(* What the scan that the list is from has found, once it has ended.       *)
Key == InstallFile \cup {BootWim}

LargestOf(image, files) == Largest({image.tree[f] : f \in files})

ResultInv ==
  /\ Nested(raw, stack)
  /\ scan = "raw" => Listing(raw, stack, allFiles, largestFileSize)
  /\ scan # "raw" => pc \in {"classify", "done"}
  /\ raw.isIso /\ pc \notin {"descriptor", "bootRecord", "header", "entry", "tree"} => stack = <<>>
  /\ raw.isIso /\ (pc \in {"7z", "losetup", "mountLoop", "mountLegacy", "mounted"} \/ scan # "raw") =>
       (Few(raw) => Iso9660(raw) \cap Key = {})
  /\ scan # "raw" =>
       \E view \in Views(raw) : \E shown \in SUBSET Folders(view) :
         /\ Range(allFiles) = UNION shown /\ largestFileSize = LargestOf(raw, UNION shown)
         /\ shown = Folders(view) \/ (scan = "mount" /\ Cardinality(UNION shown) > MaxFiles)
  /\ pc = "done" /\ raw.isIso =>
       result = classifyImage(Range(allFiles), largestFileSize, bootMode, raw.hybrid)
  /\ pc \notin {"descriptor", "done"} => raw.isIso

(* Nothing is listed yet, and all is ahead.                                *)
LEMMA ResultInvInit == Init => ResultInv
<1> SUFFICES ASSUME Init PROVE ResultInv
  OBVIOUS
<1>1. raw \in RawImages /\ stack = <<[dir |-> Root, pos |-> 0]>> /\ allFiles = <<>>
      /\ largestFileSize = Link /\ pc = "descriptor" /\ scan = "raw"
  BY DEF Init, Root
<1>2. Ahead(raw, stack) = Entry(raw)
  BY <1>1, AheadAtFirst DEF Root
<1> HIDE DEF Init
<1>3. DOMAIN stack = {1} /\ stack[1].dir = Root /\ stack[1].pos = 0
  BY <1>1
<1>4. Nested(raw, stack)
  BY <1>3 DEF Nested
<1>5. Listing(raw, stack, allFiles, largestFileSize)
  <2>1. Places(raw, "file") \ Ahead(raw, stack) = {}
    BY <1>2 DEF Entry
  <2>2. Len(allFiles) <= Cardinality(Places(raw, "file") \ Ahead(raw, stack))
    BY <1>1, <2>1, FS_EmptySet
  <2>3. Range(allFiles) = {}
    BY <1>1 DEF Range
  <2>4. \A l \in DOMAIN stack : \A p \in Places(raw, "file") :
          p[1] = stack[l].dir => p \in OnTheWay(raw, stack)
    BY <1>1, <1>3, EntryFacts DEF OnTheWay, Entry
  <2> QED
    BY <1>1, <2>1, <2>2, <2>3, <2>4 DEF Listing
<1> QED
  BY <1>1, <1>4, <1>5 DEF ResultInv

(* When the raw scan has ended, it has listed the files of few, and of     *)
(* their sizes the largest.                                                *)
LEMMA RawListed ==
  ASSUME NEW image \in RawImages, NEW all \in Seq(File), NEW largest \in Size,
         Listing(image, <<>>, all, largest), Few(image)
  PROVE  Range(all) = Iso9660(image) /\ largest = RawSize(LargestOf(image, Iso9660(image)))
<1> DEFINE files == Places(image, "file")
           P     == Iso9660(image)
           M     == LargestOf(image, P)
<1>1. Ahead(image, <<>>) = {}
  BY AheadAtEnd
<1>2. /\ largest = Link \/ \E p \in files : At(image, p).size = largest
      /\ \A p \in files : Path(image, p) \in Range(all) /\ At(image, p).size <= largest
      /\ \A f \in Range(all) : \E p \in files : Path(image, p) = f
  BY <1>1 DEF Listing
<1>3. Range(all) = P
  BY <1>2 DEF Iso9660
<1>4. /\ \A p \in files : /\ Path(image, p) \in DOMAIN image.tree
                          /\ At(image, p).size <= RawSize(image.tree[Path(image, p)])
      /\ \A p \in files : \E q \in files :
           Path(image, q) = Path(image, p) /\ At(image, q).size = RawSize(image.tree[Path(image, p)])
  BY ImageFacts DEF WellFormed
<1>5. ASSUME NEW f \in P PROVE image.tree[f] \in Size
  <2>1. PICK p \in files : Path(image, p) = f
    BY DEF Iso9660
  <2>2. f \in DOMAIN image.tree
    BY <1>4, <2>1
  <2> QED
    BY <2>2, TreeFacts
<1>6. M \in {image.tree[f] : f \in P} \cup {Link} /\ \A f \in P : M >= image.tree[f]
  <2>1. {image.tree[f] : f \in P} \in SUBSET Size
    BY <1>5
  <2> QED
    BY <2>1, LargestFacts DEF LargestOf
<1>7. \A a, b \in Size : a >= b => RawSize(a) >= RawSize(b)
  BY DEF RawSize, Size, Over4GiB, OverWim
<1>8. RawSize(Link) = 0 /\ Link \in Size /\ Link = 0 /\ \A a \in Size : RawSize(a) \in Size /\ RawSize(a) >= 0
  BY DEF RawSize, Size, Link, Over4GiB, OverWim
<1>9. M \in Size
  BY <1>5, <1>6, <1>8
<1> HIDE DEF files, P, M
<1>10. largest <= RawSize(M)
  <2>1. CASE largest = Link
    BY <1>8, <1>9, <2>1
  <2>2. ASSUME NEW p \in files, At(image, p).size = largest PROVE largest <= RawSize(M)
    <3>1. Path(image, p) \in P
      BY DEF P, Iso9660, files
    <3>2. image.tree[Path(image, p)] \in Size /\ M >= image.tree[Path(image, p)]
      BY <1>5, <1>6, <3>1
    <3>3. RawSize(M) >= RawSize(image.tree[Path(image, p)])
      BY <1>7, <1>9, <3>2
    <3>4. largest <= RawSize(image.tree[Path(image, p)])
      BY <1>4, <2>2
    <3>5. RawSize(M) \in Size /\ RawSize(image.tree[Path(image, p)]) \in Size
      BY <1>8, <1>9, <3>2
    <3> QED
      BY <3>3, <3>4, <3>5 DEF Size
  <2> QED
    BY <1>2, <2>1, <2>2
<1>11. largest >= RawSize(M)
  <2>1. CASE M = Link
    BY <1>8, <2>1 DEF Size
  <2>2. ASSUME NEW f \in P, M = image.tree[f] PROVE largest >= RawSize(M)
    <3>1. PICK p \in files : Path(image, p) = f
      BY DEF P, Iso9660, files
    <3>2. PICK q \in files : At(image, q).size = RawSize(image.tree[f])
      BY <1>4, <3>1
    <3>3. At(image, q).size <= largest
      BY <1>2
    <3>4. RawSize(M) \in Size
      BY <1>8, <1>9
    <3> QED
      BY <2>2, <3>2, <3>3, <3>4 DEF Size
  <2> QED
    BY <1>6, <2>1, <2>2
<1>12. largest = RawSize(M)
  <2>1. RawSize(M) \in Size
    BY <1>8, <1>9
  <2> QED
    BY <1>10, <1>11, <2>1 DEF Size
<1> QED
  BY <1>3, <1>12 DEF M, P

(* Every step keeps what has been found.                                   *)
LEMMA ResultInvNext == TypeInv /\ ResultInv /\ [Next]_vars => ResultInv'
<1> SUFFICES ASSUME TypeInv, ResultInv, [Next]_vars PROVE ResultInv'
  OBVIOUS
<1>0. raw \in RawImages /\ raw' = raw /\ allFiles \in Seq(File) /\ largestFileSize \in Size
  BY DEF TypeInv, Next, readPrimaryVolumeDescriptor, readElToritoBootRecord, readSectionHeader,
         readSectionEntry, scanDirectoryTree, lookForInstaller, scanVia7z, losetup, mountLoop, Mount,
         mountLegacy, scanMountedDir, classify, Step
<1> USE DEF ResultInv
<1>1. CASE readPrimaryVolumeDescriptor
  BY <1>1 DEF readPrimaryVolumeDescriptor
<1>2. CASE readElToritoBootRecord
  BY <1>2 DEF readElToritoBootRecord
<1>3. CASE readSectionHeader
  BY <1>3 DEF readSectionHeader
<1>4. CASE readSectionEntry
  BY <1>4 DEF readSectionEntry
<1>5. CASE scanDirectoryTree
  <2>1. pc = "tree" /\ pc' = pc /\ scan' = scan
    BY <1>5 DEF scanDirectoryTree
  <2>2. scan = "raw"
    BY <2>1
  <2>3. Nested(raw, stack') /\ Listing(raw, stack', allFiles', largestFileSize')
    BY <1>5, <2>2, ScanLists
  <2> QED
    BY <1>0, <2>1, <2>2, <2>3
<1>6. CASE lookForInstaller
  <2>1. /\ pc = "tree" /\ stack = <<>> /\ stack' = stack /\ allFiles' = allFiles
        /\ largestFileSize' = largestFileSize /\ scan' = scan /\ scan = "raw"
        /\ pc' = IF hasKeyInstaller THEN "classify" ELSE "7z"
    BY <1>6 DEF lookForInstaller, Step
  <2>2. ASSUME Few(raw), pc' = "7z" PROVE Iso9660(raw) \cap Key = {}
    <3>1. ~hasKeyInstaller
      BY <2>1, <2>2
    <3>2. Range(allFiles) = Iso9660(raw)
      BY <1>0, <2>1, <2>2, RawListed
    <3> QED
      BY <3>1, <3>2 DEF hasKeyInstaller, Key
  <2> QED
    BY <1>0, <2>1, <2>2
<1>7. CASE scanVia7z
  <2>1. ASSUME NEW view \in Views(raw), Found(view, "7z"), Step("classify") PROVE ResultInv'
    <3>2. UNION Folders(view) = view /\ view \subseteq DOMAIN raw.tree
      BY <1>0, FolderFacts
    <3>1. Range(allFiles') = view /\ largestFileSize' = LargestOf(raw, view)
          /\ scan' = "7z" /\ pc' = "classify" /\ stack' = stack
      BY <2>1, <3>2, FoundTypes DEF Found, LargestOf, Step
    <3>3. Views(raw') = Views(raw)
      BY <1>0
    <3>4. pc = "7z" /\ scan = "raw"
      BY <1>7 DEF scanVia7z
    <3>5. raw.isIso
      BY <3>4
    <3> QED
      BY <1>0, <3>1, <3>2, <3>3, <3>4, <3>5
  <2>2. CASE Step("losetup") /\ UNCHANGED <<allFiles, largestFileSize, scan>>
    BY <1>0, <1>7, <2>2 DEF scanVia7z, Step
  <2> QED
    BY <1>7, <2>1, <2>2 DEF scanVia7z
<1>8. CASE losetup
  BY <1>0, <1>8 DEF losetup, Step
<1>9. CASE mountLoop
  BY <1>0, <1>9 DEF mountLoop, Mount, Step
<1>10. CASE mountLegacy
  BY <1>0, <1>10 DEF mountLegacy, Mount, Step
<1>11. CASE scanMountedDir
  <2>v. PICK view \in Views(raw) : \E shown \in SUBSET Folders(view) :
          /\ shown = Folders(view) \/ Cardinality(UNION shown) > MaxFiles
          /\ Found(UNION shown, "mount")
    BY <1>11 DEF scanMountedDir
  <2>1. PICK shown \in SUBSET Folders(view) :
          /\ shown = Folders(view) \/ Cardinality(UNION shown) > MaxFiles
          /\ Found(UNION shown, "mount")
    BY <2>v
  <2>2. UNION shown \in SUBSET DOMAIN raw.tree
    BY <1>0, FolderFacts
  <2>3. /\ Range(allFiles') = UNION shown /\ largestFileSize' = LargestOf(raw, UNION shown)
        /\ scan' = "mount" /\ pc' = "classify" /\ stack' = stack
    BY <1>11, <2>1, <2>2, FoundTypes DEF Found, LargestOf, Step, scanMountedDir
  <2>4. Views(raw') = Views(raw)
    BY <1>0
  <2>5. pc = "mounted" /\ scan = "raw"
    BY <1>11 DEF scanMountedDir
  <2> QED
    BY <1>0, <2>1, <2>3, <2>4, <2>5
<1> DEFINE Same == /\ stack' = stack /\ allFiles' = allFiles /\ scan' = scan
                   /\ largestFileSize' = largestFileSize /\ bootMode' = bootMode
           Seen(done) == done /\ raw.isIso =>
             result = classifyImage(Range(allFiles), largestFileSize, bootMode, raw.hybrid)
<1>a. ASSUME Same, (pc = "classify" /\ pc' = "done") \/ pc' = pc, Seen(pc = "done")' PROVE ResultInv'
  <2>1. Views(raw') = Views(raw)
    BY <1>0
  <2>2. /\ Nested(raw, stack)'
        /\ (scan = "raw" => Listing(raw, stack, allFiles, largestFileSize))'
        /\ (scan # "raw" => pc \in {"classify", "done"})'
        /\ (raw.isIso /\ pc \notin {"descriptor", "bootRecord", "header", "entry", "tree"} => stack = <<>>)'
        /\ (pc \notin {"descriptor", "done"} => raw.isIso)'
    BY <1>0, <1>a
  <2>3. (raw.isIso /\ (pc \in {"7z", "losetup", "mountLoop", "mountLegacy", "mounted"} \/ scan # "raw") =>
           (Few(raw) => Iso9660(raw) \cap Key = {}))'
    BY <1>0, <1>a
  <2>4. (scan # "raw" =>
           \E view \in Views(raw) : \E shown \in SUBSET Folders(view) :
             /\ Range(allFiles) = UNION shown /\ largestFileSize = LargestOf(raw, UNION shown)
             /\ shown = Folders(view) \/ (scan = "mount" /\ Cardinality(UNION shown) > MaxFiles))'
    BY <1>0, <1>a, <2>1
  <2> QED
    BY <1>a, <2>2, <2>3, <2>4
<1>12. CASE classify
  <2>1. Same /\ pc = "classify" /\ pc' = "done" /\ Seen(pc = "done")'
    BY <1>0, <1>12 DEF classify
  <2> HIDE DEF ResultInv, Same, Seen
  <2> QED
    BY <1>a, <2>1
<1>13. CASE UNCHANGED vars
  <2>1. Same /\ pc' = pc /\ Seen(pc = "done")'
    BY <1>0, <1>13
  <2> HIDE DEF ResultInv, Same, Seen
  <2> QED
    BY <1>a, <2>1
<1> QED
  BY <1>1, <1>2, <1>3, <1>4, <1>5, <1>6, <1>7, <1>8, <1>9, <1>10, <1>11, <1>12, <1>13 DEF Next

(* The inductive invariant of the analysis.                                *)
ScanInv == TypeInv /\ CatalogInv /\ ResultInv

(* It says of every analysis of an image that is no larger than the limits *)
(* that it is one of those that IsoAnalyzer allows.                        *)
LEMMA ScanInvAnalysis == ScanInv => AnalysisAsAssumed
<1> SUFFICES ASSUME ScanInv, pc = "done", raw.isIso, Len(Slots) <= CatalogSlots, Few(raw),
                    scan = "mount" => Cardinality(DOMAIN raw.tree) <= MaxFiles
             PROVE  result \in analyze(AsImage)
  BY DEF AnalysisAsAssumed, Few
<1> DEFINE P == Iso9660(raw)
           D == DOMAIN raw.tree
           a == classifyImage(P, RawSize(LargestOf(raw, P)), Catalog, raw.hybrid)
           b(view) == classifyImage(view, LargestOf(raw, view), Catalog, raw.hybrid)
<1>1. raw \in RawImages /\ allFiles \in Seq(File) /\ largestFileSize \in Size /\ scan \in {"raw", "7z", "mount"}
  BY DEF ScanInv, TypeInv
<1>2. bootMode = Catalog
  BY DEF ScanInv, CatalogInv, OneSector
<1>3. result = classifyImage(Range(allFiles), largestFileSize, Catalog, raw.hybrid)
  BY <1>2 DEF ScanInv, ResultInv
<1>4. /\ a \in analyze(AsImage)
      /\ P \cap Key = {} => \A view \in Views(raw) : b(view) \in analyze(AsImage)
  BY DEF analyze, AsImage, Views, LargestOf, Key
<1>5. CASE scan = "raw"
  <2>1. stack = <<>> /\ Listing(raw, stack, allFiles, largestFileSize)
    BY <1>5 DEF ScanInv, ResultInv
  <2>2. Range(allFiles) = P /\ largestFileSize = RawSize(LargestOf(raw, P))
    BY <1>1, <2>1, RawListed
  <2> QED
    BY <1>3, <1>4, <2>2
<1>6. CASE scan # "raw"
  <2>1. P \cap Key = {}
    BY <1>6 DEF ScanInv, ResultInv
  <2>v. PICK view \in Views(raw) : \E shown \in SUBSET Folders(view) :
          /\ Range(allFiles) = UNION shown /\ largestFileSize = LargestOf(raw, UNION shown)
          /\ shown = Folders(view) \/ (scan = "mount" /\ Cardinality(UNION shown) > MaxFiles)
    BY <1>6 DEF ScanInv, ResultInv
  <2>2. PICK shown \in SUBSET Folders(view) :
          /\ Range(allFiles) = UNION shown /\ largestFileSize = LargestOf(raw, UNION shown)
          /\ shown = Folders(view) \/ (scan = "mount" /\ Cardinality(UNION shown) > MaxFiles)
    BY <2>v
  <2>3. UNION Folders(view) = view /\ UNION shown \subseteq D /\ IsFiniteSet(D)
    BY <1>1, FolderFacts, TreeFacts
  <2>4. Cardinality(UNION shown) <= Cardinality(D) /\ Cardinality(D) \in Nat
        /\ Cardinality(UNION shown) \in Nat
    BY <2>3, FS_Subset, FS_CardinalityType
  <2>5. shown = Folders(view)
    BY <2>2, <2>4, BoundFacts
  <2> QED
    BY <1>3, <1>4, <2>1, <2>2, <2>3, <2>5
<1> QED
  BY <1>5, <1>6

(* A scan that has seen boot.wim has seen all of the directory that boot.wim*)
(* is in.                                                                  *)
LEMMA ScanInvInstaller == ScanInv => InstallerSeen
<1> SUFFICES ASSUME ScanInv, pc = "done", raw.isIso, WindowsInstaller(raw),
                    BootWim \in Range(allFiles)
             PROVE  result.isoType = "WindowsInstaller"
  BY DEF InstallerSeen
<1>1. raw \in RawImages /\ allFiles \in Seq(File) /\ scan \in {"raw", "7z", "mount"}
  BY DEF ScanInv, TypeInv
<1>2. SUFFICES Range(allFiles) \cap InstallFile # {}
  BY DEF ScanInv, ResultInv, classifyImage, isoType
<1>3. CASE scan = "raw"
  <2>1. stack = <<>> /\ Listing(raw, stack, allFiles, largestFileSize) /\ BootWim \in Range(allFiles)
    BY <1>3 DEF ScanInv, ResultInv
  <2>2. OnTheWay(raw, stack) = {}
    BY <2>1, AheadAtEnd, OnTheWayIsAhead
  <2>3. PICK p \in Places(raw, "file") :
          Path(raw, p) = BootWim /\ \A q \in Places(raw, "file") : q[1] = p[1] => Path(raw, q) \in Range(allFiles)
    BY <2>1, <2>2 DEF Listing
  <2>4. PICK q \in Places(raw, "file") : q[1] = p[1] /\ Path(raw, q) \in InstallFile
    BY <2>3 DEF WindowsInstaller
  <2> QED
    BY <2>3, <2>4
<1>4. ASSUME scan # "raw" PROVE Range(allFiles) \cap InstallFile # {}
  <2> DEFINE sources == {"sources/install.wim", "sources/install.esd", BootWim}
  <2>v. PICK view \in Views(raw) : \E shown \in SUBSET Folders(view) : Range(allFiles) = UNION shown
    BY <1>4 DEF ScanInv, ResultInv
  <2>1. PICK shown \in SUBSET Folders(view) : Range(allFiles) = UNION shown
    BY <2>v
  <2>2. PICK f \in shown : BootWim \in f
    BY <2>1
  <2>3. f = view \cap sources
    BY <2>2 DEF Folders
  <2>4. view \cap {"sources/install.wim", "sources/install.esd"} # {}
    BY <2>2, <2>3 DEF WindowsInstaller
  <2>5. f \cap InstallFile # {}
    BY <2>3, <2>4 DEF InstallFile
  <2> QED
    BY <2>1, <2>2, <2>5
<1> QED
  BY <1>3, <1>4

(* It holds of every analysis.                                             *)
LEMMA ScanInvHolds == Spec => []ScanInv
<1>1. Init => ScanInv
  BY TypeInvInit, CatalogInvInit, ResultInvInit DEF ScanInv
<1>2. ScanInv /\ [Next]_vars => ScanInv'
  BY TypeInvNext, CatalogInvNext, ResultInvNext DEF ScanInv
<1> QED
  BY <1>1, <1>2, PTL DEF Spec

(* What analyze returns for an image with no more files than its limit and *)
(* a catalog of one sector is an analysis that DiskWriter and MainWindow   *)
(* take for possible.                                                      *)
THEOREM AnalysesAreAsAssumed == Spec => []AnalysisAsAssumed
BY ScanInvHolds, ScanInvAnalysis, PTL

(* The limit of the listing never hides that an image is a Windows         *)
(* installer.                                                              *)
THEOREM InstallersAreSeen == Spec => []InstallerSeen
BY ScanInvHolds, ScanInvInstaller, PTL
=============================================================================
