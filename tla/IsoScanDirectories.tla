------------------------ MODULE IsoScanDirectories --------------------------
(***************************************************************************)
(* The raw scan of an image: its types, and what scanDirectoryTree has     *)
(* listed when it is somewhere in the directories.                         *)
(***************************************************************************)
EXTENDS IsoScan, FiniteSetTheorems, TLAPS

USE DEF vars, catalogVars, fileVars, mountVars

(* A position of a directory, as a sector of n records and a place in it.  *)
LEMMA Division ==
  ASSUME NEW n \in Nat \ {0}, NEW p \in Nat
  PROVE  /\ p \div n \in Nat /\ p % n \in 0..(n - 1)
         /\ p = (p \div n) * n + (p % n)
BY SMT

(* The sectors in front of one, in records.                                *)
LEMMA Multiples ==
  ASSUME NEW n \in Nat \ {0}, NEW a \in Nat, NEW b \in Nat
  PROVE  /\ a * n \in Nat /\ (a + 1) * n = a * n + n
         /\ a <= b => a * n <= b * n
         /\ a + 1 <= b => a * n + n <= b * n
         /\ a >= b + 1 => a * n >= (b + 1) * n
BY SMT

(* There is one such sector and one such place.                            *)
LEMMA DivisionUnique ==
  ASSUME NEW n \in Nat \ {0}, NEW s \in Nat, NEW i \in 0..(n - 1)
  PROVE  (s * n + i) \div n = s /\ (s * n + i) % n = i
BY SMT

(* A position before the end is in a sector that ends by then.             *)
LEMMA DivisionBound ==
  ASSUME NEW n \in Nat \ {0}, NEW p \in Nat, NEW l \in Nat, p < l * n
  PROVE  p \div n < l /\ (p \div n + 1) * n <= l * n /\ p < (p \div n + 1) * n
<1>1. p \div n \in Nat /\ p % n \in 0..(n - 1) /\ p = (p \div n) * n + (p % n)
  BY Division
<1> DEFINE q == p \div n
<1>2. q \in Nat /\ p >= q * n /\ p < q * n + n
  <2>1. q * n \in Nat
    BY <1>1
  <2> QED
    BY <1>1, <2>1
<1> HIDE DEF q
<1>3. q < l
  <2>1. SUFFICES ASSUME q >= l PROVE FALSE
    BY <1>2
  <2>2. q * n >= l * n
    BY <1>2, <2>1, SMT
  <2> QED
    BY <1>2, <2>2, SMT
<1>4. (q + 1) * n = q * n + n
  BY <1>2, SMT
<1>5. (q + 1) * n <= l * n
  BY <1>2, <1>3, SMT
<1> QED
  BY <1>2, <1>3, <1>4, <1>5, SMT DEF q

(* Where a record is in its directory, counted in records.                 *)
Offset(p) == (p[2] - 1) * SectorRecords + (p[3] - 1)

(* What ISAssumption says of an image.                                     *)
LEMMA ImageFacts ==
  ASSUME NEW image \in RawImages
  PROVE  /\ image.dirs \in [DOMAIN image.dirs -> Seq(Seq(DirectoryRecord))]
         /\ "" \in DOMAIN image.dirs
         /\ \A d \in DOMAIN image.dirs : \A s \in DOMAIN image.dirs[d] :
              Len(image.dirs[d][s]) <= SectorRecords
         /\ image.tree \in [DOMAIN image.tree -> Size] /\ DOMAIN image.tree \subseteq File
         /\ image.sections \in Seq(Section)
         /\ WellFormed(image)
BY ISAssumption DEF Range

(* The bounds are natural numbers.                                         *)
LEMMA BoundFacts == SectorRecords \in Nat \ {0} /\ CatalogSlots \in Nat /\ MaxFiles \in Nat
BY ISAssumption

(* A place of a record: its directory, its sector, its position, and the   *)
(* record that is read there.                                              *)
LEMMA PlaceFacts ==
  ASSUME NEW image \in RawImages, NEW kind, NEW p \in Places(image, kind)
  PROVE  /\ p[1] \in DOMAIN image.dirs /\ p = <<p[1], p[2], p[3]>>
         /\ p[2] \in 1..Len(image.dirs[p[1]]) /\ Len(image.dirs[p[1]]) \in Nat
         /\ p[3] \in 1..SectorRecords
         /\ image.dirs[p[1]][p[2]] \in Seq(DirectoryRecord)
         /\ p[3] \in DOMAIN image.dirs[p[1]][p[2]]
         /\ At(image, p) \in DirectoryRecord /\ At(image, p).kind = kind
         /\ Offset(p) \in Nat /\ Offset(p) < Len(image.dirs[p[1]]) * SectorRecords
         /\ Offset(p) \div SectorRecords + 1 = p[2]
         /\ (Offset(p) % SectorRecords) + 1 = p[3]
<1>1. PICK d \in DOMAIN image.dirs : p \in {<<d, s, i>> : s \in DOMAIN image.dirs[d], i \in 1..SectorRecords}
  BY DEF Places
<1>2. PICK s \in DOMAIN image.dirs[d], i \in 1..SectorRecords : p = <<d, s, i>>
  BY <1>1
<1>3. p[1] = d /\ p[2] = s /\ p[3] = i
  BY <1>2
<1>4. image.dirs[d] \in Seq(Seq(DirectoryRecord))
  BY ImageFacts
<1>5. /\ s \in 1..Len(image.dirs[d]) /\ Len(image.dirs[d]) \in Nat
      /\ image.dirs[d][s] \in Seq(DirectoryRecord)
  BY <1>4
<1>6. i \in DOMAIN image.dirs[d][s] /\ image.dirs[d][s][i].kind = kind
  BY <1>3 DEF Places
<1>7. At(image, p) \in DirectoryRecord /\ At(image, p).kind = kind
  BY <1>3, <1>5, <1>6 DEF At
<1>8. SectorRecords \in Nat \ {0} /\ s - 1 \in Nat /\ i - 1 \in 0..(SectorRecords - 1)
  BY <1>2, <1>5, BoundFacts
<1>9. /\ Offset(p) \div SectorRecords = s - 1 /\ Offset(p) % SectorRecords = i - 1
      /\ Offset(p) \in Nat
  <2>1. (s - 1) * SectorRecords \in Nat
    BY <1>8
  <2>2. \A a \in Nat, b \in 0..(SectorRecords - 1) :
           (a * SectorRecords + b) \div SectorRecords = a /\ (a * SectorRecords + b) % SectorRecords = b
    BY <1>8, DivisionUnique
  <2>3. Offset(p) = (s - 1) * SectorRecords + (i - 1)
    BY <1>3 DEF Offset
  <2> QED
    BY <1>8, <2>1, <2>2, <2>3
<1>10. Offset(p) < Len(image.dirs[d]) * SectorRecords
  <2> DEFINE a == s - 1
             l == Len(image.dirs[d])
             x == a * SectorRecords
             y == l * SectorRecords
  <2>1. a \in Nat /\ l \in Nat /\ a + 1 <= l
    BY <1>5, <1>8
  <2>2. Offset(p) = x + (i - 1)
    BY <1>3 DEF Offset
  <2> HIDE DEF a, l
  <2>3. x \in Nat /\ y \in Nat /\ x + SectorRecords <= y
    BY <1>8, <2>1, Multiples
  <2> HIDE DEF x, y
  <2>4. Offset(p) < y
    BY <1>8, <2>2, <2>3
  <2> QED
    BY <2>4 DEF y, l
<1>11. Offset(p) \div SectorRecords + 1 = s /\ (Offset(p) % SectorRecords) + 1 = i
  <2> DEFINE q == Offset(p) \div SectorRecords
             r == Offset(p) % SectorRecords
  <2>1. q = s - 1 /\ r = i - 1
    BY <1>9
  <2> HIDE DEF q, r
  <2>2. q + 1 = s /\ r + 1 = i
    BY <1>5, <1>8, <2>1
  <2> QED
    BY <2>2 DEF q, r
<1>12. p = <<p[1], p[2], p[3]>>
  BY <1>2, <1>3
<1> QED
  BY <1>3, <1>5, <1>6, <1>7, <1>9, <1>10, <1>11, <1>12

(* The place a position of a directory stands for.                         *)
Spot(d, pos) == <<d, (pos \div SectorRecords) + 1, (pos % SectorRecords) + 1>>

(* What a position is: a place of a record, or in the zeros behind the     *)
(* last one of its sector.                                                 *)
LEMMA SpotFacts ==
  ASSUME NEW image \in RawImages, NEW d \in DOMAIN image.dirs, NEW pos \in Nat,
         pos < Len(image.dirs[d]) * SectorRecords
  PROVE  LET p      == Spot(d, pos)
             sector == image.dirs[d][p[2]]
         IN  /\ p[1] = d /\ p[2] \in DOMAIN image.dirs[d] /\ p[3] \in 1..SectorRecords
             /\ sector \in Seq(DirectoryRecord)
             /\ Offset(p) = pos
             /\ p[3] \in DOMAIN sector =>
                  /\ p \in Places(image, sector[p[3]].kind)
                  /\ sector[p[3]] \in DirectoryRecord /\ At(image, p) = sector[p[3]]
<1> DEFINE p == Spot(d, pos)
<1>1. /\ pos \div SectorRecords \in Nat /\ pos % SectorRecords \in 0..(SectorRecords - 1)
      /\ pos = (pos \div SectorRecords) * SectorRecords + (pos % SectorRecords)
  BY BoundFacts, Division
<1>2. p[1] = d /\ p[2] = (pos \div SectorRecords) + 1 /\ p[3] = (pos % SectorRecords) + 1
  BY DEF Spot
<1>3. image.dirs[d] \in Seq(Seq(DirectoryRecord)) /\ Len(image.dirs[d]) \in Nat
  <2>1. image.dirs[d] \in Seq(Seq(DirectoryRecord))
    BY ImageFacts
  <2> QED
    BY <2>1
<1>4. pos \div SectorRecords < Len(image.dirs[d])
  BY <1>3, BoundFacts, DivisionBound
<1>5. p[2] \in DOMAIN image.dirs[d] /\ p[3] \in 1..SectorRecords
  BY <1>1, <1>2, <1>3, <1>4, BoundFacts
<1>6. image.dirs[d][p[2]] \in Seq(DirectoryRecord)
  BY <1>3, <1>5
<1>7. Offset(p) = pos
  <2>1. p[2] - 1 = pos \div SectorRecords /\ p[3] - 1 = pos % SectorRecords
    BY <1>1, <1>2
  <2> HIDE DEF p
  <2> QED
    BY <1>1, <2>1 DEF Offset
<1>8. ASSUME p[3] \in DOMAIN image.dirs[d][p[2]]
      PROVE  /\ p \in Places(image, image.dirs[d][p[2]][p[3]].kind)
             /\ image.dirs[d][p[2]][p[3]] \in DirectoryRecord
             /\ At(image, p) = image.dirs[d][p[2]][p[3]]
  <2>1. p \in {<<d, s, i>> : s \in DOMAIN image.dirs[d], i \in 1..SectorRecords}
    BY <1>2, <1>5 DEF Spot
  <2>2. image.dirs[d][p[2]][p[3]] \in DirectoryRecord
    BY <1>6, <1>8
  <2> HIDE DEF p
  <2> QED
    BY <1>2, <1>8, <2>1, <2>2 DEF Places, At
<1> QED
  BY <1>2, <1>5, <1>6, <1>7, <1>8

(* From a position in zeros on, the next record is in the next sector.     *)
LEMMA ZeroFacts ==
  ASSUME NEW image \in RawImages, NEW kind, NEW p \in Places(image, kind),
         NEW pos \in Nat, pos < Len(image.dirs[p[1]]) * SectorRecords,
         Spot(p[1], pos)[3] \notin DOMAIN image.dirs[p[1]][Spot(p[1], pos)[2]],
         Offset(p) >= pos
  PROVE  Offset(p) >= ((pos \div SectorRecords) + 1) * SectorRecords
<1> DEFINE q == pos \div SectorRecords
           i == pos % SectorRecords
           n == SectorRecords
<1>1. /\ p[2] \in 1..Len(image.dirs[p[1]]) /\ p[3] \in 1..n
      /\ Offset(p) \in Nat /\ p[1] \in DOMAIN image.dirs
  BY PlaceFacts
<1>2. q \in Nat /\ i \in 0..(n - 1) /\ pos = q * n + i /\ n \in Nat \ {0}
  BY BoundFacts, Division
<1>3. image.dirs[p[1]][p[2]] \in Seq(DirectoryRecord) /\ p[3] \in DOMAIN image.dirs[p[1]][p[2]]
  BY PlaceFacts
<1>4. Spot(p[1], pos)[2] = q + 1 /\ Spot(p[1], pos)[3] = i + 1
  BY DEF Spot
<1> HIDE DEF q, i, n
<1>5. CASE p[2] >= q + 2
  <2>1. (p[2] - 1) * n >= (q + 1) * n /\ (p[2] - 1) * n \in Nat
    <3> DEFINE s == p[2] - 1
    <3>1. s \in Nat /\ s >= q + 1
      BY <1>1, <1>2, <1>5
    <3> HIDE DEF s
    <3>2. s * n >= (q + 1) * n /\ s * n \in Nat
      BY <1>2, <3>1, Multiples
    <3> QED
      BY <3>2 DEF s
  <2>2. (q + 1) * n \in Nat /\ Offset(p) = (p[2] - 1) * n + (p[3] - 1)
    BY <1>2 DEF Offset, n
  <2> QED
    BY <1>1, <2>1, <2>2 DEF q, n
<1>6. CASE p[2] = q + 1
  <2>1. p[3] >= i + 1
    <3> DEFINE a == q * n
    <3>1. Offset(p) = a + (p[3] - 1) /\ pos = a + i /\ a \in Nat
      BY <1>1, <1>2, <1>6 DEF Offset, n
    <3>2. p[3] \in 1..n /\ i \in 0..(n - 1) /\ n \in Nat
      BY <1>1, <1>2
    <3> HIDE DEF a
    <3> QED
      BY <3>1, <3>2
  <2>2. i + 1 \in DOMAIN image.dirs[p[1]][p[2]]
    BY <1>2, <1>3, <2>1
  <2> QED
    BY <1>4, <1>6, <2>2
<1>7. CASE p[2] <= q
  <2>1. (p[2] - 1) * n + n <= q * n /\ (p[2] - 1) * n \in Nat /\ q * n \in Nat
    <3> DEFINE s == p[2] - 1
    <3>1. s \in Nat /\ s + 1 <= q
      BY <1>1, <1>2, <1>7
    <3> HIDE DEF s
    <3>2. s * n + n <= q * n /\ s * n \in Nat /\ q * n \in Nat
      BY <1>2, <3>1, Multiples
    <3> QED
      BY <3>2 DEF s
  <2>2. Offset(p) = (p[2] - 1) * n + (p[3] - 1)
    BY DEF Offset, n
  <2>3. Offset(p) < q * n
    <3> DEFINE a == (p[2] - 1) * n
               b == q * n
    <3>1. a \in Nat /\ b \in Nat /\ a + n <= b /\ Offset(p) = a + (p[3] - 1)
      BY <2>1, <2>2
    <3> HIDE DEF a, b
    <3>2. p[3] \in 1..n /\ n \in Nat
      BY <1>1, <1>2
    <3>3. Offset(p) < b
      BY <3>1, <3>2
    <3> QED
      BY <3>3 DEF b
  <2> QED
    BY <1>1, <1>2, <2>1, <2>3
<1> QED
  BY <1>1, <1>2, <1>5, <1>6, <1>7

(* A sequence and its last member; one with a member changed; the others.  *)
LEMMA SeqFacts ==
  ASSUME NEW T, NEW s \in Seq(T)
  PROVE  /\ Len(s) \in Nat /\ DOMAIN s = 1..Len(s) /\ s \in [1..Len(s) -> T]
         /\ s # <<>> => Len(s) # 0 /\ Len(s) \in DOMAIN s /\ s[Len(s)] \in T
<1>1. Len(s) \in Nat /\ DOMAIN s = 1..Len(s) /\ s \in [1..Len(s) -> T]
  OBVIOUS
<1>2. ASSUME s # <<>> PROVE Len(s) # 0
  BY <1>2
<1>3. ASSUME s # <<>> PROVE Len(s) \in 1..Len(s)
  BY <1>1, <1>2, <1>3
<1> QED
  BY <1>1, <1>2, <1>3

(* A sequence with other members is one of the same length.                *)
LEMMA ChangeFacts ==
  ASSUME NEW T, NEW s \in Seq(T), NEW t \in [DOMAIN s -> T]
  PROVE  t \in Seq(T) /\ Len(t) = Len(s)
<1>1. DOMAIN s = 1..Len(s) /\ Len(s) \in Nat
  OBVIOUS
<1>2. t \in [1..Len(s) -> T]
  BY <1>1
<1> QED
  BY <1>1, <1>2

(* The directories the scan is in, each at a position in it.               *)
StackType(image, s) ==
  /\ s \in Seq([dir : DOMAIN image.dirs, pos : Nat])
  /\ \A i \in DOMAIN s : s[i].pos <= Len(image.dirs[s[i].dir]) * SectorRecords

(* Only the position in the innermost directory moves.                     *)
LEMMA MovedFacts ==
  ASSUME raw \in RawImages, StackType(raw, stack), stack # <<>>, NEW pos \in Nat,
         pos <= Len(raw.dirs[Top.dir]) * SectorRecords
  PROVE  /\ StackType(raw, Moved(pos)) /\ Len(Moved(pos)) = Len(stack)
         /\ DOMAIN Moved(pos) = DOMAIN stack /\ Len(stack) \in DOMAIN stack
         /\ Moved(pos)[Len(stack)].dir = Top.dir /\ Moved(pos)[Len(stack)].pos = pos
         /\ \A l \in DOMAIN stack : l # Len(stack) => Moved(pos)[l] = stack[l]
         /\ \A l \in DOMAIN stack : Moved(pos)[l].dir = stack[l].dir
<1> DEFINE T == [dir : DOMAIN raw.dirs, pos : Nat]
           n == Len(stack)
<1>1. stack \in Seq(T) /\ n \in Nat /\ DOMAIN stack = 1..n /\ n # 0 /\ stack \in [1..n -> T]
  <2>1. stack \in Seq(T)
    BY DEF StackType
  <2> HIDE DEF T
  <2> QED
    BY <2>1, SeqFacts
<1>2. n \in 1..n /\ stack[n] \in T
  BY <1>1
<1> HIDE DEF n
<1>3. Moved(pos) = [stack EXCEPT ![n] = [stack[n] EXCEPT !.pos = pos]]
  BY DEF Moved, n
<1>4. [stack[n] EXCEPT !.pos = pos] \in T /\ [stack[n] EXCEPT !.pos = pos].dir = stack[n].dir
      /\ [stack[n] EXCEPT !.pos = pos].pos = pos
  BY <1>2
<1>5. /\ Moved(pos) \in [1..n -> T]
      /\ Moved(pos)[n] = [stack[n] EXCEPT !.pos = pos]
      /\ \A l \in 1..n : l # n => Moved(pos)[l] = stack[l]
  BY <1>1, <1>2, <1>3, <1>4
<1>6. Moved(pos) \in Seq(T) /\ Len(Moved(pos)) = n /\ DOMAIN Moved(pos) = 1..n
  <2> HIDE DEF T
  <2> QED
    BY <1>1, <1>5, ChangeFacts
<1>7. \A l \in 1..n : Moved(pos)[l].dir = stack[l].dir
  BY <1>4, <1>5
<1>8. \A l \in 1..n : Moved(pos)[l].pos <= Len(raw.dirs[Moved(pos)[l].dir]) * SectorRecords
  <2> TAKE l \in 1..n
  <2>1. CASE l = n
    BY <1>4, <1>5, <2>1 DEF Top, n
  <2>2. CASE l # n
    <3>1. Moved(pos)[l] = stack[l] /\ l \in DOMAIN stack
      BY <1>1, <1>5, <2>2
    <3> QED
      BY <3>1 DEF StackType
  <2> QED
    BY <2>1, <2>2
<1> QED
  BY <1>1, <1>2, <1>4, <1>5, <1>6, <1>7, <1>8 DEF n, Top, StackType

(* What scanDirectoryTree does with one record.  It goes on to position q  *)
(* over what is no file and no directory; it lists file p; it passes or    *)
(* enters directory p; or it is at the end and goes back to the directory  *)
(* this one is in.                                                         *)
End == Len(raw.dirs[Top.dir]) * SectorRecords

Entry(image) == Places(image, "file") \cup Places(image, "dir")

Here(p) == p[1] = Top.dir /\ Offset(p) = Top.pos

Skipped(q) ==
  /\ Top.pos < q /\ q <= End /\ stack' = Moved(q) /\ UNCHANGED <<allFiles, largestFileSize>>
  /\ \A p \in Entry(raw) : p[1] = Top.dir /\ Offset(p) >= Top.pos => Offset(p) >= q

ListedFile(p) ==
  /\ Here(p) /\ stack' = Moved(Top.pos + 1) /\ Top.pos + 1 <= End
  /\ allFiles' = Append(allFiles, Path(raw, p))
  /\ largestFileSize' = Largest({largestFileSize, At(raw, p).size})

PassedBy(p) ==
  /\ Here(p) /\ stack' = Moved(Top.pos + 1) /\ Top.pos + 1 <= End
  /\ UNCHANGED <<allFiles, largestFileSize>> /\ Len(allFiles) > MaxFiles

Entered(p) ==
  /\ Here(p) /\ Top.pos + 1 <= End
  /\ stack' = Append(Moved(Top.pos + 1), [dir |-> Path(raw, p), pos |-> 0])
  /\ UNCHANGED <<allFiles, largestFileSize>> /\ Len(allFiles) <= MaxFiles

LeftDirectory ==
  /\ Top.pos >= End /\ stack' = SubSeq(stack, 1, Len(stack) - 1)
  /\ UNCHANGED <<allFiles, largestFileSize>>

(* A step of scanDirectoryTree is one of these.                            *)
LEMMA ScanStep ==
  ASSUME raw \in RawImages, StackType(raw, stack), allFiles \in Seq(File), scanDirectoryTree
  PROVE  \/ \E q \in Nat : Skipped(q)
         \/ \E p \in Places(raw, "file") : ListedFile(p)
         \/ \E p \in Places(raw, "dir") : PassedBy(p) \/ Entered(p)
         \/ LeftDirectory
<1> DEFINE d    == Top.dir
           pos  == Top.pos
           spot == Spot(d, pos)
<1>1. stack # <<>> /\ Top \in [dir : DOMAIN raw.dirs, pos : Nat]
  <2>1. stack # <<>> /\ stack \in Seq([dir : DOMAIN raw.dirs, pos : Nat])
    BY DEF scanDirectoryTree, StackType
  <2> DEFINE T == [dir : DOMAIN raw.dirs, pos : Nat]
  <2> HIDE DEF T
  <2>2. \A s \in Seq(T) : s # <<>> => s[Len(s)] \in T
    BY SeqFacts
  <2> QED
    BY <2>1, <2>2 DEF Top, T
<1>2. d \in DOMAIN raw.dirs /\ pos \in Nat /\ Len(raw.dirs[d]) \in Nat /\ End \in Nat
  <2>1. d \in DOMAIN raw.dirs /\ pos \in Nat
    BY <1>1
  <2>2. raw.dirs \in [DOMAIN raw.dirs -> Seq(Seq(DirectoryRecord))]
    BY ImageFacts
  <2>3. raw.dirs[d] \in Seq(Seq(DirectoryRecord))
    BY <2>1, <2>2
  <2>4. Len(raw.dirs[d]) \in Nat
    BY <2>3
  <2> QED
    BY <2>1, <2>4, BoundFacts DEF End
<1>3. AtEnd <=> pos >= End
  BY DEF AtEnd, Sectors, End
<1>4. CASE AtEnd
  BY <1>3, <1>4 DEF scanDirectoryTree, LeftDirectory
<1>5. ASSUME ~AtEnd
      PROVE  \/ \E q \in Nat : Skipped(q)
             \/ \E p \in Places(raw, "file") : ListedFile(p)
             \/ \E p \in Places(raw, "dir") : PassedBy(p) \/ Entered(p)
  <2>1. pos < End /\ pos + 1 <= End /\ pos + 1 \in Nat
    BY <1>2, <1>3, <1>5
  <2>2. skipRecord \/ listFile \/ enterDirectory
    BY <1>5 DEF scanDirectoryTree
  <2> DEFINE sector == raw.dirs[d][spot[2]]
  <2>3. /\ spot[2] \in DOMAIN raw.dirs[d] /\ sector \in Seq(DirectoryRecord)
        /\ Offset(spot) = pos /\ spot[1] = d
        /\ spot[3] \in DOMAIN sector =>
             /\ spot \in Places(raw, sector[spot[3]].kind)
             /\ sector[spot[3]] \in DirectoryRecord /\ At(raw, spot) = sector[spot[3]]
    <3>1. d \in DOMAIN raw.dirs /\ pos \in Nat /\ pos < Len(raw.dirs[d]) * SectorRecords
      BY <1>2, <2>1 DEF End
    <3> HIDE DEF d, pos
    <3>2. LET p == Spot(d, pos)
              sec == raw.dirs[d][p[2]]
          IN  /\ p[1] = d /\ p[2] \in DOMAIN raw.dirs[d] /\ p[3] \in 1..SectorRecords
              /\ sec \in Seq(DirectoryRecord)
              /\ Offset(p) = pos
              /\ p[3] \in DOMAIN sec =>
                  /\ p \in Places(raw, sec[p[3]].kind)
                  /\ sec[p[3]] \in DirectoryRecord /\ At(raw, p) = sec[p[3]]
      BY <3>1, SpotFacts
    <3> QED
      BY <3>2
  <2>4. Record(pos) = IF spot[3] \in DOMAIN sector THEN sector[spot[3]] ELSE [kind |-> "zero"]
    BY DEF Record, Sectors, Spot
  <2> HIDE DEF spot
  <2>5. Record(pos).kind # "zero" =>
          spot \in Places(raw, Record(pos).kind) /\ Record(pos) = At(raw, spot) /\ Here(spot)
    BY <2>3, <2>4 DEF Here
  <2>6. Record(pos).kind = "zero" => spot[3] \notin DOMAIN sector
    BY <2>3, <2>4 DEF DirectoryRecord
  <2>7. CASE skipRecord /\ Record(pos).kind = "zero" /\ stack' = Moved(NextSector(pos))
    <3>1. pos < NextSector(pos) /\ NextSector(pos) <= End /\ NextSector(pos) \in Nat
      <4>1. pos \div SectorRecords \in Nat
        BY <1>2, BoundFacts, Division
      <4>2. pos \div SectorRecords < Len(raw.dirs[d]) /\ NextSector(pos) <= End /\ pos < NextSector(pos)
        BY <1>2, <2>1, BoundFacts, DivisionBound DEF NextSector, End
      <4>3. NextSector(pos) \in Nat
        BY <4>1, BoundFacts DEF NextSector
      <4> QED
        BY <4>2, <4>3
    <3>2. ASSUME NEW p \in Entry(raw), p[1] = d, Offset(p) >= pos
          PROVE  Offset(p) >= NextSector(pos)
      <4>1. PICK kind : p \in Places(raw, kind)
        BY DEF Entry
      <4>2. pos < Len(raw.dirs[p[1]]) * SectorRecords
        BY <2>1, <3>2 DEF End
      <4>3. Spot(p[1], pos)[3] \notin DOMAIN raw.dirs[p[1]][Spot(p[1], pos)[2]]
        BY <2>6, <2>7, <3>2 DEF spot
      <4> QED
        BY <1>2, <3>2, <4>1, <4>2, <4>3, ZeroFacts DEF NextSector
    <3>3. Skipped(NextSector(pos))
      BY <2>7, <3>1, <3>2 DEF Skipped, skipRecord
    <3> QED
      BY <3>1, <3>3
  <2>8. CASE skipRecord /\ Record(pos).kind = "dot" /\ stack' = Moved(pos + 1)
    <3>1. ASSUME NEW p \in Entry(raw), p[1] = d, Offset(p) >= pos
          PROVE  Offset(p) >= pos + 1
      <4>1. PICK kind \in {"file", "dir"} : p \in Places(raw, kind)
        BY DEF Entry
      <4>2. /\ p = <<p[1], p[2], p[3]>> /\ Offset(p) \in Nat /\ At(raw, p).kind = kind
            /\ Offset(p) \div SectorRecords + 1 = p[2] /\ (Offset(p) % SectorRecords) + 1 = p[3]
        BY <4>1, PlaceFacts
      <4>3. ASSUME Offset(p) = pos PROVE FALSE
        <5>1. p = spot
          BY <3>1, <4>2, <4>3 DEF spot, Spot
        <5> QED
          BY <2>5, <2>8, <4>1, <4>2, <5>1
      <4> QED
        BY <1>2, <3>1, <4>2, <4>3
    <3>2. Skipped(pos + 1)
      BY <1>2, <2>1, <2>8, <3>1 DEF Skipped, skipRecord
    <3> QED
      BY <2>1, <3>2
  <2>9. CASE listFile
    <3>1. spot \in Places(raw, "file") /\ ListedFile(spot)
      BY <2>1, <2>5, <2>9 DEF listFile, ListedFile, Listed, fullPath, Path, Here
    <3> QED
      BY <3>1
  <2>10. CASE enterDirectory
    <3>1. spot \in Places(raw, "dir")
      BY <2>5, <2>10 DEF enterDirectory
    <3>2. /\ fullPath(Record(pos).name) = Path(raw, spot) /\ Here(spot)
          /\ UNCHANGED <<allFiles, largestFileSize>>
      BY <2>5, <2>10 DEF enterDirectory, fullPath, Path, Here
    <3>3. Len(allFiles) \in Nat
      OBVIOUS
    <3>4. PassedBy(spot) \/ Entered(spot)
      BY <2>1, <2>10, <3>2, <3>3, BoundFacts DEF enterDirectory, PassedBy, Entered
    <3>5. \E p \in Places(raw, "dir") : PassedBy(p) \/ Entered(p)
      BY <3>1, <3>4
    <3> QED
      BY <3>5
  <2> QED
    BY <2>2, <2>7, <2>8, <2>9, <2>10 DEF skipRecord
<1> QED
  BY <1>4, <1>5

(* The largest of some sizes, and that of a link if there is none.         *)
LEMMA LargestFacts ==
  ASSUME NEW S \in SUBSET Size
  PROVE  Largest(S) \in S \cup {Link} /\ \A o \in S : Largest(S) >= o
<1>1. \E s \in S \cup {Link} : \A o \in S : s >= o
  BY DEF Size, Link
<1> QED
  BY <1>1 DEF Largest

(* A size of theirs that is as large as all of them is the largest.        *)
LEMMA LargestIsMax ==
  ASSUME NEW S \in SUBSET Size, NEW m \in S \cup {Link}, \A o \in S : m >= o
  PROVE  m = Largest(S)
<1>1. Largest(S) \in S \cup {Link} /\ \A o \in S : Largest(S) >= o
  BY LargestFacts
<1>2. m \in 0..4 /\ Largest(S) \in 0..4
  <2>1. Link \in Size
    BY DEF Size, Link
  <2>2. m \in Size /\ Largest(S) \in Size
    BY <1>1, <2>1
  <2> QED
    BY <2>2 DEF Size
<1>3. m >= Largest(S)
  BY <1>1, <1>2 DEF Link
<1>4. Largest(S) >= m
  BY <1>1, <1>2 DEF Link
<1> QED
  BY <1>2, <1>3, <1>4

(* The files of an image are finitely many.                                *)
LEMMA TreeFacts ==
  ASSUME NEW image \in RawImages
  PROVE  /\ image.tree \in [DOMAIN image.tree -> Size] /\ DOMAIN image.tree \subseteq File
         /\ IsFiniteSet(DOMAIN image.tree)
         /\ IsFiniteSet(Places(image, "file"))
         /\ \A p \in Places(image, "file") : Path(image, p) \in DOMAIN image.tree
         /\ \A p \in Places(image, "file") : At(image, p).size \in Size
         /\ \A p \in Places(image, "dir") : Path(image, p) \in DOMAIN image.dirs \ {""}
         /\ \A p, q \in Places(image, "dir") : Path(image, p) = Path(image, q) => p = q
<1>1. IsFiniteSet(File)
  <2>1. IsFiniteSet({}) /\ \A S, x : IsFiniteSet(S) => IsFiniteSet(S \cup {x})
    BY FS_EmptySet, FS_AddElement
  <2>2. File = (((((((({} \cup {"sources/install.wim"}) \cup {"sources/install.esd"})
                 \cup {"SOURCES/INSTALL.WIM"}) \cup {BootWim}) \cup {EfiBootFile})
                 \cup {LiveFile}) \cup {"install/vmlinuz"}) \cup {"docs/latest"})
    BY DEF File, InstallFile
  <2> QED
    BY <2>1, <2>2
<1>2. image.tree \in [DOMAIN image.tree -> Size] /\ DOMAIN image.tree \subseteq File
  BY ImageFacts
<1>3. IsFiniteSet(DOMAIN image.tree)
  BY <1>1, <1>2, FS_Subset
<1>4. WellFormed(image)
  BY ImageFacts
<1>5. ASSUME NEW p \in Places(image, "file") PROVE At(image, p).size \in Size
  <2>1. At(image, p) \in DirectoryRecord /\ At(image, p).kind = "file"
    BY PlaceFacts
  <2> QED
    BY <2>1 DEF DirectoryRecord
<1> QED
  BY <1>2, <1>3, <1>4, <1>5 DEF WellFormed

(* A list of a finite set, as another scan makes it.                       *)
LEMMA FoundFacts ==
  ASSUME NEW image \in RawImages, NEW files \in SUBSET DOMAIN image.tree, NEW s,
         s = CHOOSE t \in [1..Cardinality(files) -> files] : IsInjective(t)
  PROVE  s \in Seq(File) /\ Range(s) = files
<1>1. IsFiniteSet(files) /\ files \subseteq File
  BY TreeFacts, FS_Subset
<1>2. Cardinality(files) \in Nat /\ ExistsBijection(1..Cardinality(files), files)
  BY <1>1, FS_CardinalityType
<1> DEFINE n == Cardinality(files)
<1>3. \E t \in [1..n -> files] : IsInjective(t)
  BY <1>2 DEF ExistsBijection, Bijection, Injection
<1>4. s \in [1..n -> files] /\ IsInjective(s)
  BY <1>3
<1>5. s \in Injection(1..n, files)
  BY <1>4 DEF Injection
<1>6. IsFiniteSet(1..n) /\ Cardinality(1..n) = n
  <2>1. n \in Int /\ 1 \in Int /\ n >= 0
    BY <1>2
  <2>2. IsFiniteSet(1..n) /\ Cardinality(1..n) = IF 1 > n THEN 0 ELSE n - 1 + 1
    BY <2>1, FS_Interval
  <2> QED
    BY <2>1, <2>2
<1>7. s \in Surjection(1..n, files)
  BY <1>1, <1>5, <1>6, FS_Injection
<1>8. Range(s) = files
  BY <1>4, <1>7 DEF Surjection, Range
<1>9. s \in Seq(File)
  <2>1. s \in [1..n -> File]
    BY <1>1, <1>4
  <2> HIDE DEF n
  <2> QED
    BY <1>2, <2>1 DEF n
<1> QED
  BY <1>8, <1>9

(* The folders have all the files, and only these.                         *)
LEMMA FolderFacts ==
  ASSUME raw \in RawImages, NEW view \in Views(raw)
  PROVE  /\ view \subseteq DOMAIN raw.tree /\ UNION Folders(view) = view
         /\ \A shown \in SUBSET Folders(view) : UNION shown \subseteq view
<1>1. view \subseteq DOMAIN raw.tree /\ DOMAIN raw.tree \subseteq File
  BY TreeFacts DEF Views, Iso9660
<1>2. \A folder \in Folders(view) : folder \subseteq view
  BY DEF Folders
<1>3. ASSUME NEW f \in view PROVE \E folder \in Folders(view) : f \in folder
  <2> DEFINE sources == {"sources/install.wim", "sources/install.esd", BootWim}
  <2>1. CASE f \in sources
    <3>1. view \cap sources \in Folders(view)
      BY <2>1 DEF Folders
    <3> QED
      BY <2>1, <3>1
  <2>2. CASE f \notin sources
    <3>1. view \cap {f} \in Folders(view)
      BY <1>1, <2>2 DEF Folders
    <3> QED
      BY <3>1
  <2> QED
    BY <2>1, <2>2
<1> QED
  BY <1>1, <1>2, <1>3

(* TypeOK, and more of the directories the scan is in.                     *)
TypeInv ==
  /\ raw \in RawImages /\ StackType(raw, stack)
  /\ pc \in {"descriptor", "bootRecord", "header", "entry", "tree", "7z", "losetup", "mountLoop",
             "mountLegacy", "mounted", "classify", "done"}
  /\ offset \in 1..(CatalogSlots + 1) /\ bootMode \subseteq {"bios", "uefi"}
  /\ allFiles \in Seq(File) /\ largestFileSize \in Size
  /\ scan \in {"raw", "7z", "mount"}
  /\ loopDev \in BOOLEAN
  /\ host \subseteq {"loop", "mount", "lateLoop", "lateMount"}
  /\ unreleased \subseteq {"loop", "mount"}

(* TypeInv has all that TypeOK says.                                       *)
LEMMA TypeInvImplies == TypeInv => TypeOK
<1> SUFFICES ASSUME TypeInv PROVE TypeOK
  OBVIOUS
<1> DEFINE T == [dir : DOMAIN raw.dirs, pos : Nat]
<1>1. /\ stack \in Seq(T)
      /\ \A i \in DOMAIN stack : stack[i].pos <= Len(raw.dirs[stack[i].dir]) * SectorRecords
  BY DEF TypeInv, StackType
<1>2. \A i \in DOMAIN stack : stack[i] \in T
  <2> HIDE DEF T
  <2> QED
    BY <1>1
<1>3. ASSUME NEW i \in DOMAIN stack
      PROVE  /\ stack[i].dir \in DOMAIN raw.dirs
             /\ stack[i].pos \in 0..(Len(raw.dirs[stack[i].dir]) * SectorRecords)
  <2>1. stack[i].dir \in DOMAIN raw.dirs /\ stack[i].pos \in Nat
    BY <1>2
  <2>2. raw.dirs[stack[i].dir] \in Seq(Seq(DirectoryRecord))
    BY <2>1, ImageFacts DEF TypeInv
  <2>3. Len(raw.dirs[stack[i].dir]) \in Nat
    BY <2>2
  <2>4. Len(raw.dirs[stack[i].dir]) * SectorRecords \in Nat
    BY <2>3, BoundFacts
  <2> QED
    BY <1>1, <2>1, <2>4
<1> QED
  BY <1>3 DEF TypeInv, TypeOK

(* The scan begins in the root directory.                                  *)
LEMMA TypeInvInit == Init => TypeInv
<1> SUFFICES ASSUME Init PROVE TypeInv
  OBVIOUS
<1> DEFINE root == ""
<1>1. raw \in RawImages /\ stack = <<[dir |-> root, pos |-> 0]>> /\ root \in DOMAIN raw.dirs
  BY ImageFacts DEF Init
<1> HIDE DEF root
<1>2. root \in DOMAIN raw.dirs /\ Len(raw.dirs[root]) * SectorRecords \in Nat
  <2>1. raw.dirs \in [DOMAIN raw.dirs -> Seq(Seq(DirectoryRecord))]
    BY <1>1, ImageFacts
  <2>2. raw.dirs[root] \in Seq(Seq(DirectoryRecord))
    BY <1>1, <2>1
  <2>3. Len(raw.dirs[root]) \in Nat
    BY <2>2
  <2> QED
    BY <1>1, <2>3, BoundFacts
<1>3. StackType(raw, stack)
  <2> DEFINE e == [dir |-> root, pos |-> 0]
             T == [dir : DOMAIN raw.dirs, pos : Nat]
  <2>1. e \in T /\ e.pos <= Len(raw.dirs[e.dir]) * SectorRecords /\ stack = <<e>>
    BY <1>1, <1>2
  <2> HIDE DEF e, T
  <2>2. stack \in Seq(T) /\ DOMAIN stack = 1..1 /\ stack[1] = e
    BY <2>1
  <2>3. \A i \in DOMAIN stack : stack[i].pos <= Len(raw.dirs[stack[i].dir]) * SectorRecords
    BY <2>1, <2>2
  <2> QED
    BY <2>2, <2>3 DEF StackType, T
<1>4. 1 \in 1..(CatalogSlots + 1) /\ Link \in Size
  BY BoundFacts DEF Size, Link
<1>5. pc = "descriptor" /\ offset = 1 /\ bootMode = {} /\ allFiles = <<>> /\ largestFileSize = Link
      /\ scan = "raw" /\ loopDev = FALSE /\ host = {} /\ unreleased = {}
  BY DEF Init
<1> HIDE DEF Init
<1> QED
  <2>1. allFiles \in Seq(File)
    BY <1>5
  <2>3. /\ loopDev \in BOOLEAN /\ bootMode \subseteq {"bios", "uefi"}
        /\ host \subseteq {"loop", "mount", "lateLoop", "lateMount"} /\ unreleased \subseteq {"loop", "mount"}
    BY <1>5
  <2>2. offset \in 1..(CatalogSlots + 1) /\ largestFileSize \in Size
    BY <1>4, <1>5
  <2> QED
    BY <1>1, <1>3, <1>5, <2>1, <2>2, <2>3 DEF TypeInv

(* A step of scanDirectoryTree leaves the types.                           *)
LEMMA ScanTypes ==
  ASSUME TypeInv, scanDirectoryTree
  PROVE  StackType(raw, stack') /\ allFiles' \in Seq(File) /\ largestFileSize' \in Size
<1> DEFINE T == [dir : DOMAIN raw.dirs, pos : Nat]
<1>1. /\ raw \in RawImages /\ StackType(raw, stack) /\ stack # <<>> /\ stack \in Seq(T)
      /\ allFiles \in Seq(File) /\ largestFileSize \in Size
  BY DEF TypeInv, scanDirectoryTree, StackType
<1>2. Top \in T
  <2> HIDE DEF T
  <2> QED
    BY <1>1, SeqFacts DEF Top
<1>3. ASSUME NEW q \in Nat, q <= End PROVE StackType(raw, Moved(q)) /\ Moved(q) \in Seq(T)
  <2>1. StackType(raw, Moved(q))
    BY <1>1, <1>3, MovedFacts DEF End
  <2> QED
    BY <2>1 DEF StackType
<1>4. Top.pos + 1 \in Nat /\ Top.dir \in DOMAIN raw.dirs
  BY <1>2
<1>5. CASE \E q \in Nat : Skipped(q)
  BY <1>1, <1>3, <1>5 DEF Skipped
<1>6. ASSUME NEW p \in Places(raw, "file"), ListedFile(p)
      PROVE  StackType(raw, stack') /\ allFiles' \in Seq(File) /\ largestFileSize' \in Size
  <2>1. Path(raw, p) \in File /\ At(raw, p).size \in Size
    BY <1>1, TreeFacts
  <2>2. Largest({largestFileSize, At(raw, p).size}) \in Size
    <3>1. {largestFileSize, At(raw, p).size} \in SUBSET Size
      BY <1>1, <2>1
    <3>2. Largest({largestFileSize, At(raw, p).size}) \in {largestFileSize, At(raw, p).size} \cup {Link}
      BY <3>1, LargestFacts
    <3> QED
      BY <1>1, <2>1, <3>2 DEF Size, Link
  <2>3. Append(allFiles, Path(raw, p)) \in Seq(File)
    BY <1>1, <2>1
  <2> QED
    BY <1>3, <1>4, <1>6, <2>2, <2>3 DEF ListedFile
<1>7. ASSUME NEW p \in Places(raw, "dir"), PassedBy(p) PROVE StackType(raw, stack')
  BY <1>3, <1>4, <1>7 DEF PassedBy
<1>8. ASSUME NEW p \in Places(raw, "dir"), Entered(p) PROVE StackType(raw, stack')
  <2> DEFINE e == [dir |-> Path(raw, p), pos |-> 0]
             m == Moved(Top.pos + 1)
  <2>1. e \in T /\ e.pos <= Len(raw.dirs[e.dir]) * SectorRecords
    <3>1. Path(raw, p) \in DOMAIN raw.dirs
      BY <1>1, TreeFacts
    <3>2. raw.dirs[Path(raw, p)] \in Seq(Seq(DirectoryRecord))
      BY <1>1, <3>1, ImageFacts
    <3>3. Len(raw.dirs[Path(raw, p)]) \in Nat
      BY <3>2
    <3>4. Len(raw.dirs[Path(raw, p)]) * SectorRecords \in Nat
      BY <3>3, BoundFacts
    <3> QED
      BY <3>1, <3>4
  <2>2. StackType(raw, m) /\ m \in Seq(T)
    BY <1>3, <1>4, <1>8 DEF Entered
  <2>3. stack' = Append(m, e)
    BY <1>8 DEF Entered
  <2>4. \A i \in DOMAIN m : m[i].pos <= Len(raw.dirs[m[i].dir]) * SectorRecords
    BY <2>2 DEF StackType
  <2> HIDE DEF e, m, T
  <2>5. /\ Append(m, e) \in Seq(T)
        /\ DOMAIN Append(m, e) = 1..(Len(m) + 1) /\ DOMAIN m = 1..Len(m) /\ Len(m) \in Nat
        /\ Append(m, e)[Len(m) + 1] = e
        /\ \A i \in 1..Len(m) : Append(m, e)[i] = m[i]
    BY <2>1, <2>2
  <2>6. \A i \in DOMAIN Append(m, e) :
          Append(m, e)[i].pos <= Len(raw.dirs[Append(m, e)[i].dir]) * SectorRecords
    BY <2>1, <2>4, <2>5
  <2> QED
    BY <2>3, <2>5, <2>6 DEF StackType, T
<1>9. CASE LeftDirectory
  <2> DEFINE m == SubSeq(stack, 1, Len(stack) - 1)
  <2>1. stack' = m /\ \A i \in DOMAIN stack : stack[i].pos <= Len(raw.dirs[stack[i].dir]) * SectorRecords
    BY <1>1, <1>9 DEF LeftDirectory, StackType
  <2> HIDE DEF T
  <2>2. Len(stack) \in Nat /\ Len(stack) # 0 /\ DOMAIN stack = 1..Len(stack)
    BY <1>1, SeqFacts
  <2>3. m \in Seq(T) /\ DOMAIN m = 1..(Len(stack) - 1) /\ \A i \in DOMAIN m : m[i] = stack[i]
    BY <1>1, <2>2
  <2>4. \A i \in DOMAIN m : m[i].pos <= Len(raw.dirs[m[i].dir]) * SectorRecords
    BY <2>1, <2>2, <2>3
  <2>5. UNCHANGED <<allFiles, largestFileSize>>
    BY <1>9 DEF LeftDirectory
  <2> QED
    BY <1>1, <2>1, <2>3, <2>4, <2>5 DEF StackType, T
<1> QED
  BY <1>1, <1>5, <1>6, <1>7, <1>8, <1>9, ScanStep DEF PassedBy, Entered

(* A scan of another kind leaves them.                                     *)
LEMMA FoundTypes ==
  ASSUME TypeInv, NEW files \in SUBSET DOMAIN raw.tree, NEW by, Found(files, by)
  PROVE  allFiles' \in Seq(File) /\ Range(allFiles') = files /\ largestFileSize' \in Size
<1>1. raw \in RawImages
  BY DEF TypeInv
<1>2. allFiles' \in Seq(File) /\ Range(allFiles') = files
  BY <1>1, FoundFacts DEF Found
<1>3. {raw.tree[f] : f \in files} \in SUBSET Size
  BY <1>1, TreeFacts
<1>4. Largest({raw.tree[f] : f \in files}) \in Size
  BY <1>3, LargestFacts DEF Size, Link
<1> QED
  BY <1>2, <1>4 DEF Found

(* Every step keeps the types.                                             *)
LEMMA TypeInvNext == TypeInv /\ [Next]_vars => TypeInv'
<1> SUFFICES ASSUME TypeInv, [Next]_vars PROVE TypeInv'
  OBVIOUS
<1> USE DEF TypeInv
<1>1. CASE readPrimaryVolumeDescriptor
  BY <1>1 DEF readPrimaryVolumeDescriptor
<1>2. CASE readElToritoBootRecord
  BY <1>2 DEF readElToritoBootRecord, Booted
<1>3. CASE readSectionHeader
  BY <1>3, BoundFacts DEF readSectionHeader, InSector
<1>4. CASE readSectionEntry
  BY <1>4, BoundFacts DEF readSectionEntry, InSector, Booted
<1>5. CASE scanDirectoryTree
  <2>1. StackType(raw, stack') /\ allFiles' \in Seq(File) /\ largestFileSize' \in Size
    BY <1>5, ScanTypes
  <2> QED
    BY <1>5, <2>1 DEF scanDirectoryTree
<1>6. CASE lookForInstaller
  BY <1>6 DEF lookForInstaller, Step
<1>7. CASE scanVia7z
  BY <1>7, FolderFacts, FoundTypes DEF scanVia7z, Step, Found
<1>8. CASE losetup
  BY <1>8 DEF losetup, GivenUp, Step
<1>9. CASE mountLoop
  BY <1>9 DEF mountLoop, Mount, Release, Step
<1>10. CASE mountLegacy
  BY <1>10 DEF mountLegacy, Mount, GivenUp, Step
<1>11. CASE scanMountedDir
  <2>v. PICK view \in Views(raw) : \E shown \in SUBSET Folders(view) : Found(UNION shown, "mount")
    BY <1>11 DEF scanMountedDir
  <2>1. PICK shown \in SUBSET Folders(view) : Found(UNION shown, "mount")
    BY <2>v
  <2>2. UNION shown \in SUBSET DOMAIN raw.tree
    BY FolderFacts
  <2>3. allFiles' \in Seq(File) /\ largestFileSize' \in Size /\ scan' = "mount"
    BY <2>1, <2>2, FoundTypes DEF Found
  <2> QED
    BY <1>11, <2>3 DEF scanMountedDir, Release, Step
<1>12. CASE classify
  BY <1>12 DEF classify
<1>13. CASE UNCHANGED vars
  BY <1>13
<1> QED
  BY <1>1, <1>2, <1>3, <1>4, <1>5, <1>6, <1>7, <1>8, <1>9, <1>10, <1>11, <1>12, <1>13 DEF Next

(* Every variable keeps its type.                                          *)
THEOREM ScanTypesHold == Spec => []TypeOK
<1> QED
  BY TypeInvInit, TypeInvNext, TypeInvImplies, PTL DEF Spec

(* The entries that a scan with stack s has before it in the directories   *)
(* it is in, and those it has before it in all.                            *)
OnTheWay(image, s) ==
  {p \in Entry(image) : \E l \in DOMAIN s : s[l].dir = p[1] /\ Offset(p) >= s[l].pos}

Closed(image, X) ==
  \A p \in Places(image, "dir") \cap X : {q \in Entry(image) : q[1] = Path(image, p)} \subseteq X

Ahead(image, s) ==
  {p \in Entry(image) : \A X \in SUBSET Entry(image) :
                          OnTheWay(image, s) \subseteq X /\ Closed(image, X) => p \in X}

(* An entry, as either kind of place.                                      *)
LEMMA EntryFacts ==
  ASSUME NEW image \in RawImages, NEW p \in Entry(image)
  PROVE  /\ p[1] \in DOMAIN image.dirs /\ Offset(p) \in Nat
         /\ Offset(p) < Len(image.dirs[p[1]]) * SectorRecords
         /\ \A q \in Entry(image) : p[1] = q[1] /\ Offset(p) = Offset(q) => p = q
<1>1. \A q \in Entry(image) :
        /\ q[1] \in DOMAIN image.dirs /\ q = <<q[1], q[2], q[3]>> /\ Offset(q) \in Nat
        /\ Offset(q) < Len(image.dirs[q[1]]) * SectorRecords
        /\ Offset(q) \div SectorRecords + 1 = q[2] /\ (Offset(q) % SectorRecords) + 1 = q[3]
  BY PlaceFacts DEF Entry
<1>2. ASSUME NEW q \in Entry(image), p[1] = q[1], Offset(p) = Offset(q) PROVE p = q
  <2>1. p[2] = q[2] /\ p[3] = q[3]
    BY <1>1, <1>2
  <2> QED
    BY <1>1, <1>2, <2>1
<1> QED
  BY <1>1, <1>2

(* No file is a directory.                                                 *)
LEMMA KindFacts ==
  ASSUME NEW image \in RawImages
  PROVE  Places(image, "file") \cap Places(image, "dir") = {}
<1>1. ASSUME NEW p \in Places(image, "file"), p \in Places(image, "dir") PROVE FALSE
  <2>1. At(image, p).kind = "file" /\ At(image, p).kind = "dir"
    BY <1>1, PlaceFacts
  <2> QED
    BY <2>1
<1> QED
  BY <1>1

(* With less on the way there is less ahead.                               *)
LEMMA AheadShrinks ==
  ASSUME NEW image, NEW s, NEW t, OnTheWay(image, t) \subseteq OnTheWay(image, s)
  PROVE  Ahead(image, t) \subseteq Ahead(image, s)
BY DEF Ahead

(* What is ahead of a directory was ahead before it is entered.            *)
LEMMA AheadEnters ==
  ASSUME NEW image, NEW s, NEW t, NEW d \in Places(image, "dir"), d \in OnTheWay(image, s),
         OnTheWay(image, t) \subseteq
           OnTheWay(image, s) \cup {q \in Entry(image) : q[1] = Path(image, d)}
  PROVE  Ahead(image, t) \subseteq Ahead(image, s)
<1>1. ASSUME NEW X \in SUBSET Entry(image), OnTheWay(image, s) \subseteq X, Closed(image, X)
      PROVE  OnTheWay(image, t) \subseteq X
  BY <1>1 DEF Closed
<1> QED
  BY <1>1 DEF Ahead

(* Once a file, or a directory that is entered, is read, the rest is       *)
(* ahead.                                                                  *)
LEMMA AheadWithout ==
  ASSUME NEW image \in RawImages, NEW s, NEW t, NEW f \in Entry(image),
         OnTheWay(image, s) \subseteq OnTheWay(image, t) \cup {f},
         f \in Places(image, "file") \/ {q \in Entry(image) : q[1] = Path(image, f)} \subseteq OnTheWay(image, t)
  PROVE  Ahead(image, s) \subseteq Ahead(image, t) \cup {f}
<1>1. ASSUME NEW X \in SUBSET Entry(image), OnTheWay(image, t) \subseteq X, Closed(image, X)
      PROVE  OnTheWay(image, s) \subseteq X \cup {f} /\ Closed(image, X \cup {f})
  <2>1. OnTheWay(image, s) \subseteq X \cup {f}
    BY <1>1
  <2>2. ASSUME NEW p \in Places(image, "dir") \cap (X \cup {f})
        PROVE  {q \in Entry(image) : q[1] = Path(image, p)} \subseteq X \cup {f}
    <3>1. CASE p \in X
      BY <1>1, <3>1 DEF Closed
    <3>2. CASE p = f
      BY <1>1, <3>2, KindFacts
    <3> QED
      BY <3>1, <3>2
  <2> QED
    BY <2>1, <2>2 DEF Closed
<1>2. ASSUME NEW p \in Ahead(image, s), p # f, NEW X \in SUBSET Entry(image),
             OnTheWay(image, t) \subseteq X, Closed(image, X)
      PROVE  p \in X
  <2>1. X \cup {f} \in SUBSET Entry(image)
    OBVIOUS
  <2>2. p \in X \cup {f}
    BY <1>1, <1>2, <2>1 DEF Ahead
  <2> QED
    BY <1>2, <2>2
<1> QED
  BY <1>2 DEF Ahead

(* Everything is ahead at first: the directories are a tree.               *)
LEMMA AheadOfRoot ==
  ASSUME NEW image \in RawImages, NEW root \in DOMAIN image.dirs,
         \A D \in SUBSET DOMAIN image.dirs :
           (root \in D /\ \A p \in Places(image, "dir") : p[1] \in D => Path(image, p) \in D) =>
             D = DOMAIN image.dirs,
         NEW s, s = <<[dir |-> root, pos |-> 0]>>
  PROVE  Ahead(image, s) = Entry(image)
<1> DEFINE subdirs == Places(image, "dir")
<1>2. \A p \in subdirs : Path(image, p) \in DOMAIN image.dirs
  BY TreeFacts
<1>3. DOMAIN s = {1} /\ s[1].dir = root /\ s[1].pos = 0
  OBVIOUS
<1>4. ASSUME NEW X \in SUBSET Entry(image), OnTheWay(image, s) \subseteq X, Closed(image, X)
      PROVE  Entry(image) \subseteq X
  <2> DEFINE D == {d \in DOMAIN image.dirs : \A q \in Entry(image) : q[1] = d => q \in X}
  <2>1. root \in D
    <3>1. \A q \in Entry(image) : q[1] = root => q \in OnTheWay(image, s)
      BY <1>3, EntryFacts DEF OnTheWay
    <3> QED
      BY <1>2, <1>4, <3>1
  <2>2. ASSUME NEW p \in subdirs, p[1] \in D PROVE Path(image, p) \in D
    <3>1. p \in X
      BY <2>2 DEF Entry
    <3> QED
      BY <1>2, <1>4, <3>1 DEF Closed
  <2>3. D = DOMAIN image.dirs
    <3>1. D \in SUBSET DOMAIN image.dirs
      OBVIOUS
    <3> HIDE DEF D
    <3> QED
      BY <2>1, <2>2, <3>1
  <2> QED
    BY <2>3, EntryFacts
<1> QED
  BY <1>4 DEF Ahead

(* This is so for the root directory of an image.                          *)
LEMMA AheadAtFirst ==
  ASSUME NEW image \in RawImages
  PROVE  Ahead(image, <<[dir |-> "", pos |-> 0]>>) = Entry(image)
<1>1. /\ "" \in DOMAIN image.dirs
      /\ \A D \in SUBSET DOMAIN image.dirs :
           ("" \in D /\ \A p \in Places(image, "dir") : p[1] \in D => Path(image, p) \in D) =>
             D = DOMAIN image.dirs
  BY ImageFacts DEF WellFormed
<1> QED
  BY <1>1, AheadOfRoot

(* Nothing is ahead in the end.                                            *)
LEMMA AheadAtEnd == ASSUME NEW image PROVE Ahead(image, <<>>) = {}
<1>1. OnTheWay(image, <<>>) = {}
  BY DEF OnTheWay
<1>2. Closed(image, {})
  BY DEF Closed
<1> QED
  BY <1>1, <1>2 DEF Ahead

(* The directories the scan is in are nested: each is the one of an entry  *)
(* that has just been read in the directory before it, the first is the    *)
(* root, and no directory is entered twice.                                *)
Root == ""

Nested(image, s) ==
  /\ 1 \in DOMAIN s => s[1].dir = Root
  /\ \A l \in DOMAIN s : l > 1 =>
       \E p \in Places(image, "dir") :
         p[1] = s[l - 1].dir /\ Offset(p) + 1 = s[l - 1].pos /\ Path(image, p) = s[l].dir
  /\ \A l, m \in DOMAIN s : s[l].dir = s[m].dir => l = m

(* What has just been read is not ahead any more.                          *)
LEMMA ReadIsBehind ==
  ASSUME NEW image \in RawImages, NEW s, StackType(image, s), Nested(image, s),
         NEW f \in Entry(image), NEW n \in DOMAIN s, f[1] = s[n].dir, Offset(f) + 1 = s[n].pos
  PROVE  f \notin Ahead(image, s)
<1> DEFINE Read(p) == \E l \in DOMAIN s : p[1] = s[l].dir /\ Offset(p) + 1 = s[l].pos
           X == {p \in Entry(image) : ~Read(p)}
<1>0. DOMAIN s = 1..Len(s) /\ Len(s) \in Nat
  BY SeqFacts DEF StackType
<1>1. f \notin X
  OBVIOUS
<1>2. OnTheWay(image, s) \subseteq X
  <2> SUFFICES ASSUME NEW p \in Entry(image), NEW l \in DOMAIN s, s[l].dir = p[1], Offset(p) >= s[l].pos,
                      NEW m \in DOMAIN s, p[1] = s[m].dir, Offset(p) + 1 = s[m].pos
               PROVE  FALSE
    BY DEF OnTheWay
  <2>1. m = l
    BY DEF Nested
  <2>2. Offset(p) \in Nat
    BY EntryFacts
  <2> QED
    BY <2>1, <2>2
<1>3. Closed(image, X)
  <2> SUFFICES ASSUME NEW p \in Places(image, "dir"), NEW q \in Entry(image), q[1] = Path(image, p),
                      NEW m \in DOMAIN s, q[1] = s[m].dir
               PROVE  Read(p)
    BY DEF Closed
  <2>1. m # 1
    <3>1. Path(image, p) # Root
      BY TreeFacts DEF Root
    <3> QED
      BY <3>1 DEF Nested
  <2>2. m > 1
    BY <1>0, <2>1
  <2>3. PICK r \in Places(image, "dir") : /\ r[1] = s[m - 1].dir /\ Offset(r) + 1 = s[m - 1].pos
                                          /\ Path(image, r) = s[m].dir
    BY <2>2 DEF Nested
  <2>4. r = p
    BY <2>3, TreeFacts
  <2>5. m - 1 \in DOMAIN s
    BY <1>0, <2>2
  <2> QED
    BY <2>3, <2>4, <2>5
<1> QED
  BY <1>1, <1>2, <1>3 DEF Ahead

(* The innermost directory, and a position in each.                        *)
LEMMA StackFacts ==
  ASSUME raw \in RawImages, StackType(raw, stack), stack # <<>>
  PROVE  /\ Len(stack) \in Nat /\ Len(stack) \in DOMAIN stack /\ DOMAIN stack = 1..Len(stack)
         /\ Top.pos \in Nat /\ Top.dir \in DOMAIN raw.dirs /\ Top.pos + 1 \in Nat /\ Top.pos < Top.pos + 1
         /\ \A l \in DOMAIN stack : stack[l].pos \in Nat
<1> DEFINE T == [dir : DOMAIN raw.dirs, pos : Nat]
<1>1. stack \in Seq(T)
  BY DEF StackType
<1>2. /\ Len(stack) \in Nat /\ DOMAIN stack = 1..Len(stack) /\ \A l \in DOMAIN stack : stack[l] \in T
      /\ Len(stack) \in DOMAIN stack /\ Top \in T
  <2> HIDE DEF T
  <2> QED
    BY <1>1, SeqFacts DEF Top
<1> QED
  BY <1>2

(* Entries that are moved over are not on the way any more.                *)
LEMMA MovedOnTheWay ==
  ASSUME raw \in RawImages, StackType(raw, stack), stack # <<>>, Nested(raw, stack),
         NEW q \in Nat, Top.pos <= q, q <= End
  PROVE  /\ Nested(raw, Moved(q)) /\ StackType(raw, Moved(q))
         /\ OnTheWay(raw, Moved(q)) \subseteq OnTheWay(raw, stack)
         /\ \A p \in OnTheWay(raw, stack) :
              \/ p \in OnTheWay(raw, Moved(q))
              \/ p[1] = Top.dir /\ Offset(p) >= Top.pos /\ Offset(p) < q
<1> DEFINE n == Len(stack)
           t == Moved(q)
<1>1. /\ n \in Nat /\ n \in DOMAIN stack /\ DOMAIN stack = 1..n /\ DOMAIN t = DOMAIN stack
      /\ t[n].pos = q /\ \A l \in DOMAIN stack : l # n => t[l] = stack[l]
      /\ \A l \in DOMAIN stack : t[l].dir = stack[l].dir
      /\ stack[n] = Top /\ StackType(raw, t)
      /\ \A l \in DOMAIN stack : stack[l].pos \in Nat
  BY StackFacts, MovedFacts DEF End, Top
<1> HIDE DEF n, t
<1>2. Nested(raw, t)
  <2>1. 1 \in DOMAIN t => t[1].dir = Root
    BY <1>1 DEF Nested
  <2>2. \A l, m \in DOMAIN t : t[l].dir = t[m].dir => l = m
    BY <1>1 DEF Nested
  <2>3. ASSUME NEW l \in DOMAIN t, l > 1
        PROVE  \E p \in Places(raw, "dir") :
                 p[1] = t[l - 1].dir /\ Offset(p) + 1 = t[l - 1].pos /\ Path(raw, p) = t[l].dir
    <3>1. l - 1 \in DOMAIN stack /\ l - 1 # n /\ l \in DOMAIN stack
      BY <1>1, <2>3
    <3>2. t[l - 1] = stack[l - 1] /\ t[l].dir = stack[l].dir
      BY <1>1, <3>1
    <3> QED
      BY <2>3, <3>1, <3>2 DEF Nested
  <2> QED
    BY <2>1, <2>2, <2>3 DEF Nested
<1>3. ASSUME NEW p \in OnTheWay(raw, t) PROVE p \in OnTheWay(raw, stack)
  <2>1. PICK l \in DOMAIN stack : t[l].dir = p[1] /\ Offset(p) >= t[l].pos
    BY <1>1 DEF OnTheWay
  <2>2. p \in Entry(raw) /\ Offset(p) \in Nat
    BY EntryFacts DEF OnTheWay
  <2>3. stack[l].dir = p[1] /\ Offset(p) >= stack[l].pos
    <3>1. CASE l = n
      BY <1>1, <2>1, <2>2, <3>1
    <3>2. CASE l # n
      BY <1>1, <2>1, <3>2
    <3> QED
      BY <3>1, <3>2
  <2> QED
    BY <2>2, <2>3 DEF OnTheWay
<1>4. ASSUME NEW p \in OnTheWay(raw, stack)
      PROVE  \/ p \in OnTheWay(raw, t)
             \/ p[1] = Top.dir /\ Offset(p) >= Top.pos /\ Offset(p) < q
  <2>1. PICK l \in DOMAIN stack : stack[l].dir = p[1] /\ Offset(p) >= stack[l].pos
    BY DEF OnTheWay
  <2>2. p \in Entry(raw) /\ Offset(p) \in Nat
    BY EntryFacts DEF OnTheWay
  <2>3. CASE l = n
    BY <1>1, <2>1, <2>2, <2>3 DEF OnTheWay
  <2>4. CASE l # n
    BY <1>1, <2>1, <2>2, <2>4 DEF OnTheWay
  <2> QED
    BY <2>3, <2>4
<1> QED
  BY <1>1, <1>2, <1>3, <1>4 DEF t

(* An entry that is read was on the way; all others still are.             *)
LEMMA ReadOnTheWay ==
  ASSUME raw \in RawImages, StackType(raw, stack), stack # <<>>, Nested(raw, stack),
         NEW p \in Entry(raw), Here(p)
  PROVE  /\ Top.pos + 1 \in Nat /\ Top.pos + 1 <= End
         /\ p \in OnTheWay(raw, stack)
         /\ OnTheWay(raw, stack) \subseteq OnTheWay(raw, Moved(Top.pos + 1)) \cup {p}
         /\ p \notin Ahead(raw, Moved(Top.pos + 1))
<1> DEFINE n == Len(stack)
           t == Moved(Top.pos + 1)
<1>1. n \in DOMAIN stack /\ stack[n] = Top /\ Top.pos \in Nat /\ Top.pos + 1 \in Nat
  BY StackFacts DEF Top
<1>2. p[1] = Top.dir /\ Offset(p) = Top.pos /\ Offset(p) < End /\ End \in Nat
  <2>1. p[1] = Top.dir /\ Offset(p) = Top.pos /\ Offset(p) < End
    BY EntryFacts DEF Here, End
  <2>2. raw.dirs[Top.dir] \in Seq(Seq(DirectoryRecord))
    BY StackFacts, ImageFacts
  <2>3. Len(raw.dirs[Top.dir]) \in Nat
    BY <2>2
  <2> QED
    BY <2>1, <2>3, BoundFacts DEF End
<1>3. Top.pos + 1 <= End
  BY <1>1, <1>2
<1>4. p \in OnTheWay(raw, stack)
  BY <1>1, <1>2 DEF OnTheWay
<1>5. /\ Nested(raw, t) /\ StackType(raw, t)
      /\ \A r \in OnTheWay(raw, stack) :
           \/ r \in OnTheWay(raw, t)
           \/ r[1] = Top.dir /\ Offset(r) >= Top.pos /\ Offset(r) < Top.pos + 1
  BY <1>1, <1>3, MovedOnTheWay
<1>6. ASSUME NEW r \in OnTheWay(raw, stack), r \notin OnTheWay(raw, t) PROVE r = p
  <2>1. r \in Entry(raw) /\ Offset(r) \in Nat
    BY EntryFacts DEF OnTheWay
  <2>2. r[1] = p[1] /\ Offset(r) = Offset(p)
    BY <1>1, <1>2, <1>5, <1>6, <2>1
  <2> QED
    BY <2>1, <2>2, EntryFacts
<1>7. p \notin Ahead(raw, t)
  <2>1. n \in DOMAIN t /\ t[n].dir = p[1] /\ t[n].pos = Offset(p) + 1
    BY <1>1, <1>2, <1>3, MovedFacts DEF End
  <2> QED
    BY <1>5, <2>1, ReadIsBehind
<1> QED
  BY <1>1, <1>3, <1>4, <1>6, <1>7

(* A directory is entered once: all in it comes on the way.                *)
Pushed(p, t, n, s) ==
  /\ DOMAIN t = 1..n /\ t[n].dir = p[1] /\ t[n].pos = Offset(p) + 1
  /\ DOMAIN s = 1..(n + 1) /\ s[n + 1].dir = Path(raw, p) /\ s[n + 1].pos = 0
  /\ \A l \in 1..n : s[l] = t[l]

(* A directory is put on a stack: all of its entries are on the way.       *)
LEMMA PushedOnTheWay ==
  ASSUME raw \in RawImages, NEW p \in Places(raw, "dir"), NEW t, Nested(raw, t),
         NEW n \in Nat \ {0}, NEW s, Pushed(p, t, n, s)
  PROVE  /\ Nested(raw, s)
         /\ OnTheWay(raw, s) = OnTheWay(raw, t) \cup {q \in Entry(raw) : q[1] = Path(raw, p)}
<1> USE DEF Pushed
<1>4. ASSUME NEW l \in 1..n, t[l].dir = Path(raw, p) PROVE FALSE
  <2>1. CASE l = 1
    <3>1. Path(raw, p) # Root
      BY TreeFacts DEF Root
    <3> QED
      BY <1>4, <2>1, <3>1 DEF Nested
  <2>2. CASE l # 1
    <3>1. l > 1 /\ l - 1 \in 1..n
      BY <2>2
    <3>2. PICK r \in Places(raw, "dir") :
            r[1] = t[l - 1].dir /\ Offset(r) + 1 = t[l - 1].pos /\ Path(raw, r) = t[l].dir
      BY <3>1 DEF Nested
    <3>3. r = p
      BY <1>4, <3>2, TreeFacts
    <3>4. l - 1 = n
      BY <3>1, <3>2, <3>3 DEF Nested
    <3> QED
      BY <3>4
  <2> QED
    BY <2>1, <2>2
<1>5. Nested(raw, s)
  <2>1. 1 \in DOMAIN s => s[1].dir = Root
    BY DEF Nested
  <2>2. ASSUME NEW l \in DOMAIN s, NEW m \in DOMAIN s, s[l].dir = s[m].dir PROVE l = m
    <3>1. CASE l \in 1..n /\ m \in 1..n
      BY <2>2, <3>1 DEF Nested
    <3>2. CASE l = n + 1 /\ m \in 1..n
      BY <1>4, <2>2, <3>2
    <3>3. CASE m = n + 1 /\ l \in 1..n
      BY <1>4, <2>2, <3>3
    <3> QED
      BY <3>1, <3>2, <3>3
  <2>3. ASSUME NEW l \in DOMAIN s, l > 1
        PROVE  \E r \in Places(raw, "dir") :
                 r[1] = s[l - 1].dir /\ Offset(r) + 1 = s[l - 1].pos /\ Path(raw, r) = s[l].dir
    <3>1. CASE l \in 1..n
      <4>1. l - 1 \in 1..n
        BY <2>3, <3>1
      <4> QED
        BY <2>3, <3>1, <4>1 DEF Nested
    <3>2. CASE l = n + 1
      <4>1. l - 1 = n /\ n \in 1..n
        BY <3>2
      <4> QED
        BY <3>2, <4>1
    <3> QED
      BY <3>1, <3>2
  <2> QED
    BY <2>1, <2>2, <2>3 DEF Nested
<1>6. OnTheWay(raw, s) = OnTheWay(raw, t) \cup {q \in Entry(raw) : q[1] = Path(raw, p)}
  <2>1. ASSUME NEW q \in OnTheWay(raw, s)
        PROVE  q \in OnTheWay(raw, t) \/ q[1] = Path(raw, p)
    <3>1. PICK l \in 1..(n + 1) : s[l].dir = q[1] /\ Offset(q) >= s[l].pos
      BY DEF OnTheWay
    <3>2. CASE l \in 1..n
      BY <3>1, <3>2 DEF OnTheWay
    <3>3. CASE l = n + 1
      BY <3>1, <3>3
    <3> QED
      BY <3>2, <3>3
  <2>2. ASSUME NEW q \in OnTheWay(raw, t) PROVE q \in OnTheWay(raw, s)
    <3>1. PICK l \in 1..n : t[l].dir = q[1] /\ Offset(q) >= t[l].pos
      BY DEF OnTheWay
    <3>2. l \in 1..(n + 1)
      OBVIOUS
    <3> QED
      BY <3>1, <3>2 DEF OnTheWay
  <2>3. ASSUME NEW q \in Entry(raw), q[1] = Path(raw, p) PROVE q \in OnTheWay(raw, s)
    <3>1. Offset(q) >= 0 /\ n + 1 \in 1..(n + 1)
      BY EntryFacts
    <3> QED
      BY <2>3, <3>1 DEF OnTheWay
  <2>4. OnTheWay(raw, s) \subseteq Entry(raw)
    BY DEF OnTheWay
  <2> QED
    BY <2>1, <2>2, <2>3, <2>4
<1> QED
  BY <1>5, <1>6

(* This is so when scanDirectoryTree enters one.                           *)
LEMMA EnteredOnTheWay ==
  ASSUME raw \in RawImages, StackType(raw, stack), stack # <<>>, Nested(raw, stack),
         NEW p \in Places(raw, "dir"), Here(p),
         NEW s, s = Append(Moved(Top.pos + 1), [dir |-> Path(raw, p), pos |-> 0])
  PROVE  /\ Nested(raw, s)
         /\ OnTheWay(raw, s) =
              OnTheWay(raw, Moved(Top.pos + 1)) \cup {q \in Entry(raw) : q[1] = Path(raw, p)}
<1> DEFINE t == Moved(Top.pos + 1)
           n == Len(stack)
           e == [dir |-> Path(raw, p), pos |-> 0]
<1>0. p \in Entry(raw)
  BY DEF Entry
<1>1. /\ Top.pos + 1 \in Nat /\ Top.pos + 1 <= End /\ Top.pos \in Nat
      /\ n \in Nat /\ n \in DOMAIN stack /\ stack[n] = Top
  BY <1>0, ReadOnTheWay, StackFacts DEF Top
<1>2. /\ Nested(raw, t) /\ StackType(raw, t)
      /\ Len(t) = n /\ DOMAIN t = DOMAIN stack /\ n # 0
      /\ t[n].dir = p[1] /\ t[n].pos = Offset(p) + 1
  BY <1>1, MovedOnTheWay, MovedFacts, StackFacts DEF End, Here
<1>3. /\ DOMAIN t = 1..n /\ DOMAIN s = 1..(n + 1)
      /\ s[n + 1].dir = Path(raw, p) /\ s[n + 1].pos = 0
      /\ \A l \in 1..n : s[l] = t[l]
  <2> DEFINE T == [dir : DOMAIN raw.dirs, pos : Nat]
  <2>1. t \in Seq(T)
    BY <1>2 DEF StackType
  <2>2. s = Append(t, e) /\ e.dir = Path(raw, p) /\ e.pos = 0
    OBVIOUS
  <2> HIDE DEF T, t, e
  <2> QED
    BY <1>1, <1>2, <2>1, <2>2
<1> HIDE DEF t, n, e
<1>5. n \in Nat \ {0}
  BY <1>1, <1>2
<1>4. Nested(raw, s)
      /\ OnTheWay(raw, s) = OnTheWay(raw, t) \cup {q \in Entry(raw) : q[1] = Path(raw, p)}
  <2>1. Pushed(p, t, n, s)
    BY <1>2, <1>3 DEF Pushed
  <2> QED
    BY <1>2, <1>5, <2>1, PushedOnTheWay
<1> QED
  BY <1>4 DEF t

(* A directory that is at its end has nothing on the way.                  *)
LEMMA PoppedOnTheWay ==
  ASSUME raw \in RawImages, StackType(raw, stack), stack # <<>>, Nested(raw, stack), Top.pos >= End,
         NEW n, n = Len(stack),
         NEW s, DOMAIN s = 1..(n - 1), \A l \in 1..(n - 1) : s[l] = stack[l]
  PROVE  Nested(raw, s) /\ OnTheWay(raw, s) = OnTheWay(raw, stack)
<1>1. n \in Nat /\ n \in DOMAIN stack /\ DOMAIN stack = 1..n
  BY StackFacts
<1>2. \A l \in 1..(n - 1) : l \in DOMAIN stack
  BY <1>1
<1>3. Nested(raw, s)
  <2>1. ASSUME NEW l \in DOMAIN s, l > 1
        PROVE  \E r \in Places(raw, "dir") :
                 r[1] = s[l - 1].dir /\ Offset(r) + 1 = s[l - 1].pos /\ Path(raw, r) = s[l].dir
    <3>1. l - 1 \in 1..(n - 1) /\ l \in 1..(n - 1)
      BY <1>1, <1>2, <2>1
    <3>2. s[l - 1] = stack[l - 1] /\ s[l] = stack[l] /\ l \in DOMAIN stack
      BY <1>2, <3>1
    <3> QED
      BY <2>1, <3>2 DEF Nested
  <2>2. 1 \in DOMAIN s => s[1].dir = Root
    BY <1>2 DEF Nested
  <2>3. \A l, m \in DOMAIN s : s[l].dir = s[m].dir => l = m
    BY <1>2 DEF Nested
  <2> QED
    BY <2>1, <2>2, <2>3 DEF Nested
<1>4. ASSUME NEW p \in OnTheWay(raw, stack) PROVE p \in OnTheWay(raw, s)
  <2>1. PICK l \in DOMAIN stack : stack[l].dir = p[1] /\ Offset(p) >= stack[l].pos
    BY DEF OnTheWay
  <2>2. p \in Entry(raw) /\ Offset(p) \in Nat /\ Offset(p) < Len(raw.dirs[p[1]]) * SectorRecords
    BY EntryFacts DEF OnTheWay
  <2>3. l # n
    <3> SUFFICES ASSUME l = n PROVE FALSE
      OBVIOUS
    <3>1. p[1] = Top.dir /\ Offset(p) >= Top.pos
      BY <2>1 DEF Top
    <3>2. Offset(p) < End
      BY <2>2, <3>1 DEF End
    <3>3. End \in Nat /\ Top.pos \in Nat
      <4>1. Top.dir \in DOMAIN raw.dirs /\ Top.pos \in Nat
        BY StackFacts
      <4>2. raw.dirs[Top.dir] \in Seq(Seq(DirectoryRecord))
        BY <4>1, ImageFacts
      <4>3. Len(raw.dirs[Top.dir]) \in Nat
        BY <4>2
      <4> QED
        BY <4>1, <4>3, BoundFacts DEF End
    <3> QED
      BY <2>2, <3>1, <3>2, <3>3
  <2>4. l \in 1..(n - 1)
    BY <1>1, <2>3
  <2> QED
    BY <1>2, <2>1, <2>2, <2>4 DEF OnTheWay
<1>5. ASSUME NEW p \in OnTheWay(raw, s) PROVE p \in OnTheWay(raw, stack)
  BY <1>2 DEF OnTheWay
<1> QED
  BY <1>3, <1>4, <1>5

(* This is so when scanDirectoryTree returns from one.                     *)
LEMMA LeftOnTheWay ==
  ASSUME raw \in RawImages, StackType(raw, stack), stack # <<>>, Nested(raw, stack),
         Top.pos >= End, NEW s, s = SubSeq(stack, 1, Len(stack) - 1)
  PROVE  Nested(raw, s) /\ OnTheWay(raw, s) = OnTheWay(raw, stack)
<1> DEFINE T == [dir : DOMAIN raw.dirs, pos : Nat]
<1>1. stack \in Seq(T) /\ Len(stack) \in Nat /\ Len(stack) \in 1..Len(stack)
  BY StackFacts DEF StackType
<1> HIDE DEF T
<1>2. DOMAIN s = 1..(Len(stack) - 1) /\ \A l \in 1..(Len(stack) - 1) : s[l] = stack[l]
  BY <1>1
<1> QED
  BY <1>2, PoppedOnTheWay

(* No more files than the scan lists before it enters no directory.        *)
Few(image) == Cardinality(Places(image, "file")) <= MaxFiles

(* What the raw scan has listed while it has a stack of directories: files *)
(* of the image only, no more than it has left behind, and all of those if *)
(* they are few.  A directory is listed whole, but for what is on the way. *)
Listing(image, s, all, largest) ==
  LET files    == Places(image, "file")
      listed   == Range(all)
      known(p) == p \in OnTheWay(image, s) \/ Path(image, p) \in listed
  IN  /\ largest = Link \/ \E p \in files : At(image, p).size = largest
      /\ Len(all) <= Cardinality(files \ Ahead(image, s))
      /\ Few(image) => \A p \in files \ Ahead(image, s) :
                         Path(image, p) \in listed /\ At(image, p).size <= largest
      /\ \A l \in DOMAIN s : \A p \in files : p[1] = s[l].dir => known(p)
      /\ \A f \in listed : \E p \in files :
           Path(image, p) = f /\ \A q \in files : q[1] = p[1] => known(q)

(* What is on the way is ahead.                                            *)
LEMMA OnTheWayIsAhead ==
  ASSUME NEW image, NEW s
  PROVE  OnTheWay(image, s) \subseteq Ahead(image, s)
BY DEF OnTheWay, Ahead

(* The files left behind are finitely many.                                *)
LEMMA BehindFacts ==
  ASSUME NEW image \in RawImages, NEW s
  PROVE  /\ IsFiniteSet(Places(image, "file") \ Ahead(image, s))
         /\ Cardinality(Places(image, "file") \ Ahead(image, s)) \in Nat
         /\ Cardinality(Places(image, "file") \ Ahead(image, s)) <= Cardinality(Places(image, "file"))
         /\ Cardinality(Places(image, "file")) \in Nat
<1>1. IsFiniteSet(Places(image, "file"))
  BY TreeFacts
<1> QED
  BY <1>1, FS_Subset, FS_CardinalityType

(* Nothing is listed in a step that leaves no file behind.                 *)
LEMMA ListingStays ==
  ASSUME NEW image \in RawImages, NEW s, NEW t, NEW all \in Seq(File), NEW largest,
         Listing(image, s, all, largest),
         Ahead(image, t) \subseteq Ahead(image, s),
         Few(image) => Ahead(image, s) \cap Places(image, "file") \subseteq Ahead(image, t),
         OnTheWay(image, s) \cap Places(image, "file") \subseteq OnTheWay(image, t),
         \A l \in DOMAIN t :
           \/ \E m \in DOMAIN s : s[m].dir = t[l].dir
           \/ \A p \in Places(image, "file") : p[1] = t[l].dir => p \in OnTheWay(image, t)
  PROVE  Listing(image, t, all, largest)
<1> DEFINE files == Places(image, "file")
<1>1. Len(all) <= Cardinality(files \ Ahead(image, t))
  <2>1. files \ Ahead(image, s) \subseteq files \ Ahead(image, t)
    OBVIOUS
  <2>2. Cardinality(files \ Ahead(image, s)) <= Cardinality(files \ Ahead(image, t))
    <3> HIDE DEF files
    <3> QED
      BY <2>1, BehindFacts, FS_Subset DEF files
  <2>3. Len(all) <= Cardinality(files \ Ahead(image, s)) /\ Len(all) \in Nat
    BY DEF Listing
  <2>4. /\ Cardinality(files \ Ahead(image, s)) \in Nat
        /\ Cardinality(files \ Ahead(image, t)) \in Nat
    BY BehindFacts
  <2> QED
    BY <2>2, <2>3, <2>4
<1>2. largest = Link \/ \E p \in files : At(image, p).size = largest
  BY DEF Listing
<1>3. Few(image) => \A p \in files \ Ahead(image, t) :
                      Path(image, p) \in Range(all) /\ At(image, p).size <= largest
  BY DEF Listing
<1>4. \A l \in DOMAIN t : \A p \in files :
        p[1] = t[l].dir => p \in OnTheWay(image, t) \/ Path(image, p) \in Range(all)
  BY DEF Listing
<1>5. \A f \in Range(all) : \E p \in files :
        /\ Path(image, p) = f
        /\ \A q \in files : q[1] = p[1] => q \in OnTheWay(image, t) \/ Path(image, q) \in Range(all)
  <2> TAKE f \in Range(all)
  <2>1. PICK p \in files :
          /\ Path(image, p) = f
          /\ \A q \in files : q[1] = p[1] => q \in OnTheWay(image, s) \/ Path(image, q) \in Range(all)
    BY DEF Listing
  <2> QED
    BY <2>1
<1> QED
  BY <1>1, <1>2, <1>3, <1>4, <1>5 DEF Listing

(* A file is listed when it is left behind.                                *)
LEMMA ListingGrows ==
  ASSUME NEW image \in RawImages, NEW s, NEW t, NEW all \in Seq(File), NEW largest \in Size,
         Listing(image, s, all, largest),
         NEW f \in Places(image, "file"),
         f \in OnTheWay(image, s), f \notin Ahead(image, t),
         OnTheWay(image, t) \subseteq OnTheWay(image, s),
         OnTheWay(image, s) \subseteq OnTheWay(image, t) \cup {f},
         DOMAIN t = DOMAIN s, \A l \in DOMAIN s : t[l].dir = s[l].dir,
         NEW m \in DOMAIN s, s[m].dir = f[1]
  PROVE  Listing(image, t, Append(all, Path(image, f)), Largest({largest, At(image, f).size}))
<1> DEFINE files == Places(image, "file")
           list  == Append(all, Path(image, f))
           big   == Largest({largest, At(image, f).size})
           behind(u) == files \ Ahead(image, u)
<1>1. f \in Entry(image) /\ At(image, f).size \in Size
  BY TreeFacts DEF Entry
<1>2. /\ big \in {largest, At(image, f).size} \cup {Link} /\ big \in Int
      /\ big >= largest /\ big >= At(image, f).size
  <2>1. {largest, At(image, f).size} \in SUBSET Size
    BY <1>1
  <2>2. /\ big \in {largest, At(image, f).size} \cup {Link}
        /\ \A o \in {largest, At(image, f).size} : big >= o
    BY <2>1, LargestFacts
  <2> QED
    BY <1>1, <2>2 DEF Size, Link
<1>3. Range(list) = Range(all) \cup {Path(image, f)} /\ Len(list) = Len(all) + 1 /\ Len(all) \in Nat
  <2>1. /\ Len(list) = Len(all) + 1 /\ Len(all) \in Nat /\ DOMAIN all = 1..Len(all)
        /\ DOMAIN list = 1..(Len(all) + 1) /\ list[Len(all) + 1] = Path(image, f)
        /\ \A i \in 1..Len(all) : list[i] = all[i]
    OBVIOUS
  <2> HIDE DEF list
  <2> QED
    BY <2>1 DEF Range
<1>4. Ahead(image, s) \subseteq Ahead(image, t) \cup {f} /\ Ahead(image, t) \subseteq Ahead(image, s)
      /\ f \in Ahead(image, s)
  BY <1>1, AheadWithout, AheadShrinks, OnTheWayIsAhead
<1> HIDE DEF list, big
<1>5. Len(list) <= Cardinality(behind(t))
  <2>1. behind(t) = behind(s) \cup {f} /\ f \notin behind(s)
    BY <1>4
  <2>2. Cardinality(behind(t)) = Cardinality(behind(s)) + 1
    <3>1. IsFiniteSet(behind(s))
      BY BehindFacts
    <3> HIDE DEF behind
    <3> QED
      BY <2>1, <3>1, FS_AddElement
  <2>3. Len(all) <= Cardinality(behind(s)) /\ Cardinality(behind(s)) \in Nat
    BY BehindFacts DEF Listing
  <2> QED
    BY <1>3, <2>2, <2>3
<1>6. big = Link \/ \E p \in files : At(image, p).size = big
  BY <1>2 DEF Listing
<1>7. ASSUME Few(image), NEW p \in files \ Ahead(image, t)
      PROVE  Path(image, p) \in Range(list) /\ At(image, p).size <= big
  <2>1. CASE p = f
    BY <1>1, <1>2, <1>3, <2>1 DEF Size
  <2>2. CASE p # f
    <3>1. Path(image, p) \in Range(all) /\ At(image, p).size <= largest
      BY <1>4, <1>7, <2>2 DEF Listing
    <3>2. At(image, p).size \in Size
      BY TreeFacts
    <3> QED
      BY <1>2, <1>3, <3>1, <3>2 DEF Size
  <2> QED
    BY <2>1, <2>2
<1>8. ASSUME NEW p \in files, p \in OnTheWay(image, s) \/ Path(image, p) \in Range(all)
      PROVE  p \in OnTheWay(image, t) \/ Path(image, p) \in Range(list)
  BY <1>3, <1>8
<1>9. \A l \in DOMAIN t : \A p \in files :
        p[1] = t[l].dir => p \in OnTheWay(image, t) \/ Path(image, p) \in Range(list)
  BY <1>8 DEF Listing
<1>10. ASSUME NEW g \in Range(list)
       PROVE  \E p \in files :
                /\ Path(image, p) = g
                /\ \A q \in files :
                     q[1] = p[1] => q \in OnTheWay(image, t) \/ Path(image, q) \in Range(list)
  <2>1. CASE g \in Range(all)
    <3>1. PICK p \in files :
            /\ Path(image, p) = g
            /\ \A q \in files :
                 q[1] = p[1] => q \in OnTheWay(image, s) \/ Path(image, q) \in Range(all)
      BY <2>1 DEF Listing
    <3> QED
      BY <1>8, <3>1
  <2>2. CASE g = Path(image, f)
    <3>1. \A q \in files : q[1] = f[1] => q \in OnTheWay(image, t) \/ Path(image, q) \in Range(list)
      BY <1>9
    <3> QED
      BY <2>2, <3>1
  <2> QED
    BY <1>3, <2>1, <2>2
<1> QED
  BY <1>5, <1>6, <1>7, <1>9, <1>10 DEF Listing, list, big

(* Each step of scanDirectoryTree keeps the nesting and the list.          *)
LEMMA ScanLists ==
  ASSUME TypeInv, Nested(raw, stack), scanDirectoryTree
  PROVE  /\ Nested(raw, stack')
         /\ Listing(raw, stack, allFiles, largestFileSize) =>
              Listing(raw, stack', allFiles', largestFileSize')
<1> DEFINE Kept == Listing(raw, stack, allFiles, largestFileSize) =>
                     Listing(raw, stack', allFiles', largestFileSize')
<1>1. /\ raw \in RawImages /\ StackType(raw, stack) /\ stack # <<>>
      /\ allFiles \in Seq(File) /\ largestFileSize \in Size
  BY DEF TypeInv, scanDirectoryTree
<1>2. Top.pos \in Nat /\ Top.pos + 1 \in Nat /\ Top.pos <= Top.pos + 1 /\ Len(stack) \in DOMAIN stack
  BY <1>1, StackFacts
<1>3. ASSUME NEW q \in Nat, q <= End
      PROVE  DOMAIN Moved(q) = DOMAIN stack /\ \A l \in DOMAIN stack : Moved(q)[l].dir = stack[l].dir
  BY <1>1, <1>3, MovedFacts DEF End
<1> DEFINE t == Moved(Top.pos + 1)
<1>4. ASSUME NEW p \in Entry(raw), Here(p)
      PROVE  /\ Nested(raw, t) /\ DOMAIN t = DOMAIN stack /\ \A l \in DOMAIN stack : t[l].dir = stack[l].dir
             /\ p \in OnTheWay(raw, stack) /\ p \notin Ahead(raw, t)
             /\ OnTheWay(raw, t) \subseteq OnTheWay(raw, stack)
             /\ OnTheWay(raw, stack) \subseteq OnTheWay(raw, t) \cup {p}
  <2>1. Top.pos + 1 <= End
    BY <1>1, <1>4, ReadOnTheWay
  <2> QED
    BY <1>1, <1>2, <1>3, <1>4, <2>1, ReadOnTheWay, MovedOnTheWay
<1>5. ASSUME NEW q \in Nat, Skipped(q) PROVE Nested(raw, stack') /\ Kept
  <2>1. Top.pos <= q /\ q <= End /\ stack' = Moved(q) /\ UNCHANGED <<allFiles, largestFileSize>>
    BY <1>2, <1>5 DEF Skipped
  <2>2. /\ Nested(raw, Moved(q))
        /\ OnTheWay(raw, Moved(q)) \subseteq OnTheWay(raw, stack)
        /\ \A p \in OnTheWay(raw, stack) :
              \/ p \in OnTheWay(raw, Moved(q))
              \/ p[1] = Top.dir /\ Offset(p) >= Top.pos /\ Offset(p) < q
    BY <1>1, <2>1, MovedOnTheWay
  <2>3. OnTheWay(raw, Moved(q)) = OnTheWay(raw, stack)
    <3>1. ASSUME NEW p \in OnTheWay(raw, stack), p \notin OnTheWay(raw, Moved(q)) PROVE FALSE
      <4>1. p \in Entry(raw) /\ Offset(p) \in Nat
        BY <1>1, EntryFacts DEF OnTheWay
      <4>2. Offset(p) >= q
        BY <1>5, <2>2, <3>1, <4>1 DEF Skipped
      <4> QED
        BY <2>2, <3>1, <4>1, <4>2
    <3> QED
      BY <2>2, <3>1
  <2>4. Ahead(raw, Moved(q)) = Ahead(raw, stack)
    BY <2>3 DEF Ahead
  <2>5. Listing(raw, stack, allFiles, largestFileSize) =>
          Listing(raw, Moved(q), allFiles, largestFileSize)
    BY <1>1, <1>3, <2>1, <2>3, <2>4, ListingStays
  <2> QED
    BY <2>1, <2>2, <2>5
<1>6. ASSUME NEW p \in Places(raw, "file"), ListedFile(p) PROVE Nested(raw, stack') /\ Kept
  <2>1. p \in Entry(raw) /\ Here(p)
    BY <1>6 DEF Entry, ListedFile
  <2>2. stack[Len(stack)].dir = p[1]
    BY <2>1 DEF Here, Top
  <2>3. Listing(raw, stack, allFiles, largestFileSize) =>
          Listing(raw, t, Append(allFiles, Path(raw, p)), Largest({largestFileSize, At(raw, p).size}))
    <3> HIDE DEF t
    <3> QED
      BY <1>1, <1>2, <1>4, <2>1, <2>2, ListingGrows
  <2>4. stack' = t /\ allFiles' = Append(allFiles, Path(raw, p))
        /\ largestFileSize' = Largest({largestFileSize, At(raw, p).size})
    BY <1>6 DEF ListedFile
  <2> QED
    BY <1>4, <2>1, <2>3, <2>4
<1>7. ASSUME NEW p \in Places(raw, "dir"), PassedBy(p) PROVE Nested(raw, stack') /\ Kept
  <2>1. p \in Entry(raw) /\ Here(p) /\ stack' = t /\ UNCHANGED <<allFiles, largestFileSize>>
        /\ Len(allFiles) > MaxFiles /\ p \notin Places(raw, "file")
    BY <1>1, <1>7, KindFacts DEF Entry, PassedBy
  <2>2. ASSUME Listing(raw, stack, allFiles, largestFileSize) PROVE ~Few(raw)
    <3>1. Len(allFiles) <= Cardinality(Places(raw, "file") \ Ahead(raw, stack)) /\ Len(allFiles) \in Nat
      BY <1>1, <2>2 DEF Listing
    <3>2. /\ Cardinality(Places(raw, "file") \ Ahead(raw, stack)) \in Nat
          /\ Cardinality(Places(raw, "file") \ Ahead(raw, stack)) <= Cardinality(Places(raw, "file"))
          /\ Cardinality(Places(raw, "file")) \in Nat
      BY <1>1, BehindFacts
    <3> QED
      BY <2>1, <3>1, <3>2, BoundFacts DEF Few
  <2>3. Listing(raw, stack, allFiles, largestFileSize) => Listing(raw, t, allFiles, largestFileSize)
    <3>1. Ahead(raw, t) \subseteq Ahead(raw, stack)
      BY <1>4, <2>1, AheadShrinks
    <3> HIDE DEF t
    <3> QED
      BY <1>1, <1>4, <2>1, <2>2, <3>1, ListingStays
  <2> QED
    BY <1>4, <2>1, <2>3
<1>8. ASSUME NEW p \in Places(raw, "dir"), Entered(p) PROVE Nested(raw, stack') /\ Kept
  <2> DEFINE e == [dir |-> Path(raw, p), pos |-> 0]
             s == Append(t, e)
  <2>1. p \in Entry(raw) /\ Here(p) /\ stack' = s /\ UNCHANGED <<allFiles, largestFileSize>>
        /\ p \notin Places(raw, "file")
    BY <1>1, <1>8, KindFacts DEF Entry, Entered
  <2>2. /\ Nested(raw, s)
        /\ OnTheWay(raw, s) = OnTheWay(raw, t) \cup {q \in Entry(raw) : q[1] = Path(raw, p)}
    BY <1>1, <2>1, EnteredOnTheWay
  <2>3. ASSUME NEW l \in DOMAIN s
        PROVE  \/ \E m \in DOMAIN stack : stack[m].dir = s[l].dir
               \/ s[l].dir = Path(raw, p)
    <3> DEFINE T == [dir : DOMAIN raw.dirs, pos : Nat]
    <3>1. t \in Seq(T) /\ DOMAIN t = DOMAIN stack /\ \A m \in DOMAIN stack : t[m].dir = stack[m].dir
      <4>1. Top.pos + 1 <= End
        BY <1>1, <2>1, ReadOnTheWay
      <4>2. StackType(raw, t)
        BY <1>1, <1>2, <4>1, MovedOnTheWay
      <4> QED
        BY <1>4, <2>1, <4>2 DEF StackType
    <3>2. e.dir = Path(raw, p)
      OBVIOUS
    <3> HIDE DEF T, t, e
    <3> QED
      BY <3>1, <3>2
  <2> HIDE DEF s, t
  <2>4. Ahead(raw, s) \subseteq Ahead(raw, stack)
    <3>1. OnTheWay(raw, s) \subseteq
            OnTheWay(raw, stack) \cup {q \in Entry(raw) : q[1] = Path(raw, p)}
      BY <1>4, <2>1, <2>2
    <3> QED
      BY <1>4, <2>1, <3>1, AheadEnters
  <2>5. Ahead(raw, stack) \subseteq Ahead(raw, s) \cup {p}
    <3>1. OnTheWay(raw, stack) \subseteq OnTheWay(raw, s) \cup {p}
      BY <1>4, <2>1, <2>2
    <3>2. {q \in Entry(raw) : q[1] = Path(raw, p)} \subseteq OnTheWay(raw, s)
      BY <2>2
    <3> QED
      BY <1>1, <2>1, <3>1, <3>2, AheadWithout
  <2>6. \A l \in DOMAIN s :
          \/ \E m \in DOMAIN stack : stack[m].dir = s[l].dir
          \/ \A q \in Places(raw, "file") : q[1] = s[l].dir => q \in OnTheWay(raw, s)
    BY <2>2, <2>3 DEF Entry
  <2>7. OnTheWay(raw, stack) \cap Places(raw, "file") \subseteq OnTheWay(raw, s)
    BY <1>4, <2>1, <2>2
  <2>8. Ahead(raw, stack) \cap Places(raw, "file") \subseteq Ahead(raw, s)
    BY <2>1, <2>5
  <2>9. Listing(raw, stack, allFiles, largestFileSize) => Listing(raw, s, allFiles, largestFileSize)
    BY <1>1, <2>4, <2>6, <2>7, <2>8, ListingStays
  <2> QED
    BY <2>1, <2>2, <2>9
<1>9. CASE LeftDirectory
  <2> DEFINE s == SubSeq(stack, 1, Len(stack) - 1)
  <2>1. Top.pos >= End /\ stack' = s /\ UNCHANGED <<allFiles, largestFileSize>>
    BY <1>9 DEF LeftDirectory
  <2>2. Nested(raw, s) /\ OnTheWay(raw, s) = OnTheWay(raw, stack)
    BY <1>1, <2>1, LeftOnTheWay
  <2>3. Ahead(raw, s) = Ahead(raw, stack)
    BY <2>2 DEF Ahead
  <2>4. \A l \in DOMAIN s : l \in DOMAIN stack /\ s[l] = stack[l]
    <3> DEFINE T == [dir : DOMAIN raw.dirs, pos : Nat]
    <3>1. stack \in Seq(T) /\ Len(stack) \in Nat /\ Len(stack) \in 1..Len(stack)
      BY <1>1, StackFacts DEF StackType
    <3> HIDE DEF T
    <3> QED
      BY <3>1
  <2> HIDE DEF s
  <2>5. Listing(raw, stack, allFiles, largestFileSize) => Listing(raw, s, allFiles, largestFileSize)
    BY <1>1, <2>2, <2>3, <2>4, ListingStays
  <2> QED
    BY <2>1, <2>2, <2>5
<1> QED
  BY <1>1, <1>5, <1>6, <1>7, <1>8, <1>9, ScanStep
=============================================================================
