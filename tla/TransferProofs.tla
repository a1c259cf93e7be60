--------------------------- MODULE TransferProofs ---------------------------
(***************************************************************************)
(* Theorems about store directories and the command line tool, for any     *)
(* directories, heights, blocks, file caps and bounds, with a crash at any *)
(* step of an open.  The callers keep the discipline of MayOpen.           *)
(***************************************************************************)
EXTENDS Transfer, OrderLemmas, FiniteSetTheorems, SequenceTheorems, TLAPS

-----------------------------------------------------------------------------
(* The keys of two or three tables, or of none. *)
Streams == {<<>>} \union [1 .. 2 -> Seq(Heights)] \union [1 .. 3 -> Seq(Heights)]

(* The blocks that are ever written: those of users, and those of import. *)
Values == Blocks \union {{h} : h \in Heights}

Places == {"idle", "lock", "remove", "header", "open"}
Locking == {"remove", "header", "open"}

Record == [height : Heights, block : Values]
Header == [min : Nat, cap : Nat, next : Nat]
IndexFile == [file : {"absent", "empty", "full"}, header : Header, slots : [Heights -> Nat]]

LTypeOK ==
  /\ index \in [Dirs -> IndexFile]
  /\ files \in [Dirs -> [FileIndices -> Seq(Record)]]
  /\ at \in [Sessions -> Places]
  /\ dir \in [Sessions -> Dirs \union {NoDir}]
  /\ opt \in [Sessions -> [truncate : BOOLEAN, min : Nat, cap : Nat]]
  /\ mem \in [Sessions -> [min : Nat, cap : Nat, highwater : Nat]]
  /\ lock \in [Dirs -> Sessions \union {NoSession}]
  /\ acked \in [Dirs -> [Heights -> Values \union {NoBlock}]]

(***************************************************************************)
(* The lock is with the session that is past it; who truncates is alone,   *)
(* and an index without a header is in the hands of who truncates.         *)
(***************************************************************************)
SessionOk(s) ==
  /\ at[s] = "idle" => dir[s] = NoDir /\ ~opt[s].truncate
  /\ at[s] # "idle" => dir[s] \in Dirs /\ (opt[s].truncate <=> index[dir[s]].file # "full")
  /\ at[s] \in Locking => lock[dir[s]] = s
  /\ at[s] = "remove" => opt[s].truncate
  /\ at[s] = "header" => ~opt[s].truncate
  /\ at[s] = "open" => ~opt[s].truncate
  /\ opt[s].truncate => \A r \in Sessions \ {s} : dir[r] # dir[s]

LockOk(d) ==
  lock[d] # NoSession => dir[lock[d]] = d /\ at[lock[d]] \in Locking

(***************************************************************************)
(* F are the data files of a directory, S the slots of its index and A     *)
(* what was acknowledged of it, for a store with cap c and min_height m.   *)
(***************************************************************************)
InData(F, c, p) == FileOf(c, p) \in FileIndices /\ Local(c, p) < Len(F[FileOf(c, p)])

RecordAt(F, c, p) == F[FileOf(c, p)][Local(c, p) + 1]

(* The files hold n blocks, one after the other. *)
Tiled(F, c, n) ==
  /\ \A p \in Nat : InData(F, c, p) <=> p < n
  /\ c = 0 => \A f \in FileIndices \ {0} : F[f] = <<>>
  /\ c # 0 => \A f \in FileIndices : Len(F[f]) <= c

(* The slot of a height points to its last block, or nowhere if there is none. *)
SlotOk(F, c, m, n, i, e) ==
  /\ e <= n
  /\ e # 0 => RecordAt(F, c, e - 1).height - m = i
  /\ \A p \in 0 .. n - 1 : RecordAt(F, c, p).height - m = i => p + 1 <= e

Slotted(F, S, c, m, n) ==
  /\ \A p \in 0 .. n - 1 : RecordAt(F, c, p).height >= m
  /\ \A i \in Heights : SlotOk(F, c, m, n, i, S[i])

(* What was acknowledged is what the slots point to. *)
Pointed(F, S, c, m, h) ==
  IF h < m THEN NoBlock
  ELSE IF S[h - m] = 0 THEN NoBlock
  ELSE RecordAt(F, c, S[h - m] - 1).block

Sound(F, S, A, c, m, n) ==
  /\ Tiled(F, c, n) /\ Slotted(F, S, c, m, n)
  /\ \A h \in Heights : A[h] = Pointed(F, S, c, m, h)

(* A directory with a header can be recovered from; one without is blank. *)
DirOk(d) ==
  /\ index[d].file = "full" =>
       \E n \in Nat :
         /\ Sound(files[d], index[d].slots, acked[d], index[d].header.cap, index[d].header.min, n)
         /\ index[d].header.next <= n
         /\ \A s \in Sessions : at[s] = "open" /\ dir[s] = d =>
              mem[s] = [min |-> index[d].header.min, cap |-> index[d].header.cap, highwater |-> n]
  /\ index[d].file # "full" =>
       index[d].slots = EmptySlots /\ acked[d] = [h \in Heights |-> NoBlock]

LInv ==
  /\ LTypeOK
  /\ \A s \in Sessions : SessionOk(s)
  /\ \A d \in Dirs : LockOk(d) /\ DirOk(d)

(***************************************************************************)
(* What the tool has written to its target so far.                         *)
(***************************************************************************)
CommandOk ==
  cmd \in [kind : {"none", "get", "copy", "import"}, to : Dirs \union {NoDir},
           start : Nat \union {NoStart}, streams : Streams, next : Nat]

CopyInv ==
  cmd.kind = "copy" /\ cmd.to = NoDir /\ at[Target] # "idle" =>
    /\ at[Source] = "open"
    /\ \A h \in Heights : h >= cmd.next => acked[dir[Target]][h] = NoBlock
    /\ at[Target] # "open" => opt[Target].truncate /\ opt[Target].min = cmd.next
    /\ at[Target] = "open" =>
         \A h \in Heights : mem[Target].min <= h /\ h < cmd.next =>
           /\ acked[dir[Target]][h] = acked[dir[Source]][h]
           /\ acked[dir[Target]][h] # NoBlock

ImportInv ==
  cmd.kind = "import" /\ at[Target] # "idle" =>
    /\ cmd.next # 0 /\ cmd.streams # <<>>
    /\ at[Target] # "open" => opt[Target].truncate
    /\ \A h \in Heights :
         acked[dir[Target]][h] = IF \E i \in 1 .. cmd.next - 1 : cmd.streams[1][i] = h
                                 THEN {h} ELSE NoBlock

TInv == LInv /\ CommandOk /\ CopyInv /\ ImportInv

-----------------------------------------------------------------------------
(* Positions and files. *)

(* A position is a place in a file. *)
LEMMA Place ==
  ASSUME NEW c \in Nat, NEW p \in Nat
  PROVE  /\ FileOf(c, p) \in Nat /\ Local(c, p) \in Nat /\ FileOf(c, p) * c \in Nat
         /\ FileOf(c, p) * c + Local(c, p) = p
         /\ c # 0 => Local(c, p) < c
         /\ c = 0 => FileOf(c, p) = 0
<1>1. CASE c = 0
  BY <1>1 DEF FileOf, Local
<1>2. CASE c # 0
  <2> DEFINE q == p \div c
             r == p % c
  <2>1. q \in Nat /\ r \in Nat /\ r < c /\ p = c * q + r /\ c * q = q * c
    BY <1>2
  <2>2. FileOf(c, p) = q /\ Local(c, p) = r
    BY <1>2 DEF FileOf, Local
  <2> HIDE DEF q, r
  <2> QED
    BY <1>2, <2>1, <2>2
<1> QED
  BY <1>1, <1>2

(* Whatever is in a file is at one position. *)
LEMMA PlaceOf ==
  ASSUME NEW c \in Nat, c # 0, NEW f \in Nat, NEW l \in Nat, l < c
  PROVE  /\ f * c + l \in Nat
         /\ FileOf(c, f * c + l) = f /\ Local(c, f * c + l) = l
<1> DEFINE p == f * c + l
           g == FileOf(c, p)
           k == Local(c, p)
<1>1. f * c \in Nat /\ p \in Nat
  OBVIOUS
<1>2. g \in Nat /\ k \in Nat /\ k < c /\ g * c + k = f * c + l
  BY <1>1, Place
<1> HIDE DEF g, k
<1>3. g = f
  <2>1. CASE g < f
    <3>1. PICK e \in Nat : f = g + 1 + e
      <4>1. f - g - 1 \in Nat /\ f = g + 1 + (f - g - 1)
        BY <1>2, <2>1
      <4> QED
        BY <4>1
    <3>2. f * c = g * c + c + e * c /\ e * c >= 0 /\ g * c \in Nat /\ e * c \in Nat
      BY <1>2, <3>1
    <3> QED
      BY <1>2, <3>2
  <2>2. CASE g > f
    <3>1. PICK e \in Nat : g = f + 1 + e
      <4>1. g - f - 1 \in Nat /\ g = f + 1 + (g - f - 1)
        BY <1>2, <2>2
      <4> QED
        BY <4>1
    <3>2. g * c = f * c + c + e * c /\ e * c >= 0 /\ f * c \in Nat /\ e * c \in Nat
      BY <1>2, <3>1
    <3> QED
      BY <1>2, <3>2
  <2> QED
    BY <1>2, <2>1, <2>2
<1>4. k = l
  BY <1>1, <1>2, <1>3
<1> QED
  BY <1>1, <1>3, <1>4 DEF g, k

(* The same with the start of the file given. *)
LEMMA PlaceFrom ==
  ASSUME NEW c \in Nat, c # 0, NEW f \in Nat, NEW l \in Nat, l < c, NEW P, P = f * c
  PROVE  /\ P \in Nat /\ P + l \in Nat
         /\ FileOf(c, P + l) = f /\ Local(c, P + l) = l
<1>1. /\ f * c + l \in Nat
      /\ FileOf(c, f * c + l) = f /\ Local(c, f * c + l) = l
  BY PlaceOf
<1> QED
  BY <1>1

(* The position before one that does not begin a file. *)
LEMMA PlaceBefore ==
  ASSUME NEW c \in Nat, NEW p \in Nat, Local(c, p) # 0
  PROVE  /\ p # 0 /\ FileOf(c, p - 1) = FileOf(c, p)
         /\ Local(c, p - 1) = Local(c, p) - 1
<1>1. CASE c = 0
  BY <1>1 DEF FileOf, Local
<1>2. CASE c # 0
  <2>1. PICK f \in Nat, l \in Nat :
          /\ f = FileOf(c, p) /\ l = Local(c, p)
          /\ l < c /\ f * c + l = p /\ l # 0
    BY <1>2, Place
  <2>2. PICK P \in Nat : P = f * c
    OBVIOUS
  <2>3. PICK k \in Nat : k = l - 1 /\ k < c /\ P + k = p - 1 /\ p # 0
    BY <2>1, <2>2
  <2>4. FileOf(c, P + k) = f /\ Local(c, P + k) = k
    BY <1>2, <2>1, <2>2, <2>3, PlaceFrom
  <2> QED
    BY <2>1, <2>3, <2>4
<1> QED
  BY <1>1, <1>2

-----------------------------------------------------------------------------
(* What recover makes of a sound directory. *)

(* The names of the data files. *)
LEMMA FileIndexFacts == \A f : f \in FileIndices <=> f \in Nat /\ f <= MaxFile
BY LifecycleAssumption DEF FileIndices

(* The data files have no gap, and end where the blocks do. *)
LEMMA LayoutOfTiled ==
  ASSUME LTypeOK, NEW d \in Dirs, NEW c \in Nat, NEW n \in Nat, Tiled(files[d], c, n)
  PROVE  /\ \A f \in Holding(d) : 0 .. f \subseteq Holding(d)
         /\ c = 0 => Holding(d) \subseteq {0}
         /\ LayoutEnd(d, c) = n
<1>1. \A f \in FileIndices : files[d][f] \in Seq(Record) /\ Len(files[d][f]) \in Nat
                             /\ (files[d][f] # <<>> <=> Len(files[d][f]) > 0)
  <2> SUFFICES ASSUME NEW f \in FileIndices
               PROVE  files[d][f] \in Seq(Record) /\ Len(files[d][f]) \in Nat
                             /\ (files[d][f] # <<>> <=> Len(files[d][f]) > 0)
    OBVIOUS
  <2>1. files[d][f] \in Seq(Record)
    BY DEF LTypeOK
  <2> QED
    BY <2>1, EmptySeq
<1>2. \A p \in Nat : p < n <=> /\ FileOf(c, p) \in FileIndices
                               /\ Local(c, p) < Len(files[d][FileOf(c, p)])
  BY DEF Tiled, InData
<1>3. c = 0 => Holding(d) \subseteq {0}
  BY DEF Tiled, Holding
<1>4. \A f \in FileIndices : c # 0 => (f \in Holding(d) <=> f * c < n)
  <2> SUFFICES ASSUME NEW f \in FileIndices, c # 0 PROVE f \in Holding(d) <=> f * c < n
    OBVIOUS
  <2>1. f \in Nat
    BY FileIndexFacts
  <2>2. f * c + 0 \in Nat /\ FileOf(c, f * c + 0) = f /\ Local(c, f * c + 0) = 0
    BY <2>1, PlaceOf
  <2>3. f * c \in Nat /\ f * c + 0 = f * c
    BY <2>1
  <2>4. f * c < n <=> 0 < Len(files[d][f])
    BY <1>2, <2>2, <2>3
  <2> QED
    BY <1>1, <2>4 DEF Holding
<1>5. \A f \in Holding(d) : 0 .. f \subseteq Holding(d)
  <2> SUFFICES ASSUME NEW f \in Holding(d), NEW g \in 0 .. f PROVE g \in Holding(d)
    OBVIOUS
  <2>1. f \in FileIndices /\ f \in Nat /\ g \in Nat /\ g <= f
    BY FileIndexFacts DEF Holding
  <2>2. g \in FileIndices
    <3>1. MaxFile \in Nat /\ f <= MaxFile
      BY <2>1, FileIndexFacts, LifecycleAssumption
    <3>2. g <= MaxFile
      BY <2>1, <3>1
    <3> QED
      BY <2>1, <3>2, FileIndexFacts
  <2>3. CASE c = 0
    BY <1>3, <2>1, <2>3
  <2>4. CASE c # 0
    <3>1. f * c < n
      BY <1>4, <2>1, <2>4
    <3>2. g * c <= f * c /\ g * c \in Nat /\ f * c \in Nat
      <4>1. PICK e \in Nat : f = g + e
        <5>1. f - g \in Nat /\ f = g + (f - g)
          BY <2>1
        <5> QED
          BY <5>1
      <4>2. f * c = g * c + e * c /\ e * c \in Nat /\ g * c \in Nat
        BY <2>1, <4>1
      <4> QED
        BY <4>2
    <3> QED
      BY <1>4, <2>2, <2>4, <3>1, <3>2
  <2> QED
    BY <2>3, <2>4
<1>6. CASE Holding(d) = {}
  <2>1. ~(0 < n)
    <3>1. 0 < n => FileOf(c, 0) \in Holding(d)
      <4>1. Local(c, 0) \in Nat
        BY Place
      <4> QED
        BY <1>1, <1>2, <4>1 DEF Holding
    <3> QED
      BY <1>6, <3>1
  <2> QED
    BY <1>3, <1>5, <1>6, <2>1 DEF LayoutEnd
<1>7. CASE Holding(d) # {}
  <2>1. Holding(d) \subseteq Int /\ \A f \in Holding(d) : f <= MaxFile
    BY FileIndexFacts DEF Holding
  <2>2. MaxFile \in Int
    BY LifecycleAssumption
  <2>3. Max(Holding(d)) \in Holding(d) /\ \A f \in Holding(d) : f <= Max(Holding(d))
    BY <1>7, <2>1, <2>2, MaxOfBounded
  <2>4. PICK m \in Holding(d) : m = Max(Holding(d)) /\ \A f \in Holding(d) : f <= m
    BY <2>3
  <2>5. PICK k \in Nat : k = Len(files[d][m]) /\ k > 0
    BY <1>1 DEF Holding
  <2>6. LayoutEnd(d, c) = m * c + k
    BY <1>7, <2>4, <2>5 DEF LayoutEnd
  <2>7. m \in FileIndices /\ m \in Nat /\ m * c \in Nat
    BY FileIndexFacts DEF Holding
  <2>8. CASE c = 0
    <3>1. m = 0 /\ m * c = 0
      BY <1>3, <2>8
    <3>2. FileOf(c, k) = 0 /\ Local(c, k) = k /\ FileOf(c, k - 1) = 0 /\ Local(c, k - 1) = k - 1
      BY <2>8 DEF FileOf, Local
    <3>3. ~(k < n)
      BY <1>2, <2>5, <3>1, <3>2
    <3>4. k - 1 < n
      BY <1>2, <2>5, <2>7, <3>1, <3>2
    <3>5. k = n
      BY <2>5, <3>3, <3>4
    <3> QED
      BY <1>3, <1>5, <2>6, <3>1, <3>5
  <2>9. CASE c # 0
    <3>1. k <= c
      BY <2>5, <2>7, <2>9 DEF Tiled
    <3>2. PICK P \in Nat : P = m * c
      BY <2>7
    <3>3. PICK j \in Nat : j = k - 1 /\ j < c
      BY <2>5, <3>1
    <3>4. P + j < n
      <4>1. P + j \in Nat /\ FileOf(c, P + j) = m /\ Local(c, P + j) = j
        BY <2>7, <2>9, <3>2, <3>3, PlaceFrom
      <4>2. j < Len(files[d][m])
        BY <2>5, <3>3
      <4> QED
        BY <1>2, <2>7, <4>1, <4>2
    <3>5. ~(P + k < n)
      <4>1. CASE k < c
        <5>1. P + k \in Nat /\ FileOf(c, P + k) = m /\ Local(c, P + k) = k
          BY <2>7, <2>9, <3>2, <4>1, PlaceFrom
        <5> QED
          BY <1>2, <2>5, <5>1
      <4>2. CASE k = c
        <5>1. PICK g \in Nat : g = m + 1
          BY <2>7
        <5>2. PICK Q \in Nat : Q = g * c
          BY <5>1
        <5>3. P + k = Q
          BY <2>7, <3>2, <4>2, <5>1, <5>2
        <5>4. g \notin Holding(d)
          BY <2>4, <2>7, <5>1
        <5>5. CASE g \in FileIndices
          BY <1>4, <2>9, <5>2, <5>3, <5>4, <5>5
        <5>6. CASE g \notin FileIndices
          <6>1. FileOf(c, Q + 0) = g
            BY <2>9, <5>2, PlaceFrom
          <6>2. Q + 0 = Q
            OBVIOUS
          <6> QED
            BY <1>2, <5>3, <5>6, <6>1, <6>2
        <5> QED
          BY <5>5, <5>6
      <4> QED
        BY <2>5, <3>1, <4>1, <4>2
    <3>6. P + k = n
      BY <2>5, <3>3, <3>4, <3>5
    <3> QED
      BY <1>3, <1>5, <2>6, <3>2, <3>6
  <2> QED
    BY <2>8, <2>9
<1> QED
  BY <1>6, <1>7

(* The blocks of a directory are records. *)
LEMMA BlockTyped ==
  ASSUME NEW F \in [FileIndices -> Seq(Record)], NEW c \in Nat, NEW p \in Nat, InData(F, c, p)
  PROVE  /\ RecordAt(F, c, p) \in Record /\ RecordAt(F, c, p).height \in Heights
         /\ RecordAt(F, c, p).height \in Nat /\ RecordAt(F, c, p).block \in Values
<1>1. PICK q : q = F[FileOf(c, p)] /\ q \in Seq(Record)
  BY DEF InData
<1>2. PICK l \in Nat : l = Local(c, p) /\ l < Len(q)
  BY <1>1, Place DEF InData
<1>3. Len(q) \in Nat
  BY <1>1
<1>4. l + 1 \in 1 .. Len(q)
  BY <1>2, <1>3
<1>5. q[l + 1] \in Record
  BY <1>1, <1>4, ElementOfSeq
<1>6. RecordAt(F, c, p) \in Record
  BY <1>1, <1>2, <1>5 DEF RecordAt
<1> QED
  BY <1>6, LifecycleAssumption DEF Record, Heights

(***************************************************************************)
(* recover accepts a sound directory, and finds in the data files nothing  *)
(* that the index does not say already.                                    *)
(***************************************************************************)
LEMMA RecoverSound ==
  ASSUME LTypeOK, NEW d \in Dirs, NEW h \in Header, NEW n \in Nat,
         Tiled(files[d], h.cap, n), Slotted(files[d], index[d].slots, h.cap, h.min, n),
         h.next <= n
  PROVE  /\ LayoutValid(d, h) /\ ScanEnd(d, h) = n
         /\ Recovered(d, h) = index[d].slots
<1>0. PICK F \in [FileIndices -> Seq(Record)] :
        /\ F = files[d]
        /\ \A c, p : (IsBlock(d, c, p) <=> InData(F, c, p)) /\ BlockAt(d, c, p) = RecordAt(F, c, p)
  BY DEF LTypeOK, IsBlock, InData, BlockAt, RecordAt
<1>1. PICK c \in Nat, m \in Nat, x \in Nat : c = h.cap /\ m = h.min /\ x = h.next /\ x <= n
  BY DEF Header
<1>2. /\ \A f \in Holding(d) : 0 .. f \subseteq Holding(d)
      /\ c = 0 => Holding(d) \subseteq {0}
      /\ LayoutEnd(d, c) = n
  BY <1>1, LayoutOfTiled
<1>3. LayoutValid(d, h)
  BY <1>1, <1>2 DEF LayoutValid
<1>4. \A p \in Nat : InData(F, c, p) <=> p < n
  BY <1>0, <1>1 DEF Tiled
<1>5. \A p \in 0 .. n - 1 : RecordAt(F, c, p).height \in Nat /\ RecordAt(F, c, p).height >= m
  <2> SUFFICES ASSUME NEW p \in 0 .. n - 1
               PROVE  RecordAt(F, c, p).height \in Nat /\ RecordAt(F, c, p).height >= m
    OBVIOUS
  <2>1. p \in Nat /\ p < n
    OBVIOUS
  <2> QED
    BY <1>1, <1>4, <2>1, BlockTyped, <1>0 DEF Slotted
<1>6. Bad(d, h) = {n}
  <2>1. Bad(d, h) = {p \in x .. n : InData(F, c, p) => RecordAt(F, c, p).height < m}
    BY <1>0, <1>1, <1>2 DEF Bad
  <2>2. ASSUME NEW p \in x .. n, p # n
        PROVE  ~(InData(F, c, p) => RecordAt(F, c, p).height < m)
    <3>1. p \in Nat /\ p < n /\ p \in 0 .. n - 1
      BY <2>2
    <3>2. RecordAt(F, c, p).height \in Nat /\ RecordAt(F, c, p).height >= m
      BY <1>5, <3>1
    <3> QED
      BY <1>4, <3>1, <3>2
  <2>3. n \in x .. n /\ ~InData(F, c, n)
    BY <1>1, <1>4
  <2> QED
    BY <2>1, <2>2, <2>3
<1>7. ScanEnd(d, h) = n
  <2>1. Bad(d, h) \union {LayoutEnd(d, h.cap)} = {n}
    BY <1>1, <1>2, <1>6
  <2>2. PICK B : B = Bad(d, h) \union {LayoutEnd(d, h.cap)}
    OBVIOUS
  <2>3. B \subseteq Int /\ n \in B /\ \A y \in B : n <= y
    BY <2>1, <2>2
  <2>4. Min(B) = n
    BY <2>3, MinIs
  <2> QED
    BY <2>2, <2>4 DEF ScanEnd
<1>8. ASSUME NEW i \in Heights PROVE Recovered(d, h)[i] = index[d].slots[i]
  <2> DEFINE found == {p \in x .. n - 1 : RecordAt(F, c, p).height - m = i}
  <2>1. Recovered(d, h)[i] = IF found = {} THEN index[d].slots[i] ELSE Max(found) + 1
    <3>1. Recovered(d, h)[i] =
            LET g == {p \in h.next .. ScanEnd(d, h) - 1 :
                        BlockAt(d, h.cap, p).height - h.min = i}
            IN IF g = {} THEN index[d].slots[i] ELSE Max(g) + 1
      BY DEF Recovered
    <3>2. found = {p \in h.next .. ScanEnd(d, h) - 1 : BlockAt(d, h.cap, p).height - h.min = i}
      BY <1>0, <1>1, <1>7
    <3> QED
      BY <3>1, <3>2
  <2>2. PICK e \in Nat :
          /\ e = index[d].slots[i] /\ e <= n
          /\ e # 0 => RecordAt(F, c, e - 1).height - m = i
          /\ \A p \in 0 .. n - 1 : RecordAt(F, c, p).height - m = i => p + 1 <= e
    <3>1. index[d].slots[i] \in Nat
      BY DEF LTypeOK, IndexFile
    <3> QED
      BY <1>0, <1>1, <3>1 DEF Slotted, SlotOk
  <2>3. CASE found # {}
    <3>1. PICK p \in x .. n - 1 : RecordAt(F, c, p).height - m = i
      BY <2>3
    <3>2. p \in 0 .. n - 1 /\ p \in Nat /\ x <= p
      BY <3>1
    <3>3. p + 1 <= e
      BY <2>2, <3>1, <3>2
    <3>4. PICK k \in Nat : k = e - 1 /\ k \in x .. n - 1
      BY <2>2, <3>2, <3>3
    <3>5. RecordAt(F, c, k).height - m = i
      BY <2>2, <3>2, <3>3, <3>4
    <3>6. k \in found /\ found \subseteq Int
      BY <3>4, <3>5
    <3>7. \A q \in found : q <= k
      <4> SUFFICES ASSUME NEW q \in x .. n - 1, RecordAt(F, c, q).height - m = i PROVE q <= k
        OBVIOUS
      <4>1. q \in 0 .. n - 1
        OBVIOUS
      <4>2. q + 1 <= e
        BY <2>2, <4>1
      <4> QED
        BY <2>2, <3>4, <4>2
    <3> HIDE DEF found
    <3>8. Max(found) \in found /\ \A q \in found : q <= Max(found)
      BY <2>3, <3>6, <3>7, MaxOfBounded
    <3>9. Max(found) = k
      <4>1. PICK z \in found : z = Max(found) /\ \A q \in found : q <= z
        BY <3>8
      <4>2. z <= k /\ k <= z /\ z \in Int
        BY <3>6, <3>7, <4>1
      <4> QED
        BY <4>1, <4>2
    <3> QED
      BY <2>1, <2>2, <2>3, <3>2, <3>3, <3>4, <3>9
  <2> QED
    BY <2>1, <2>3
<1>9. Recovered(d, h) = index[d].slots
  <2>1. Recovered(d, h) = [i \in Heights |-> Recovered(d, h)[i]]
    BY DEF Recovered
  <2>2. index[d].slots \in [Heights -> Nat]
    BY DEF LTypeOK, IndexFile
  <2> QED
    BY <1>8, <2>1, <2>2
<1> QED
  BY <1>3, <1>7, <1>9

-----------------------------------------------------------------------------
(* A directory stays sound. *)

(* A directory without data files is sound for any cap and minimum. *)
LEMMA BlankSound ==
  ASSUME NEW F, \A f \in FileIndices : F[f] = <<>>, NEW S, S = EmptySlots,
         NEW A, A = [h \in Heights |-> NoBlock], NEW c \in Nat, NEW m \in Nat
  PROVE  Sound(F, S, A, c, m, 0)
<1>1. Tiled(F, c, 0)
  <2>1. \A p \in Nat : ~InData(F, c, p)
    <3> SUFFICES ASSUME NEW p \in Nat, InData(F, c, p) PROVE FALSE
      OBVIOUS
    <3>1. Local(c, p) \in Nat /\ Local(c, p) < 0
      BY Place DEF InData
    <3> QED
      BY <3>1
  <2>2. \A f \in FileIndices : Len(F[f]) <= c
    OBVIOUS
  <2> QED
    BY <2>1, <2>2 DEF Tiled
<1>2. Slotted(F, S, c, m, 0)
  BY DEF Slotted, SlotOk, EmptySlots
<1>3. ASSUME NEW h \in Heights PROVE A[h] = Pointed(F, S, c, m, h)
  <2>1. ~(h < m) => h - m \in Heights
    BY LifecycleAssumption DEF Heights
  <2> QED
    BY <2>1 DEF Pointed, EmptySlots
<1> QED
  BY <1>1, <1>2, <1>3 DEF Sound

(* The block after the last one is the next of its file. *)
LEMMA NextPlace ==
  ASSUME NEW F \in [FileIndices -> Seq(Record)], NEW c \in Nat, NEW n \in Nat, Tiled(F, c, n),
         FileOf(c, n) \in FileIndices
  PROVE  Len(F[FileOf(c, n)]) = Local(c, n)
<1>1. PICK k \in Nat : k = Len(F[FileOf(c, n)])
  OBVIOUS
<1>2. PICK l \in Nat : l = Local(c, n)
  BY Place
<1>3. ~(l < k)
  BY <1>1, <1>2 DEF Tiled, InData
<1>4. CASE l = 0
  BY <1>1, <1>2, <1>3, <1>4
<1>5. CASE l # 0
  <2>1. n # 0 /\ FileOf(c, n - 1) = FileOf(c, n) /\ Local(c, n - 1) = l - 1
    BY <1>2, <1>5, PlaceBefore
  <2>2. n - 1 \in Nat /\ n - 1 < n
    BY <2>1
  <2>3. l - 1 < k
    BY <1>1, <2>1, <2>2 DEF Tiled, InData
  <2> QED
    BY <1>1, <1>2, <1>3, <2>3
<1> QED
  BY <1>4, <1>5

(* A write at the end of a file appends to it. *)
LEMMA Appended ==
  ASSUME NEW S, NEW q \in Seq(S), NEW r \in S, NEW l, l = Len(q), NEW t,
         t = SubSeq(q, 1, l) \o <<r>> \o SubSeq(q, l + 2, Len(q))
  PROVE  /\ t \in Seq(S) /\ Len(t) = l + 1 /\ t[l + 1] = r
         /\ \A i \in 1 .. l : t[i] = q[i]
<1>1. l \in Nat
  OBVIOUS
<1>2. SubSeq(q, 1, l) = q
  BY <1>1
<1>3. SubSeq(q, l + 2, Len(q)) = <<>>
  BY <1>1
<1>4. <<r>> \in Seq(S) /\ Len(<<r>>) = 1 /\ <<r>>[1] = r
  OBVIOUS
<1>5. PICK a \in Seq(S) : a = <<r>> /\ Len(a) = 1 /\ a[1] = r
  BY <1>4
<1>6. PICK u \in Seq(S) : u = q \o a
  BY ConcatProperties
<1>7. t = u \o <<>>
  BY <1>2, <1>3, <1>5, <1>6
<1>8. t = u
  BY <1>7, ConcatEmptySeq
<1>9. /\ Len(u) = l + 1
      /\ \A i \in 1 .. l + 1 : u[i] = IF i <= l THEN q[i] ELSE a[i - l]
  BY <1>5, <1>6, ConcatProperties
<1>10. u[l + 1] = r
  <2>1. l + 1 \in 1 .. l + 1 /\ ~(l + 1 <= l) /\ (l + 1) - l = 1
    BY <1>1
  <2> QED
    BY <1>5, <1>9, <2>1
<1>11. \A i \in 1 .. l : u[i] = q[i]
  BY <1>1, <1>9
<1> QED
  BY <1>8, <1>9, <1>10, <1>11

(***************************************************************************)
(* One more record t at the end of the data: the block is the last one,    *)
(* its slot points to it, and its height is known to hold it.              *)
(***************************************************************************)
LEMMA AppendSound ==
  ASSUME NEW F \in [FileIndices -> Seq(Record)], NEW S \in [Heights -> Nat],
         NEW A \in [Heights -> Values \union {NoBlock}],
         NEW c \in Nat, NEW m \in Nat, NEW n \in Nat,
         Sound(F, S, A, c, m, n), FileOf(c, n) \in FileIndices,
         NEW h \in Heights, h >= m, NEW b, NEW r, r.height = h, r.block = b,
         NEW t \in Seq(Record), Len(t) = Local(c, n) + 1, t[Local(c, n) + 1] = r,
         \A i \in 1 .. Local(c, n) : t[i] = F[FileOf(c, n)][i],
         NEW G, G = [F EXCEPT ![FileOf(c, n)] = t]
  PROVE  /\ G \in [FileIndices -> Seq(Record)]
         /\ Sound(G, [S EXCEPT ![h - m] = n + 1], [A EXCEPT ![h] = b], c, m, n + 1)
<1>1. PICK f \in FileIndices, l \in Nat : f = FileOf(c, n) /\ l = Local(c, n)
  BY Place
<1>2. Tiled(F, c, n) /\ Slotted(F, S, c, m, n) /\ \A g \in Heights : A[g] = Pointed(F, S, c, m, g)
  BY DEF Sound
<1>4. PICK q \in Seq(Record) : q = F[f] /\ Len(q) = l
  BY <1>1, <1>2, NextPlace
<1>5. r.height = h /\ r.block = b /\ h \in Nat
  BY LifecycleAssumption DEF Heights
<1>7. /\ Len(t) = l + 1 /\ t[l + 1] = r
      /\ \A i \in 1 .. l : t[i] = q[i]
  BY <1>1, <1>4
<1>8. G = [F EXCEPT ![f] = t]
  BY <1>1
<1>9. G[f] = t /\ \A g \in FileIndices \ {f} : G[g] = F[g]
  BY <1>8
<1>10. G \in [FileIndices -> Seq(Record)]
  BY <1>7, <1>8
<1>11. \A p \in Nat : InData(F, c, p) <=> p < n
  BY <1>2 DEF Tiled
<1>12. ASSUME NEW p \in Nat PROVE InData(G, c, p) <=> p < n + 1
  <2>1. PICK g \in Nat, k \in Nat : g = FileOf(c, p) /\ k = Local(c, p)
    BY Place
  <2>2. InData(F, c, p) <=> g \in FileIndices /\ k < Len(F[g])
    BY <2>1 DEF InData
  <2>3. InData(G, c, p) <=> g \in FileIndices /\ k < Len(G[g])
    BY <2>1 DEF InData
  <2>4. p = n <=> g = f /\ k = l
    <3>1. CASE g = f /\ k = l
      <4>1. FileOf(c, p) * c + Local(c, p) = p /\ FileOf(c, n) * c + Local(c, n) = n
        BY Place
      <4> QED
        BY <1>1, <2>1, <3>1, <4>1
    <3> QED
      BY <1>1, <2>1, <3>1
  <2>5. CASE g = f
    <3>1. InData(G, c, p) <=> k < l + 1
      BY <1>7, <1>9, <2>3, <2>5
    <3>2. p < n <=> k < l
      BY <1>4, <1>11, <2>2, <2>5
    <3> QED
      BY <2>4, <2>5, <3>1, <3>2
  <2>6. CASE g # f
    <3>1. InData(G, c, p) <=> p < n
      BY <1>9, <1>11, <2>2, <2>3, <2>6
    <3>2. p # n
      BY <2>4, <2>6
    <3>3. p < n + 1 <=> p < n
      BY <3>2
    <3> QED
      BY <3>1, <3>3
  <2> QED
    BY <2>5, <2>6
<1>13. Tiled(G, c, n + 1)
  <2>1. c = 0 => \A g \in FileIndices \ {0} : G[g] = <<>>
    <3>1. c = 0 => f = 0
      BY <1>1, Place
    <3> QED
      BY <1>2, <1>9, <3>1 DEF Tiled
  <2>2. c # 0 => \A g \in FileIndices : Len(G[g]) <= c
    <3>1. c # 0 => l + 1 <= c
      <4>1. c # 0 => l < c
        BY <1>1, Place
      <4> QED
        BY <4>1
    <3> QED
      BY <1>2, <1>7, <1>9, <3>1 DEF Tiled
  <2> QED
    BY <1>12, <2>1, <2>2 DEF Tiled
<1>14. ASSUME NEW p \in Nat, p < n PROVE RecordAt(G, c, p) = RecordAt(F, c, p)
  <2>1. PICK g \in Nat, k \in Nat : g = FileOf(c, p) /\ k = Local(c, p)
    BY Place
  <2>2. g \in FileIndices /\ k < Len(F[g])
    BY <1>11, <1>14, <2>1 DEF InData
  <2>3. RecordAt(F, c, p) = F[g][k + 1] /\ RecordAt(G, c, p) = G[g][k + 1]
    BY <2>1 DEF RecordAt
  <2>4. CASE g = f
    <3>1. k + 1 \in 1 .. l
      BY <1>4, <2>2, <2>4
    <3> QED
      BY <1>4, <1>7, <1>9, <2>3, <2>4, <3>1
  <2>5. CASE g # f
    BY <1>9, <2>2, <2>3, <2>5
  <2> QED
    BY <2>4, <2>5
<1>15. RecordAt(G, c, n) = r
  BY <1>1, <1>7, <1>9 DEF RecordAt
<1>16. PICK T \in [Heights -> Nat] : T = [S EXCEPT ![h - m] = n + 1]
  <2>1. n + 1 \in Nat
    OBVIOUS
  <2> QED
    BY <2>1
<1>17. h - m \in Heights /\ T[h - m] = n + 1 /\ \A i \in Heights : i # h - m => T[i] = S[i]
  <2>1. h - m \in Heights
    BY LifecycleAssumption DEF Heights
  <2> QED
    BY <1>16, <2>1
<1>18. Slotted(G, T, c, m, n + 1)
  <2>0. \A p \in 0 .. (n + 1) - 1 : p \in Nat /\ (p = n \/ (p < n /\ p \in 0 .. n - 1))
    OBVIOUS
  <2>1. ASSUME NEW p \in 0 .. (n + 1) - 1 PROVE RecordAt(G, c, p).height >= m
    BY <1>2, <1>5, <1>14, <1>15, <2>0 DEF Slotted
  <2>2. ASSUME NEW i \in Heights PROVE SlotOk(G, c, m, n + 1, i, T[i])
    <3>1. PICK e \in Nat : e = S[i] /\ SlotOk(F, c, m, n, i, e)
      BY <1>2 DEF Slotted
    <3>2. CASE i = h - m
      <4>1. (n + 1) - 1 = n /\ T[i] = n + 1
        BY <1>17, <3>2
      <4>2. RecordAt(G, c, (n + 1) - 1).height - m = i
        BY <1>5, <1>15, <3>2, <4>1
      <4> QED
        BY <4>1, <4>2 DEF SlotOk
    <3>3. CASE i # h - m
      <4>1. T[i] = e
        BY <1>17, <3>1, <3>3
      <4>2. e # 0 => RecordAt(G, c, e - 1).height - m = i
        <5>1. e # 0 => e - 1 \in Nat /\ e - 1 < n
          BY <3>1 DEF SlotOk
        <5> QED
          BY <1>14, <3>1, <5>1 DEF SlotOk
      <4>3. ASSUME NEW p \in 0 .. (n + 1) - 1, RecordAt(G, c, p).height - m = i PROVE p + 1 <= e
        <5>1. p # n
          BY <1>5, <1>15, <3>3, <4>3
        <5>2. p \in Nat /\ p < n /\ p \in 0 .. n - 1
          BY <2>0, <5>1
        <5> QED
          BY <1>14, <3>1, <4>3, <5>2 DEF SlotOk
      <4>4. e <= n + 1
        BY <3>1 DEF SlotOk
      <4> QED
        BY <4>1, <4>2, <4>3, <4>4 DEF SlotOk
    <3> QED
      BY <3>2, <3>3
  <2> QED
    BY <2>1, <2>2 DEF Slotted
<1>19. ASSUME NEW g \in Heights PROVE [A EXCEPT ![h] = b][g] = Pointed(G, T, c, m, g)
  <2>1. g \in Nat /\ h \in Nat /\ (~(g < m) => g - m \in Heights)
    BY LifecycleAssumption DEF Heights
  <2>2. A[g] = Pointed(F, S, c, m, g)
    BY <1>2
  <2>3. CASE g = h
    <3>1. ~(g < m) /\ T[g - m] = n + 1 /\ (n + 1) - 1 = n /\ n + 1 # 0
      BY <1>17, <2>1, <2>3
    <3>2. Pointed(G, T, c, m, g) = b
      BY <1>5, <1>15, <3>1 DEF Pointed
    <3> QED
      BY <2>3, <3>2
  <2>4. CASE g # h
    <3>1. [A EXCEPT ![h] = b][g] = A[g]
      BY <2>4
    <3>2. CASE g < m
      BY <2>2, <3>1, <3>2 DEF Pointed
    <3>3. CASE ~(g < m)
      <4>1. PICK i \in Heights : i = g - m /\ i # h - m
        BY <2>1, <2>4, <3>3
      <4>2. PICK e \in Nat : e = S[i] /\ e <= n
        BY <1>2 DEF Slotted, SlotOk
      <4>3. T[i] = e
        BY <1>17, <4>1, <4>2
      <4>4. e # 0 => e - 1 \in Nat /\ e - 1 < n
        BY <4>2
      <4>5. e # 0 => RecordAt(G, c, e - 1) = RecordAt(F, c, e - 1)
        BY <1>14, <4>4
      <4> QED
        BY <2>2, <3>1, <3>3, <4>1, <4>2, <4>3, <4>5 DEF Pointed
    <3> QED
      BY <3>2, <3>3
  <2> QED
    BY <2>3, <2>4
<1> QED
  BY <1>10, <1>13, <1>16, <1>18, <1>19 DEF Sound

(* write_block puts the block where AppendSound wants it. *)
LEMMA WriteSound ==
  ASSUME NEW F \in [FileIndices -> Seq(Record)], NEW S \in [Heights -> Nat],
         NEW A \in [Heights -> Values \union {NoBlock}],
         NEW c \in Nat, NEW m \in Nat, NEW n \in Nat,
         Sound(F, S, A, c, m, n), FileOf(c, n) \in FileIndices,
         NEW h \in Heights, h >= m, NEW b \in Values,
         NEW G, G = [F EXCEPT ![FileOf(c, n)] =
                       SubSeq(@, 1, Local(c, n)) \o <<[height |-> h, block |-> b]>>
                         \o SubSeq(@, Local(c, n) + 2, Len(@))]
  PROVE  /\ G \in [FileIndices -> Seq(Record)]
         /\ Sound(G, [S EXCEPT ![h - m] = n + 1], [A EXCEPT ![h] = b], c, m, n + 1)
<1>1. PICK f \in FileIndices, l \in Nat : f = FileOf(c, n) /\ l = Local(c, n)
  BY Place
<1>2. [height |-> h, block |-> b] \in Record
  BY DEF Record
<1>3. PICK r \in Record : r = [height |-> h, block |-> b]
  BY <1>2
<1>4. r.height = h /\ r.block = b
  BY <1>3
<1>5. PICK q \in Seq(Record) : q = F[f] /\ Len(q) = l
  BY <1>1, NextPlace DEF Sound
<1>6. PICK t : t = SubSeq(q, 1, l) \o <<r>> \o SubSeq(q, l + 2, Len(q))
  OBVIOUS
<1>7. G = [F EXCEPT ![f] = t]
  BY <1>1, <1>3, <1>5, <1>6
<1>8. /\ t \in Seq(Record) /\ Len(t) = l + 1 /\ t[l + 1] = r
      /\ \A i \in 1 .. l : t[i] = q[i]
  BY ONLY <1>5, <1>6, r \in Record, Appended
<1>9. /\ t \in Seq(Record) /\ Len(t) = Local(c, n) + 1 /\ t[Local(c, n) + 1] = r
      /\ \A i \in 1 .. Local(c, n) : t[i] = F[FileOf(c, n)][i]
      /\ G = [F EXCEPT ![FileOf(c, n)] = t]
  BY <1>1, <1>5, <1>7, <1>8
<1> QED
  BY ONLY <1>4, <1>9, AppendSound, h \in Heights, h >= m, c \in Nat, m \in Nat, n \in Nat,
     F \in [FileIndices -> Seq(Record)], S \in [Heights -> Nat],
     A \in [Heights -> Values \union {NoBlock}],
     Sound(F, S, A, c, m, n), FileOf(c, n) \in FileIndices

-----------------------------------------------------------------------------
(* Opening. *)

Option == [truncate : BOOLEAN, min : Nat, cap : Nat]

Callers == Polite /\ Recreate

(* A directory that a step leaves alone stays as it is. *)
LEMMA DirSame ==
  ASSUME NEW d \in Dirs, DirOk(d),
         index'[d] = index[d], files'[d] = files[d], acked'[d] = acked[d],
         \A s \in Sessions : at'[s] = "open" /\ dir'[s] = d =>
           at[s] = "open" /\ dir[s] = d /\ mem'[s] = mem[s]
  PROVE  DirOk(d)'
<1>1. CASE index[d].file = "full"
  <2>1. PICK n \in Nat :
          /\ Sound(files[d], index[d].slots, acked[d], index[d].header.cap, index[d].header.min, n)
          /\ index[d].header.next <= n
          /\ \A s \in Sessions : at[s] = "open" /\ dir[s] = d =>
               mem[s] = [min |-> index[d].header.min, cap |-> index[d].header.cap, highwater |-> n]
    BY <1>1 DEF DirOk
  <2> QED
    BY <1>1, <2>1 DEF DirOk
<1>2. CASE index[d].file # "full"
  BY <1>2 DEF DirOk
<1> QED
  BY <1>1, <1>2

(* The first step of Store::open. *)
LEMMA OpenIndexKeeps ==
  ASSUME LInv, Callers, NEW s \in Sessions, NEW d \in Dirs, NEW o \in Option, OpenIndex(s, d, o)
  PROVE  LInv'
<1>1. /\ at[s] = "idle" /\ MayOpen(d, o.truncate) /\ (o.truncate \/ index[d].file # "absent")
      /\ at' = [at EXCEPT ![s] = "lock"] /\ dir' = [dir EXCEPT ![s] = d]
      /\ opt' = [opt EXCEPT ![s] = o] /\ UNCHANGED <<files, mem, lock>>
  BY DEF OpenIndex, Goto
<1>2. LTypeOK /\ (\A r \in Sessions : SessionOk(r)) /\ \A e \in Dirs : LockOk(e) /\ DirOk(e)
  BY DEF LInv
<1>3. /\ at'[s] = "lock" /\ dir'[s] = d /\ opt'[s] = o
      /\ \A r \in Sessions \ {s} : at'[r] = at[r] /\ dir'[r] = dir[r] /\ opt'[r] = opt[r]
  BY <1>1, <1>2 DEF LTypeOK
<1>4. \A r \in Sessions : at[r] = "idle" => dir[r] = NoDir /\ dir[r] # d
  BY <1>2, MarkersAssumption DEF SessionOk
<1>5. /\ at' \in [Sessions -> Places] /\ dir' \in [Sessions -> Dirs \union {NoDir}]
      /\ opt' \in [Sessions -> Option]
  BY <1>1, <1>2 DEF LTypeOK, Places, Option
<1>6. CASE o.truncate
  <2>1. \A r \in Sessions : dir[r] # d
    BY <1>1, <1>4, <1>6 DEF MayOpen, Busy, Callers
  <2>2. lock[d] = NoSession
    <3>1. lock[d] # NoSession => lock[d] \in Sessions
      BY <1>2 DEF LTypeOK
    <3> QED
      BY <1>2, <2>1, <3>1 DEF LockOk
  <2>3. /\ index' = [index EXCEPT ![d] = EmptyIndex]
        /\ acked' = [acked EXCEPT ![d] = [h \in Heights |-> NoBlock]]
    BY <1>6, <2>2 DEF OpenIndex
  <2>4. /\ EmptyIndex \in IndexFile /\ EmptyIndex.file = "empty" /\ EmptyIndex.slots = EmptySlots
    BY DEF EmptyIndex, NoIndex, IndexFile, Header, DefaultHeader, EmptySlots
  <2>5. LTypeOK'
    <3>1. index' \in [Dirs -> IndexFile]
      BY <1>2, <2>3, <2>4 DEF LTypeOK
    <3>2. acked' \in [Dirs -> [Heights -> Values \union {NoBlock}]]
      BY <1>2, <2>3 DEF LTypeOK
    <3> QED
      BY <1>1, <1>2, <1>5, <3>1, <3>2 DEF LTypeOK, Option
  <2>6. /\ index'[d] = EmptyIndex /\ acked'[d] = [h \in Heights |-> NoBlock]
        /\ \A e \in Dirs \ {d} : index'[e] = index[e] /\ acked'[e] = acked[e]
    BY <1>2, <2>3 DEF LTypeOK
  <2>7. ASSUME NEW r \in Sessions PROVE SessionOk(r)'
    <3>1. CASE r = s
      BY <1>3, <1>6, <2>1, <2>4, <2>6, <3>1 DEF SessionOk, Locking
    <3>2. CASE r # s
      <4>1. SessionOk(r) /\ dir[r] # d
        BY <1>2, <2>1
      <4>2. at'[r] = at[r] /\ dir'[r] = dir[r] /\ opt'[r] = opt[r] /\ lock' = lock
        BY <1>1, <1>3, <3>2
      <4>3. dir[r] \in Dirs => index'[dir[r]] = index[dir[r]]
        BY <2>6, <4>1
      <4>4. \A q \in Sessions \ {r} : dir'[q] = dir[q] \/ dir'[q] = d
        BY <1>3
      <4> QED
        BY <4>1, <4>2, <4>3, <4>4 DEF SessionOk
    <3> QED
      BY <3>1, <3>2
  <2>8. ASSUME NEW e \in Dirs PROVE LockOk(e)'
    <3>1. LockOk(e) /\ lock'[e] = lock[e] /\ (lock[e] # NoSession => lock[e] \in Sessions)
      BY <1>1, <1>2 DEF LTypeOK
    <3> QED
      BY <1>1, <1>3, <3>1 DEF LockOk, Locking
  <2>9. ASSUME NEW e \in Dirs PROVE DirOk(e)'
    <3>1. CASE e = d
      BY <2>4, <2>6, <3>1 DEF DirOk
    <3>2. CASE e # d
      BY <1>1, <1>2, <1>3, <2>6, <3>2, DirSame
    <3> QED
      BY <3>1, <3>2
  <2> QED
    BY <2>5, <2>7, <2>8, <2>9 DEF LInv
<1>7. CASE ~o.truncate
  <2>1. \A r \in Sessions : dir[r] = d => ~opt[r].truncate
    BY <1>1, <1>4, <1>7 DEF MayOpen, Busy, Callers
  <2>2. index[d].file = "full"
    <3>1. index[d].file \in {"absent", "empty", "full"}
      BY <1>2 DEF LTypeOK, IndexFile
    <3> QED
      BY <1>1, <1>7, <3>1 DEF MayOpen, Callers
  <2>3. index' = index /\ acked' = acked
    BY <1>7 DEF OpenIndex
  <2>4. LTypeOK'
    BY <1>1, <1>2, <1>5, <2>3 DEF LTypeOK, Option
  <2>5. ASSUME NEW r \in Sessions PROVE SessionOk(r)'
    <3>1. CASE r = s
      BY <1>3, <1>7, <2>2, <2>3, <3>1 DEF SessionOk, Locking
    <3>2. CASE r # s
      <4>1. SessionOk(r) /\ (dir[r] = d => ~opt[r].truncate)
        BY <1>2, <2>1
      <4>2. at'[r] = at[r] /\ dir'[r] = dir[r] /\ opt'[r] = opt[r] /\ lock' = lock
        BY <1>1, <1>3, <3>2
      <4>4. \A q \in Sessions \ {r} : dir'[q] = dir[q] \/ dir'[q] = d
        BY <1>3
      <4> QED
        BY <2>3, <4>1, <4>2, <4>4 DEF SessionOk
    <3> QED
      BY <3>1, <3>2
  <2>6. ASSUME NEW e \in Dirs PROVE LockOk(e)'
    <3>1. LockOk(e) /\ lock'[e] = lock[e] /\ (lock[e] # NoSession => lock[e] \in Sessions)
      BY <1>1, <1>2 DEF LTypeOK
    <3> QED
      BY <1>1, <1>3, <3>1 DEF LockOk, Locking
  <2>7. ASSUME NEW e \in Dirs PROVE DirOk(e)'
    BY <1>1, <1>2, <1>3, <2>3, DirSame
  <2> QED
    BY <2>4, <2>5, <2>6, <2>7 DEF LInv
<1> QED
  BY <1>6, <1>7

(* A session that is past the lock is the only one there. *)
LEMMA OneHolder ==
  ASSUME LInv, NEW s \in Sessions, NEW r \in Sessions, at[s] \in Locking, at[r] \in Locking,
         dir[r] = dir[s]
  PROVE  r = s
BY DEF LInv, SessionOk

(* The lock is taken by one session at a time. *)
LEMMA TryLockKeeps == ASSUME LInv, NEW s \in Sessions, TryLock(s) PROVE LInv'
<1>1. LTypeOK /\ (\A r \in Sessions : SessionOk(r)) /\ \A e \in Dirs : LockOk(e) /\ DirOk(e)
  BY DEF LInv
<1>2. /\ at[s] = "lock" /\ lock[dir[s]] = NoSession
      /\ UNCHANGED <<index, files, dir, opt, mem, acked>>
  BY DEF TryLock
<1>3. PICK d \in Dirs : d = dir[s]
  BY <1>1, <1>2 DEF SessionOk
<1>4. PICK place : place = IF opt[s].truncate THEN "remove" ELSE "header"
  OBVIOUS
<1>5. lock' = [lock EXCEPT ![d] = s] /\ at' = [at EXCEPT ![s] = place]
  BY <1>3, <1>4 DEF TryLock, Goto
<1>6. /\ at'[s] = place /\ lock'[d] = s
      /\ \A r \in Sessions \ {s} : at'[r] = at[r]
      /\ \A e \in Dirs \ {d} : lock'[e] = lock[e]
  BY <1>1, <1>5 DEF LTypeOK
<1>7. LTypeOK'
  <2>1. at' \in [Sessions -> Places] /\ lock' \in [Dirs -> Sessions \union {NoSession}]
    BY <1>1, <1>4, <1>5 DEF LTypeOK, Places
  <2> QED
    BY <1>1, <1>2, <2>1 DEF LTypeOK
<1>8. ASSUME NEW r \in Sessions PROVE SessionOk(r)'
  <2>1. CASE r = s
    BY <1>1, <1>2, <1>3, <1>4, <1>6, <2>1 DEF SessionOk, Locking
  <2>2. CASE r # s
    <3>1. SessionOk(r) /\ at'[r] = at[r]
      BY <1>1, <1>6, <2>2
    <3>2. at[r] \in Locking => dir[r] \in Dirs /\ lock[dir[r]] = r
      BY <3>1 DEF SessionOk, Locking
    <3>3. at[r] \in Locking => dir[r] # d
      BY <1>2, <1>3, <3>2, MarkersAssumption
    <3>4. at[r] \in Locking => lock'[dir[r]] = r
      BY <1>6, <3>2, <3>3
    <3> QED
      BY <1>2, <3>1, <3>4 DEF SessionOk
  <2> QED
    BY <2>1, <2>2
<1>9. ASSUME NEW e \in Dirs PROVE LockOk(e)'
  <2>1. CASE e = d
    BY <1>2, <1>3, <1>4, <1>6, <2>1 DEF LockOk, Locking
  <2>2. CASE e # d
    <3>1. LockOk(e) /\ (lock[e] # NoSession => lock[e] \in Sessions) /\ lock'[e] = lock[e]
      BY <1>1, <1>6, <2>2 DEF LTypeOK
    <3>2. lock[e] # NoSession => lock[e] # s
      BY <1>3, <2>2, <3>1 DEF LockOk
    <3> QED
      BY <1>2, <1>6, <3>1, <3>2 DEF LockOk
  <2> QED
    BY <2>1, <2>2
<1>10. ASSUME NEW e \in Dirs PROVE DirOk(e)'
  <2>1. \A r \in Sessions : at'[r] = "open" => at[r] = "open"
    BY <1>4, <1>6
  <2> QED
    BY <1>1, <1>2, <2>1, DirSame
<1> QED
  BY <1>7, <1>8, <1>9, <1>10 DEF LInv

(***************************************************************************)
(* Sessions end.  A header may be written by one that is open, with the    *)
(* position that the next block would have had.                            *)
(***************************************************************************)
LEMMA GoneKeeps ==
  ASSUME LInv, NEW S, Gone(S), UNCHANGED <<files, acked>>, index' \in [Dirs -> IndexFile],
         \A d \in Dirs :
           /\ index'[d].file = index[d].file /\ index'[d].slots = index[d].slots
           /\ \/ index'[d].header = index[d].header
              \/ \E s \in Sessions : at[s] = "open" /\ dir[s] = d /\
                   index'[d].header = [min |-> mem[s].min, cap |-> mem[s].cap,
                                       next |-> mem[s].highwater]
  PROVE  LInv'
<1>1. LTypeOK /\ (\A r \in Sessions : SessionOk(r)) /\ \A e \in Dirs : LockOk(e) /\ DirOk(e)
  BY DEF LInv
<1>2. \A r \in Sessions :
        /\ r \in S => at'[r] = "idle" /\ dir'[r] = NoDir /\ opt'[r] = NoOptions
        /\ r \notin S => at'[r] = at[r] /\ dir'[r] = dir[r] /\ opt'[r] = opt[r] /\ mem'[r] = mem[r]
  BY DEF Gone
<1>3. \A e \in Dirs : lock'[e] = IF lock[e] \in S THEN NoSession ELSE lock[e]
  BY DEF Gone
<1>4. LTypeOK'
  <2>1. NoOptions \in Option /\ NoStore \in [min : Nat, cap : Nat, highwater : Nat]
    BY DEF NoOptions, NoStore, Option
  <2>2. at' \in [Sessions -> Places] /\ dir' \in [Sessions -> Dirs \union {NoDir}]
    BY <1>1 DEF Gone, LTypeOK, Places
  <2>3. opt' \in [Sessions -> Option] /\ mem' \in [Sessions -> [min : Nat, cap : Nat, highwater : Nat]]
    BY <1>1, <2>1 DEF Gone, LTypeOK, Option
  <2>4. lock' \in [Dirs -> Sessions \union {NoSession}]
    BY <1>1 DEF Gone, LTypeOK
  <2> QED
    BY <1>1, <2>2, <2>3, <2>4 DEF LTypeOK, Option
<1>5. ASSUME NEW r \in Sessions PROVE SessionOk(r)'
  <2>1. CASE r \in S
    BY <1>2, <2>1 DEF SessionOk, NoOptions, Locking
  <2>2. CASE r \notin S
    <3>1. /\ SessionOk(r) /\ at'[r] = at[r] /\ dir'[r] = dir[r] /\ opt'[r] = opt[r]
      BY <1>1, <1>2, <2>2
    <3>2. dir[r] \in Dirs => index'[dir[r]].file = index[dir[r]].file
      OBVIOUS
    <3>3. at[r] \in Locking => lock'[dir[r]] = r
      <4>1. at[r] \in Locking => dir[r] \in Dirs /\ lock[dir[r]] = r
        BY <3>1 DEF SessionOk, Locking
      <4> QED
        BY <1>3, <2>2, <4>1
    <3>4. opt[r].truncate => dir[r] \in Dirs
      BY <3>1 DEF SessionOk
    <3>5. opt[r].truncate => \A q \in Sessions \ {r} : dir'[q] # dir[r]
      <4>1. \A q \in Sessions : dir'[q] = dir[q] \/ dir'[q] = NoDir
        BY <1>2
      <4> QED
        BY <3>1, <3>4, <4>1, MarkersAssumption DEF SessionOk
    <3> QED
      BY <3>1, <3>2, <3>3, <3>5 DEF SessionOk
  <2> QED
    BY <2>1, <2>2
<1>6. ASSUME NEW e \in Dirs PROVE LockOk(e)'
  <2>1. LockOk(e) /\ (lock[e] # NoSession => lock[e] \in Sessions)
    BY <1>1 DEF LTypeOK
  <2> QED
    BY <1>2, <1>3, <2>1 DEF LockOk
<1>7. ASSUME NEW e \in Dirs PROVE DirOk(e)'
  <2>1. DirOk(e)
    BY <1>1
  <2>2. CASE index[e].file = "full"
    <3>1. PICK n \in Nat :
            /\ Sound(files[e], index[e].slots, acked[e], index[e].header.cap, index[e].header.min, n)
            /\ index[e].header.next <= n
            /\ \A s \in Sessions : at[s] = "open" /\ dir[s] = e =>
                 mem[s] = [min |-> index[e].header.min, cap |-> index[e].header.cap, highwater |-> n]
      BY <2>1, <2>2 DEF DirOk
    <3>2. /\ index'[e].header.min = index[e].header.min /\ index'[e].header.cap = index[e].header.cap
          /\ index'[e].header.next <= n
      <4>1. CASE index'[e].header = index[e].header
        BY <3>1, <4>1
      <4>2. ASSUME NEW s \in Sessions, at[s] = "open", dir[s] = e,
                   index'[e].header = [min |-> mem[s].min, cap |-> mem[s].cap,
                                       next |-> mem[s].highwater]
            PROVE  /\ index'[e].header.min = index[e].header.min
                   /\ index'[e].header.cap = index[e].header.cap
                   /\ index'[e].header.next <= n
        <5>1. mem[s] = [min |-> index[e].header.min, cap |-> index[e].header.cap, highwater |-> n]
          BY <3>1, <4>2
        <5>2. /\ mem[s].min = index[e].header.min /\ mem[s].cap = index[e].header.cap
              /\ mem[s].highwater = n
          BY <5>1
        <5>3. /\ index'[e].header.min = mem[s].min /\ index'[e].header.cap = mem[s].cap
              /\ index'[e].header.next = mem[s].highwater
          BY <4>2
        <5> QED
          BY <5>2, <5>3
      <4> QED
        BY <4>1, <4>2
    <3>3. \A s \in Sessions : at'[s] = "open" /\ dir'[s] = e =>
            mem'[s] = [min |-> index[e].header.min, cap |-> index[e].header.cap, highwater |-> n]
      BY <1>2, <3>1
    <3>4. files'[e] = files[e] /\ acked'[e] = acked[e] /\ index'[e].slots = index[e].slots
          /\ index'[e].file = "full"
      BY <2>2
    <3> QED
      BY <3>1, <3>2, <3>3, <3>4 DEF DirOk
  <2>3. CASE index[e].file # "full"
    BY <2>1, <2>3 DEF DirOk
  <2> QED
    BY <2>2, <2>3
<1> QED
  BY <1>4, <1>5, <1>6, <1>7 DEF LInv

(* A crash, and an open that meets the lock. *)
LEMMA CrashKeeps ==
  ASSUME LInv, NEW S, Gone(S), UNCHANGED <<index, files, acked>>
  PROVE  LInv'
<1>1. index' \in [Dirs -> IndexFile]
  BY DEF LInv, LTypeOK
<1> QED
  BY <1>1, GoneKeeps

(* Drop of any number of open stores. *)
LEMMA CloseKeeps ==
  ASSUME LInv, NEW S, S \subseteq Sessions, Close(S)
  PROVE  LInv'
<1>1. LTypeOK /\ (\A r \in Sessions : SessionOk(r))
  BY DEF LInv
<1>2. (\A s \in S : at[s] = "open") /\ Gone(S) /\ UNCHANGED <<files, acked>>
  BY DEF Close
<1>3. ASSUME NEW d \in Dirs
      PROVE  /\ index'[d] \in IndexFile
             /\ index'[d].file = index[d].file /\ index'[d].slots = index[d].slots
             /\ \/ index'[d].header = index[d].header
                \/ \E s \in Sessions : at[s] = "open" /\ dir[s] = d /\
                     index'[d].header = [min |-> mem[s].min, cap |-> mem[s].cap,
                                         next |-> mem[s].highwater]
  <2>1. CASE \E s \in S : dir[s] = d
    <3>1. PICK s \in S : dir[s] = d /\ s = CHOOSE r \in S : dir[r] = d
      BY <2>1
    <3>2. at[s] = "open" /\ s \in Sessions /\ index[d].file = "full"
      <4>1. at[s] = "open" /\ s \in Sessions
        BY <1>2
      <4>2. ~opt[s].truncate /\ (opt[s].truncate <=> index[dir[s]].file # "full")
        BY <1>1, <4>1 DEF SessionOk
      <4> QED
        BY <3>1, <4>1, <4>2
    <3>3. index'[d] = [index[d] EXCEPT !.file = "full",
                                       !.header = [min |-> mem[s].min, cap |-> mem[s].cap,
                                                   next |-> mem[s].highwater]]
      BY <2>1, <3>1 DEF Close
    <3>4. [min |-> mem[s].min, cap |-> mem[s].cap, next |-> mem[s].highwater] \in Header
      BY <1>1, <3>2 DEF LTypeOK, Header
    <3>5. PICK v \in Header : v = [min |-> mem[s].min, cap |-> mem[s].cap, next |-> mem[s].highwater]
      BY <3>4
    <3>6. PICK x \in IndexFile : x = index[d] /\ x.file = "full"
      BY <1>1, <3>2 DEF LTypeOK
    <3>7. index'[d] = [x EXCEPT !.file = "full", !.header = v]
      BY <3>3, <3>5, <3>6
    <3>8. /\ index'[d] \in IndexFile /\ index'[d].file = "full" /\ index'[d].slots = x.slots
          /\ index'[d].header = v
      BY <3>7 DEF IndexFile
    <3> QED
      BY <3>1, <3>2, <3>5, <3>6, <3>8
  <2>2. CASE ~\E s \in S : dir[s] = d
    BY <1>1, <2>2 DEF Close, LTypeOK
  <2> QED
    BY <2>1, <2>2
<1>4. index' \in [Dirs -> IndexFile]
  BY <1>3 DEF Close
<1> QED
  BY <1>2, <1>3, <1>4, GoneKeeps

-----------------------------------------------------------------------------
(* The keys of a table. *)

(* A finite set of numbers, and the sequence of its members in order. *)
Sorted(S) ==
  \E n \in Nat :
    /\ IsFiniteSet(S) /\ Cardinality(S) = n
    /\ \E q \in [1 .. n -> S] : \A i, j \in 1 .. n : i < j => q[i] < q[j]

(* The empty sequence. *)
LEMMA SortedEmpty == Sorted({})
<1>1. IsFiniteSet({}) /\ Cardinality({}) = 0
  BY FS_EmptySet
<1>2. PICK n \in Nat : n = 0
  OBVIOUS
<1>3. \E q \in [1 .. n -> {}] : \A i, j \in 1 .. n : i < j => q[i] < q[j]
  <2>1. [i \in 1 .. n |-> i] \in [1 .. n -> {}] /\ 1 .. n = {}
    BY <1>2
  <2> QED
    BY <2>1
<1> QED
  BY <1>1, <1>2, <1>3 DEF Sorted

(* A greater number goes to the end. *)
LEMMA SortedMore ==
  ASSUME NEW S, S \subseteq Nat, Sorted(S), NEW n \in Nat, \A h \in S : h < n
  PROVE  Sorted(S \union {n})
<1>1. PICK k \in Nat :
        /\ IsFiniteSet(S) /\ Cardinality(S) = k
        /\ \E q \in [1 .. k -> S] : \A i, j \in 1 .. k : i < j => q[i] < q[j]
  BY DEF Sorted
<1>2. n \notin S
  BY SMT
<1>3. IsFiniteSet(S \union {n}) /\ Cardinality(S \union {n}) = k + 1
  BY <1>1, <1>2, FS_AddElement
<1>4. PICK q \in [1 .. k -> S] : \A i, j \in 1 .. k : i < j => q[i] < q[j]
  BY <1>1
<1>5. PICK r : r = [i \in 1 .. k + 1 |-> IF i = k + 1 THEN n ELSE q[i]]
  OBVIOUS
<1>6. r \in [1 .. k + 1 -> S \union {n}]
  <2>1. \A i \in 1 .. k + 1 : i # k + 1 => i \in 1 .. k
    OBVIOUS
  <2> QED
    BY <1>4, <1>5, <2>1
<1>7. ASSUME NEW i \in 1 .. k + 1, NEW j \in 1 .. k + 1, i < j PROVE r[i] < r[j]
  <2>0. i \in 1 .. k /\ i # k + 1
    BY <1>7
  <2>1. r[i] = q[i] /\ q[i] \in S /\ q[i] < n
    BY <1>4, <1>5, <2>0
  <2>2. CASE j = k + 1
    BY <1>5, <2>1, <2>2
  <2>3. CASE j # k + 1
    <3>1. j \in 1 .. k /\ r[j] = q[j]
      BY <1>5, <2>3
    <3> QED
      BY <1>4, <1>7, <2>0, <2>1, <3>1
  <2> QED
    BY <2>2, <2>3
<1>8. \E p \in [1 .. k + 1 -> S \union {n}] :
        \A i, j \in 1 .. k + 1 : i < j => p[i] < p[j]
  BY <1>6, <1>7
<1>9. k + 1 \in Nat
  OBVIOUS
<1> QED
  BY <1>3, <1>8, <1>9 DEF Sorted

(* Every set of heights can be put in order. *)
LEMMA Sortable ==
  ASSUME NEW S, S \subseteq Heights
  PROVE  Sorted(S)
<1> DEFINE Part(n) == {h \in S : h < n}
           Wrong == {n \in Nat : ~Sorted(Part(n))}
<1>1. \A h \in S : h \in Nat /\ h < MaxHeight + 1
  BY LifecycleAssumption DEF Heights
<1>2. MaxHeight + 1 \in Nat
  BY LifecycleAssumption
<1>3. Sorted(Part(0))
  <2>1. Part(0) = {}
    <3>1. \A h \in S : ~(h < 0)
      BY <1>1
    <3> QED
      BY <3>1
  <2> QED
    BY <2>1, SortedEmpty
<1>4. ASSUME NEW n \in Nat, Sorted(Part(n)) PROVE Sorted(Part(n + 1))
  <2>1. CASE n \notin S
    <3>1. Part(n + 1) = Part(n)
      <4>1. \A h \in S : h < n + 1 <=> h < n
        BY <1>1, <2>1
      <4> QED
        BY <4>1
    <3> QED
      BY <1>4, <3>1
  <2>2. CASE n \in S
    <3>1. Part(n + 1) = Part(n) \union {n}
      <4>1. \A h \in S : h < n + 1 <=> (h < n \/ h = n)
        BY <1>1
      <4> QED
        BY <2>2, <4>1
    <3>2. Part(n) \subseteq Nat /\ \A h \in Part(n) : h < n
      BY <1>1
    <3>3. Sorted(Part(n) \union {n})
      BY <1>4, <3>2, SortedMore
    <3> QED
      BY <3>1, <3>3
  <2> QED
    BY <2>1, <2>2
<1>5. Sorted(Part(MaxHeight + 1))
  <2> HIDE DEF Part
  <2>1. SUFFICES ASSUME ~Sorted(Part(MaxHeight + 1)) PROVE FALSE
    OBVIOUS
  <2>2. Wrong \subseteq Nat /\ Wrong # {}
    BY <1>2, <2>1
  <2>3. PICK n \in Wrong : \A m \in Wrong : n <= m
    BY <2>2, HasLeast
  <2>4. n \in Nat /\ n # 0 /\ ~Sorted(Part(n))
    BY <1>3, <2>3
  <2>5. PICK m \in Nat : n = m + 1
    <3>1. n - 1 \in Nat /\ n = n - 1 + 1
      BY <2>4
    <3> QED
      BY <3>1
  <2>6. m \notin Wrong
    BY <2>3, <2>5
  <2>7. Sorted(Part(m + 1))
    BY <1>4, <2>6
  <2> QED
    BY <2>4, <2>5, <2>7
<1>6. Part(MaxHeight + 1) = S
  BY <1>1
<1> HIDE DEF Part
<1> QED
  BY <1>5, <1>6

(* The keys of a table are heights. *)
LEMMA StreamTyped ==
  ASSUME NEW T, T \subseteq Heights, NEW start \in Int
  PROVE  Stream(T, start) \in Seq(Heights)
<1> DEFINE keys == {h \in T : h >= start}
<1>1. keys \subseteq Heights
  OBVIOUS
<1> HIDE DEF keys
<1>2. /\ Cardinality(keys) \in Nat
      /\ \E q \in [1 .. Cardinality(keys) -> keys] :
           \A i, j \in 1 .. Cardinality(keys) : i < j => q[i] < q[j]
  BY <1>1, Sortable DEF Sorted
<1>3. Stream(T, start) = CHOOSE q \in [1 .. Cardinality(keys) -> keys] :
                           \A i, j \in 1 .. Cardinality(keys) : i < j => q[i] < q[j]
  BY DEF Stream, keys
<1>4. Stream(T, start) \in [1 .. Cardinality(keys) -> keys]
  BY <1>2, <1>3
<1>5. Stream(T, start) \in [1 .. Cardinality(keys) -> Heights]
  BY <1>1, <1>4
<1>6. \A n \in Nat : \A q : q \in [1 .. n -> Heights] => q \in Seq(Heights)
  BY SeqDef
<1> QED
  BY <1>2, <1>5, <1>6

-----------------------------------------------------------------------------
(* The rest of Store::open, and writing. *)

(* A data file is removed: the index has no header yet. *)
LEMMA RemoveKeeps == ASSUME LInv, NEW s \in Sessions, RemoveFile(s) PROVE LInv'
<1>1. LTypeOK /\ (\A r \in Sessions : SessionOk(r)) /\ \A e \in Dirs : LockOk(e) /\ DirOk(e)
  BY DEF LInv
<1>2. at[s] = "remove" /\ UNCHANGED <<index, at, dir, opt, mem, lock, acked>>
  BY DEF RemoveFile
<1>3. PICK d \in Dirs : d = dir[s] /\ index[d].file # "full"
  BY <1>1, <1>2 DEF SessionOk
<1>4. PICK f \in FileIndices : files' = [files EXCEPT ![d][f] = <<>>]
  BY <1>3 DEF RemoveFile, Holding
<1>5. PICK G : G = [files[d] EXCEPT ![f] = <<>>]
  OBVIOUS
<1>6. files' = [files EXCEPT ![d] = G] /\ G \in [FileIndices -> Seq(Record)]
  BY <1>1, <1>4, <1>5 DEF LTypeOK
<1>7. LTypeOK'
  <2>1. files' \in [Dirs -> [FileIndices -> Seq(Record)]]
    BY <1>1, <1>6 DEF LTypeOK
  <2> QED
    BY <1>1, <1>2, <2>1 DEF LTypeOK
<1>8. \A r \in Sessions : SessionOk(r)'
  BY <1>1, <1>2 DEF SessionOk
<1>9. ASSUME NEW e \in Dirs PROVE LockOk(e)'
  BY <1>1, <1>2 DEF LockOk
<1>10. ASSUME NEW e \in Dirs PROVE DirOk(e)'
  <2>1. CASE e = d
    BY <1>1, <1>2, <1>3, <2>1 DEF DirOk
  <2>2. CASE e # d
    <3>1. files'[e] = files[e]
      BY <1>1, <1>6, <2>2 DEF LTypeOK
    <3> QED
      BY <1>1, <1>2, <3>1, DirSame
  <2> QED
    BY <2>1, <2>2
<1> QED
  BY <1>7, <1>8, <1>9, <1>10 DEF LInv

(***************************************************************************)
(* The last step of an open: session s has the lock of its directory d,    *)
(* which has a header now and holds n blocks.                              *)
(***************************************************************************)
LEMMA OpenedKeeps ==
  ASSUME LInv, NEW s \in Sessions, at[s] \in {"remove", "header"}, NEW d \in Dirs, d = dir[s],
         NEW h \in Header, NEW n \in Nat, h.next <= n,
         Sound(files[d], index[d].slots, acked[d], h.cap, h.min, n),
         NEW x \in IndexFile, x.file = "full", x.header = h, x.slots = index[d].slots,
         index' = [index EXCEPT ![d] = x],
         mem' = [mem EXCEPT ![s] = [min |-> h.min, cap |-> h.cap, highwater |-> n]],
         opt' = [opt EXCEPT ![s] = NoOptions], at' = [at EXCEPT ![s] = "open"],
         UNCHANGED <<files, dir, lock, acked>>
  PROVE  LInv'
<1>1. LTypeOK /\ (\A r \in Sessions : SessionOk(r)) /\ \A e \in Dirs : LockOk(e) /\ DirOk(e)
  BY DEF LInv
<1>2. PICK m : m = [min |-> h.min, cap |-> h.cap, highwater |-> n]
  OBVIOUS
<1>3. m \in [min : Nat, cap : Nat, highwater : Nat]
  BY <1>2 DEF Header
<1>4. /\ at'[s] = "open" /\ opt'[s] = NoOptions /\ mem'[s] = m
      /\ \A r \in Sessions \ {s} : at'[r] = at[r] /\ opt'[r] = opt[r] /\ mem'[r] = mem[r]
      /\ index'[d] = x /\ \A e \in Dirs \ {d} : index'[e] = index[e]
  BY <1>1, <1>2 DEF LTypeOK
<1>5. LTypeOK'
  <2>1. NoOptions \in Option
    BY DEF NoOptions, Option
  <2>2. /\ at' \in [Sessions -> Places] /\ opt' \in [Sessions -> Option]
        /\ mem' \in [Sessions -> [min : Nat, cap : Nat, highwater : Nat]]
        /\ index' \in [Dirs -> IndexFile]
    BY <1>1, <1>2, <1>3, <2>1 DEF LTypeOK, Places, Option
  <2> QED
    BY <1>1, <2>2 DEF LTypeOK, Option
<1>6. SessionOk(s) /\ at[s] \in Locking /\ lock[d] = s
  BY <1>1 DEF SessionOk, Locking
<1>7. ASSUME NEW r \in Sessions PROVE SessionOk(r)'
  <2>1. CASE r = s
    BY <1>4, <1>6, <2>1 DEF SessionOk, NoOptions, Locking
  <2>2. CASE r # s
    <3>1. SessionOk(r) /\ at'[r] = at[r] /\ opt'[r] = opt[r]
      BY <1>1, <1>4, <2>2
    <3>2. CASE dir[r] # d
      <4>1. dir[r] \in Dirs => index'[dir[r]] = index[dir[r]]
        BY <1>4, <3>2
      <4> QED
        BY <3>1, <4>1 DEF SessionOk
    <3>3. CASE dir[r] = d
      <4>1. ~opt[r].truncate /\ ~opt[s].truncate
        BY <1>6, <2>2, <3>1, <3>3 DEF SessionOk
      <4> QED
        BY <1>4, <3>1, <3>3, <4>1 DEF SessionOk
    <3> QED
      BY <3>2, <3>3
  <2> QED
    BY <2>1, <2>2
<1>8. ASSUME NEW e \in Dirs PROVE LockOk(e)'
  <2>1. LockOk(e) /\ (lock[e] # NoSession => lock[e] \in Sessions)
    BY <1>1 DEF LTypeOK
  <2> QED
    BY <1>4, <2>1 DEF LockOk, Locking
<1>9. ASSUME NEW e \in Dirs PROVE DirOk(e)'
  <2>1. CASE e = d
    <3>1. \A r \in Sessions : at'[r] = "open" /\ dir'[r] = d => r = s
      BY <1>4, <1>6, OneHolder DEF Locking
    <3> QED
      BY <1>2, <1>4, <2>1, <3>1 DEF DirOk
  <2>2. CASE e # d
    <3>1. \A r \in Sessions : at'[r] = "open" /\ dir'[r] = e =>
            at[r] = "open" /\ dir[r] = e /\ mem'[r] = mem[r]
      BY <1>4, <2>2
    <3> QED
      BY <1>1, <1>4, <2>2, <3>1, DirSame
  <2> QED
    BY <2>1, <2>2
<1> QED
  BY <1>5, <1>7, <1>8, <1>9 DEF LInv

(* A fresh store. *)
LEMMA CreateKeeps == ASSUME LInv, NEW s \in Sessions, CreateStore(s) PROVE LInv'
<1>1. LTypeOK /\ SessionOk(s) /\ at[s] = "remove"
  BY DEF LInv, CreateStore
<1>2. PICK d \in Dirs : d = dir[s] /\ index[d].file # "full" /\ DirOk(d)
  BY <1>1 DEF SessionOk, LInv
<1>3. \A f \in FileIndices : files[d][f] = <<>>
  BY <1>2 DEF CreateStore, AllRemoved, Holding
<1>4. PICK h : h = [min |-> opt[s].min, cap |-> opt[s].cap, next |-> 0]
  OBVIOUS
<1>5. h \in Header /\ h.min \in Nat /\ h.cap \in Nat /\ h.next = 0
      /\ h.min = opt[s].min /\ h.cap = opt[s].cap
  BY <1>1, <1>4 DEF LTypeOK, Header
<1>6. Sound(files[d], index[d].slots, acked[d], h.cap, h.min, 0)
  BY <1>2, <1>3, <1>5, BlankSound DEF DirOk
<1>7. PICK y \in IndexFile : y = index[d]
  BY <1>1 DEF LTypeOK
<1>8. PICK x : x = [y EXCEPT !.file = "full", !.header = h]
  OBVIOUS
<1>9. x \in IndexFile /\ x.file = "full" /\ x.header = h /\ x.slots = index[d].slots
  BY <1>5, <1>7, <1>8 DEF IndexFile
<1>10. index' = [index EXCEPT ![d] = x]
  BY <1>1, <1>2, <1>4, <1>7, <1>8 DEF CreateStore, LTypeOK
<1>11. mem' = [mem EXCEPT ![s] = [min |-> h.min, cap |-> h.cap, highwater |-> 0]]
  BY <1>5 DEF CreateStore
<1>12. /\ opt' = [opt EXCEPT ![s] = NoOptions] /\ at' = [at EXCEPT ![s] = "open"]
       /\ UNCHANGED <<files, dir, lock, acked>>
  BY DEF CreateStore, Goto
<1>13. h.next <= 0 /\ 0 \in Nat /\ at[s] \in {"remove", "header"}
  BY <1>1, <1>5
<1> QED
  BY <1>2, <1>5, <1>6, <1>9, <1>10, <1>11, <1>12, <1>13, OpenedKeeps

(* The recovery of a store that was closed, or that a crash left behind. *)
LEMMA RecoverKeeps == ASSUME LInv, NEW s \in Sessions, Recover(s) PROVE LInv'
<1>1. LTypeOK /\ SessionOk(s) /\ at[s] = "header"
  BY DEF LInv, Recover
<1>2. PICK d \in Dirs : d = dir[s] /\ index[d].file = "full" /\ DirOk(d)
  BY <1>1 DEF SessionOk, LInv
<1>3. PICK y \in IndexFile : y = index[d] /\ y.file = "full"
  BY <1>1, <1>2 DEF LTypeOK
<1>4. PICK h \in Header : h = y.header
  BY DEF IndexFile
<1>5. ReadHeader(d) = h
  BY <1>3, <1>4 DEF ReadHeader
<1>6. PICK n \in Nat : Sound(files[d], y.slots, acked[d], h.cap, h.min, n) /\ h.next <= n
  BY <1>2, <1>3, <1>4 DEF DirOk
<1>7. LayoutValid(d, h) /\ ScanEnd(d, h) = n /\ Recovered(d, h) = y.slots
  BY <1>1, <1>3, <1>6, RecoverSound DEF Sound
<1>8. /\ index' = [index EXCEPT ![d].slots = y.slots, ![d].header = y.header, ![d].file = "full"]
      /\ mem' = [mem EXCEPT ![s] = [min |-> h.min, cap |-> h.cap, highwater |-> n]]
      /\ at' = [at EXCEPT ![s] = "open"]
      /\ opt' = [opt EXCEPT ![s] = NoOptions] /\ UNCHANGED <<files, dir, lock, acked>>
  BY <1>2, <1>3, <1>5, <1>7 DEF Recover, Goto
<1>9. index' = [index EXCEPT ![d] = y]
  <2>1. [[[y EXCEPT !.slots = y.slots] EXCEPT !.header = y.header] EXCEPT !.file = "full"] = y
    BY <1>3 DEF IndexFile
  <2>2. index' = [index EXCEPT ![d] = [[[y EXCEPT !.slots = y.slots] EXCEPT !.header = y.header]
                                          EXCEPT !.file = "full"]]
    BY <1>1, <1>3, <1>8 DEF LTypeOK
  <2> QED
    BY <2>1, <2>2
<1>10. /\ at[s] \in {"remove", "header"} /\ y.slots = index[d].slots
       /\ y.file = "full" /\ y.header = h
       /\ Sound(files[d], index[d].slots, acked[d], h.cap, h.min, n) /\ h.next <= n
  BY <1>1, <1>3, <1>4, <1>6
<1>11. /\ mem' = [mem EXCEPT ![s] = [min |-> h.min, cap |-> h.cap, highwater |-> n]]
       /\ at' = [at EXCEPT ![s] = "open"] /\ opt' = [opt EXCEPT ![s] = NoOptions]
       /\ UNCHANGED <<files, dir, lock, acked>>
  BY <1>8
<1> QED
  BY <1>2, <1>9, <1>10, <1>11, OpenedKeeps

(* A write to an open store: the next block of the last file. *)
LEMMA WriteKeeps ==
  ASSUME LInv, NEW s \in Sessions, NEW h \in Heights, NEW b \in Values, Write(s, h, b)
  PROVE  /\ LInv' /\ UNCHANGED <<at, dir, opt, lock>> /\ at[s] = "open" /\ dir[s] \in Dirs
         /\ mem'[s].min = mem[s].min /\ \A r \in Sessions \ {s} : mem'[r] = mem[r]
         /\ acked' = [acked EXCEPT ![dir[s]][h] = b]
<1>1. LTypeOK /\ (\A r \in Sessions : SessionOk(r)) /\ \A e \in Dirs : LockOk(e) /\ DirOk(e)
  BY DEF LInv
<1>2. at[s] = "open" /\ UNCHANGED <<at, dir, opt, lock>>
  BY DEF Write, CanWrite
<1>3. PICK d \in Dirs : d = dir[s] /\ index[d].file = "full"
  BY <1>1, <1>2 DEF SessionOk
<1>4. PICK y \in IndexFile : y = index[d] /\ y.file = "full"
  BY <1>1, <1>3 DEF LTypeOK
<1>5. PICK v \in Header, S \in [Heights -> Nat] : v = y.header /\ S = y.slots
  BY DEF IndexFile
<1>6. PICK n \in Nat :
        /\ Sound(files[d], S, acked[d], v.cap, v.min, n) /\ v.next <= n
        /\ mem[s] = [min |-> v.min, cap |-> v.cap, highwater |-> n]
  BY <1>1, <1>2, <1>3, <1>4, <1>5 DEF DirOk
<1>7. PICK c \in Nat, m \in Nat :
        c = v.cap /\ m = v.min /\ mem[s].cap = c /\ mem[s].min = m /\ mem[s].highwater = n
  BY <1>6 DEF Header
<1>8. h >= m /\ FileOf(c, n) \in FileIndices
  BY <1>7 DEF Write, CanWrite
<1>9. PICK F \in [FileIndices -> Seq(Record)], A \in [Heights -> Values \union {NoBlock}] :
        F = files[d] /\ A = acked[d]
  BY <1>1 DEF LTypeOK
<1>10. PICK G : G = [F EXCEPT ![FileOf(c, n)] =
                       SubSeq(@, 1, Local(c, n)) \o <<[height |-> h, block |-> b]>>
                         \o SubSeq(@, Local(c, n) + 2, Len(@))]
  OBVIOUS
<1>11. PICK T, B : T = [S EXCEPT ![h - m] = n + 1] /\ B = [A EXCEPT ![h] = b]
  OBVIOUS
<1>12. G \in [FileIndices -> Seq(Record)] /\ Sound(G, T, B, c, m, n + 1)
  <2>1. Sound(F, S, A, c, m, n)
    BY <1>6, <1>7, <1>9
  <2>2. /\ G \in [FileIndices -> Seq(Record)]
        /\ Sound(G, [S EXCEPT ![h - m] = n + 1], [A EXCEPT ![h] = b], c, m, n + 1)
    BY <1>8, <1>10, <2>1, WriteSound
  <2> QED
    BY <1>11, <2>2
<1>13. T \in [Heights -> Nat] /\ B \in [Heights -> Values \union {NoBlock}]
  <2>1. n + 1 \in Nat /\ b \in Values \union {NoBlock}
    OBVIOUS
  <2>2. PICK k, e : k = h - m /\ e = n + 1
    OBVIOUS
  <2>3. T = [S EXCEPT ![k] = e] /\ e \in Nat
    BY <1>11, <2>1, <2>2
  <2>4. T \in [Heights -> Nat]
    BY <2>3
  <2>5. B \in [Heights -> Values \union {NoBlock}]
    BY <1>11, <2>1
  <2> QED
    BY <2>4, <2>5
<1>14. PICK x : x = [y EXCEPT !.slots = T]
  OBVIOUS
<1>15. x \in IndexFile /\ x.slots = T /\ x.header = v /\ x.file = "full"
  BY <1>4, <1>5, <1>13, <1>14 DEF IndexFile
<1>16. files' = [files EXCEPT ![d] = G]
  <2>1. files' = [files EXCEPT ![d][FileOf(c, n)] =
                    SubSeq(@, 1, Local(c, n)) \o <<[height |-> h, block |-> b]>>
                      \o SubSeq(@, Local(c, n) + 2, Len(@))]
    BY <1>3, <1>7 DEF Write
  <2> QED
    BY <1>1, <1>9, <1>10, <2>1 DEF LTypeOK
<1>17. index' = [index EXCEPT ![d] = x]
  <2>1. index' = [index EXCEPT ![d].slots[h - m] = n + 1, ![d].header = y.header,
                               ![d].file = "full"]
    BY <1>3, <1>4, <1>7 DEF Write
  <2>2. [[[y EXCEPT !.slots = T] EXCEPT !.header = y.header] EXCEPT !.file = "full"] = x
    BY <1>4, <1>14 DEF IndexFile
  <2>3. index' = [index EXCEPT ![d] = [[[y EXCEPT !.slots = T] EXCEPT !.header = y.header]
                                          EXCEPT !.file = "full"]]
    BY <1>1, <1>4, <1>5, <1>11, <2>1 DEF LTypeOK
  <2> QED
    BY <2>2, <2>3
<1>18. acked' = [acked EXCEPT ![d] = B] /\ acked' = [acked EXCEPT ![d][h] = b]
  <2>1. acked' = [acked EXCEPT ![d][h] = b]
    BY <1>3 DEF Write
  <2> QED
    BY <1>1, <1>9, <1>11, <2>1 DEF LTypeOK
<1>19. PICK w : w = [min |-> m, cap |-> c, highwater |-> n + 1]
  OBVIOUS
<1>20. mem' = [mem EXCEPT ![s] = w]
  <2>1. mem' = [mem EXCEPT ![s].highwater = n + 1]
    BY <1>7 DEF Write
  <2>2. PICK u \in [min : Nat, cap : Nat, highwater : Nat] : u = mem[s]
    BY <1>1 DEF LTypeOK
  <2>3. [u EXCEPT !.highwater = n + 1] = w
    BY <1>7, <1>19, <2>2
  <2> QED
    BY <1>1, <2>1, <2>2, <2>3 DEF LTypeOK
<1>21. /\ mem'[s] = w /\ \A r \in Sessions \ {s} : mem'[r] = mem[r]
       /\ files'[d] = G /\ index'[d] = x /\ acked'[d] = B
       /\ \A e \in Dirs \ {d} : files'[e] = files[e] /\ index'[e] = index[e] /\ acked'[e] = acked[e]
  BY <1>1, <1>16, <1>17, <1>18, <1>20 DEF LTypeOK
<1>22. LTypeOK'
  <2>1. w \in [min : Nat, cap : Nat, highwater : Nat]
    BY <1>19
  <2>2. mem' \in [Sessions -> [min : Nat, cap : Nat, highwater : Nat]]
    BY <1>1, <1>20, <2>1 DEF LTypeOK
  <2>3. index' \in [Dirs -> IndexFile]
    BY <1>1, <1>15, <1>17 DEF LTypeOK
  <2>4. files' \in [Dirs -> [FileIndices -> Seq(Record)]]
    BY <1>1, <1>12, <1>16 DEF LTypeOK
  <2>5. acked' \in [Dirs -> [Heights -> Values \union {NoBlock}]]
    BY <1>1, <1>13, <1>18 DEF LTypeOK
  <2> QED
    BY <1>1, <1>2, <2>2, <2>3, <2>4, <2>5 DEF LTypeOK
<1>23. ASSUME NEW r \in Sessions PROVE SessionOk(r)'
  <2>1. SessionOk(r) /\ \A e \in Dirs : index'[e].file = index[e].file
    BY <1>1, <1>4, <1>15, <1>21
  <2> QED
    BY <1>2, <2>1 DEF SessionOk
<1>24. ASSUME NEW e \in Dirs PROVE LockOk(e)'
  BY <1>1, <1>2 DEF LockOk
<1>25. ASSUME NEW e \in Dirs PROVE DirOk(e)'
  <2>1. CASE e = d
    <3>1. \A r \in Sessions : at'[r] = "open" /\ dir'[r] = d => r = s
      BY <1>2, <1>3, OneHolder DEF Locking
    <3>2. v.next <= n + 1 /\ n + 1 \in Nat
      BY <1>6 DEF Header
    <3>3. mem'[s] = [min |-> v.min, cap |-> v.cap, highwater |-> n + 1]
      BY <1>7, <1>19, <1>21
    <3>4. Sound(files'[d], index'[d].slots, acked'[d], v.cap, v.min, n + 1)
      BY <1>7, <1>12, <1>15, <1>21
    <3>5. index'[d].file = "full" /\ index'[d].header = v
      BY <1>15, <1>21
    <3>6. \A r \in Sessions : at'[r] = "open" /\ dir'[r] = d =>
            mem'[r] = [min |-> v.min, cap |-> v.cap, highwater |-> n + 1]
      BY <3>1, <3>3
    <3> QED
      BY <2>1, <3>2, <3>4, <3>5, <3>6 DEF DirOk
  <2>2. CASE e # d
    <3>1. \A r \in Sessions : at'[r] = "open" /\ dir'[r] = e =>
            at[r] = "open" /\ dir[r] = e /\ mem'[r] = mem[r]
      BY <1>2, <1>3, <1>21, <2>2
    <3> QED
      BY <1>1, <1>21, <2>2, <3>1, DirSame
  <2> QED
    BY <2>1, <2>2
<1>26. mem'[s].min = mem[s].min
  BY <1>7, <1>19, <1>21
<1> QED
  BY <1>2, <1>3, <1>18, <1>21, <1>22, <1>23, <1>24, <1>25, <1>26 DEF LInv

(* The first state. *)
LEMMA InitLInv == LInit => LInv
<1> SUFFICES ASSUME LInit PROVE LInv
  OBVIOUS
<1>1. LTypeOK
  <2>1. NoIndex \in IndexFile
    BY DEF NoIndex, IndexFile, Header, DefaultHeader, EmptySlots
  <2>2. index \in [Dirs -> IndexFile]
    BY <2>1 DEF LInit
  <2>3. files \in [Dirs -> [FileIndices -> Seq(Record)]]
    BY EmptySeq DEF LInit
  <2> QED
    BY <2>2, <2>3 DEF LInit, LTypeOK, Places, NoOptions, NoStore
<1>2. ASSUME NEW s \in Sessions PROVE SessionOk(s)
  BY DEF LInit, SessionOk, Locking, NoOptions
<1>3. ASSUME NEW d \in Dirs PROVE LockOk(d) /\ DirOk(d)
  <2>1. index[d].file = "absent" /\ index[d].slots = EmptySlots
    BY DEF LInit, NoIndex
  <2> QED
    BY <2>1 DEF LInit, LockOk, DirOk
<1> QED
  BY <1>1, <1>2, <1>3 DEF LInv

-----------------------------------------------------------------------------
(* What a reader of an open store sees. *)

(* read_block returns what was acknowledged, and fails below the minimum height. *)
LEMMA ReadIs ==
  ASSUME LInv, NEW s \in Sessions, at[s] = "open", NEW h \in Heights
  PROVE  /\ h >= mem[s].min => Read(s, h) = acked[dir[s]][h]
         /\ h < mem[s].min => Read(s, h) = Failure /\ acked[dir[s]][h] = NoBlock
<1>1. LTypeOK /\ SessionOk(s)
  BY DEF LInv
<1>2. PICK d \in Dirs : d = dir[s] /\ index[d].file = "full" /\ DirOk(d)
  BY <1>1 DEF SessionOk, LInv
<1>3. PICK y \in IndexFile : y = index[d]
  BY <1>1 DEF LTypeOK
<1>4. PICK v \in Header, S \in [Heights -> Nat] : v = y.header /\ S = y.slots
  BY DEF IndexFile
<1>5. PICK c \in Nat, m \in Nat : c = v.cap /\ m = v.min
  BY DEF Header
<1>6. PICK n \in Nat : Sound(files[d], S, acked[d], c, m, n) /\ mem[s].min = m /\ mem[s].cap = c
  <2>1. PICK n \in Nat :
          /\ Sound(files[d], index[d].slots, acked[d], index[d].header.cap, index[d].header.min, n)
          /\ mem[s] = [min |-> index[d].header.min, cap |-> index[d].header.cap, highwater |-> n]
    BY <1>2 DEF DirOk
  <2>2. mem[s].min = m /\ mem[s].cap = c
    BY <1>3, <1>4, <1>5, <2>1
  <2> QED
    BY <1>3, <1>4, <1>5, <2>1, <2>2
<1>7. acked[d][h] = Pointed(files[d], S, c, m, h)
  BY <1>6 DEF Sound
<1>8. h \in Nat /\ h <= MaxHeight /\ MaxHeight \in Nat
  BY LifecycleAssumption DEF Heights
<1>9. CASE h < m
  BY <1>2, <1>6, <1>7, <1>8, <1>9 DEF Read, Pointed
<1>10. CASE ~(h < m)
  <2>1. h - m \in Heights
    BY <1>8, <1>10 DEF Heights
  <2>2. PICK e \in Nat : e = S[h - m]
    BY <2>1
  <2>3. CASE e = 0
    BY <1>2, <1>3, <1>4, <1>6, <1>7, <1>8, <1>10, <2>2, <2>3 DEF Read, Pointed
  <2>4. CASE e # 0
    <3>1. SlotOk(files[d], c, m, n, h - m, e)
      BY <1>6, <2>1, <2>2 DEF Sound, Slotted
    <3>2. PICK p \in Nat : p = e - 1 /\ p < n
      BY <2>4, <3>1 DEF SlotOk
    <3>3. InData(files[d], c, p)
      BY <1>6, <3>2 DEF Sound, Tiled
    <3>4. IsBlock(d, c, p) /\ BlockAt(d, c, p) = RecordAt(files[d], c, p)
      BY <3>3 DEF IsBlock, InData, BlockAt, RecordAt
    <3>5. Read(s, h) = BlockAt(d, c, p).block
      <4>1. index[dir[s]].slots[h - mem[s].min] = e
        BY <1>2, <1>3, <1>4, <1>6, <2>2
      <4> QED
        BY <1>2, <1>6, <1>10, <2>4, <3>2, <3>4, <4>1 DEF Read
    <3>6. acked[d][h] = RecordAt(files[d], c, p).block
      BY <1>7, <1>10, <2>2, <2>4, <3>2 DEF Pointed
    <3> QED
      BY <1>2, <1>6, <1>8, <1>10, <3>4, <3>5, <3>6
  <2> QED
    BY <2>3, <2>4
<1> QED
  BY <1>9, <1>10

(* The heights that the properties speak of. *)
LEMMA HeightsAbove ==
  ASSUME LInv, NEW s \in Sessions, NEW h \in mem[s].min .. MaxHeight
  PROVE  h \in Heights /\ h >= mem[s].min
<1>1. mem[s].min \in Nat /\ MaxHeight \in Nat
  BY LifecycleAssumption DEF LInv, LTypeOK
<1> QED
  BY <1>1 DEF Heights

(* A directory that a step begins to truncate has nothing acknowledged. *)
LEMMA Blank ==
  ASSUME LInv', NEW s \in Sessions, opt'[s].truncate
  PROVE  \A h \in Heights : acked'[dir'[s]][h] = NoBlock
<1>1. SessionOk(s)'
  BY DEF LInv
<1>2. dir'[s] \in Dirs /\ index'[dir'[s]].file # "full"
  BY <1>1 DEF SessionOk
<1>3. PICK d \in Dirs : d = dir'[s]
  BY <1>2
<1>4. DirOk(d)'
  BY DEF LInv
<1>5. acked'[d] = [h \in Heights |-> NoBlock]
  BY <1>2, <1>3, <1>4 DEF DirOk
<1> QED
  BY <1>3, <1>5

-----------------------------------------------------------------------------
(* What a step of one session leaves alone. *)

Aside(s) ==
  \A r \in Sessions \ {s} :
    at'[r] = at[r] /\ dir'[r] = dir[r] /\ opt'[r] = opt[r] /\ mem'[r] = mem[r]

(* A session ends. *)
LEMMA GoneAside ==
  ASSUME NEW s \in Sessions, Gone({s})
  PROVE  Aside(s) /\ at'[s] = "idle"
BY DEF Gone, Aside

(* The steps of Store::open after the first. *)
LEMMA OpenStepKeeps ==
  ASSUME LInv, NEW s \in Sessions, OpenStep(s)
  PROVE  LInv' /\ Aside(s) /\ acked' = acked /\ at[s] # "open"
<1>1. LTypeOK
  BY DEF LInv
<1>2. CASE TryLock(s)
  <2>1. LInv'
    BY <1>2, TryLockKeeps
  <2> QED
    BY <1>1, <1>2, <2>1 DEF TryLock, Goto, Aside, LTypeOK
<1>3. CASE WouldBlock(s)
  <2>1. Gone({s}) /\ UNCHANGED <<index, files, acked>> /\ at[s] = "lock"
    BY <1>3 DEF WouldBlock
  <2>2. LInv' /\ Aside(s)
    BY <2>1, CrashKeeps, GoneAside
  <2> QED
    BY <2>1, <2>2
<1>4. CASE RemoveFile(s)
  <2>1. LInv'
    BY <1>4, RemoveKeeps
  <2> QED
    BY <1>4, <2>1 DEF RemoveFile, Aside
<1>5. CASE CreateStore(s)
  <2>1. LInv'
    BY <1>5, CreateKeeps
  <2> QED
    BY <1>1, <1>5, <2>1 DEF CreateStore, Goto, Aside, LTypeOK
<1>6. CASE Recover(s)
  <2>1. LInv'
    BY <1>6, RecoverKeeps
  <2>2. at[s] = "header" /\ UNCHANGED <<dir, acked>> /\ opt' = [opt EXCEPT ![s] = NoOptions]
    BY <1>6 DEF Recover
  <2>3. /\ \E place : at' = [at EXCEPT ![s] = place]
        /\ \E store : mem' = [mem EXCEPT ![s] = store] \/ mem' = mem
    BY <1>6 DEF Recover, Goto
  <2> QED
    BY <1>1, <2>1, <2>2, <2>3 DEF Aside, LTypeOK
<1>7. CASE Refuse(s)
  BY <1>1, <1>7 DEF Refuse, LTypeOK, Places
<1> QED
  BY <1>2, <1>3, <1>4, <1>5, <1>6, <1>7 DEF OpenStep

(* The first step of an open wipes no directory that somebody is in. *)
LEMMA OpenIndexAside ==
  ASSUME LInv, Callers, NEW s \in Sessions, NEW d \in Dirs, NEW o \in Option, OpenIndex(s, d, o)
  PROVE  /\ LInv' /\ Aside(s) /\ at[s] = "idle" /\ at'[s] = "lock" /\ dir'[s] = d /\ opt'[s] = o
         /\ \A r \in Sessions : dir[r] \in Dirs => acked'[dir[r]] = acked[dir[r]]
<1>1. LInv'
  BY OpenIndexKeeps
<1>2. LTypeOK /\ \A r \in Sessions : SessionOk(r)
  BY DEF LInv
<1>3. /\ at[s] = "idle" /\ MayOpen(d, o.truncate)
      /\ at' = [at EXCEPT ![s] = "lock"] /\ dir' = [dir EXCEPT ![s] = d]
      /\ opt' = [opt EXCEPT ![s] = o] /\ UNCHANGED <<files, mem, lock>>
      /\ acked' = IF o.truncate /\ lock[d] = NoSession
                  THEN [acked EXCEPT ![d] = [h \in Heights |-> NoBlock]] ELSE acked
  BY DEF OpenIndex, Goto
<1>4. Aside(s) /\ at'[s] = "lock" /\ dir'[s] = d /\ opt'[s] = o
  BY <1>2, <1>3 DEF Aside, LTypeOK
<1>5. ASSUME NEW r \in Sessions, dir[r] \in Dirs PROVE acked'[dir[r]] = acked[dir[r]]
  <2>1. CASE o.truncate
    <3>1. at[r] # "idle"
      BY <1>2, <1>5, MarkersAssumption DEF SessionOk
    <3>2. dir[r] # d
      BY <1>3, <2>1, <3>1 DEF MayOpen, Busy, Callers
    <3> QED
      BY <1>2, <1>3, <1>5, <3>2 DEF LTypeOK
  <2>2. CASE ~o.truncate
    BY <1>3, <2>2
  <2> QED
    BY <2>1, <2>2
<1> QED
  BY <1>1, <1>3, <1>4, <1>5

(* A write is seen in no other store that is open or being created. *)
LEMMA WriteAside ==
  ASSUME LInv, NEW s \in Sessions, NEW h \in Heights, NEW b \in Values, Write(s, h, b)
  PROVE  /\ LInv' /\ Aside(s) /\ at' = at /\ dir' = dir
         /\ \A r \in Sessions \ {s} : at[r] = "open" \/ opt[r].truncate =>
              dir[r] # dir[s] /\ acked'[dir[r]] = acked[dir[r]]
<1>1. /\ LInv' /\ UNCHANGED <<at, dir, opt, lock>> /\ at[s] = "open" /\ dir[s] \in Dirs
      /\ \A r \in Sessions \ {s} : mem'[r] = mem[r]
      /\ acked' = [acked EXCEPT ![dir[s]][h] = b]
  BY WriteKeeps
<1>2. ASSUME NEW r \in Sessions \ {s}, at[r] = "open" \/ opt[r].truncate
      PROVE  dir[r] # dir[s] /\ dir[r] \in Dirs
  <2>1. SessionOk(r)
    BY DEF LInv
  <2>2. CASE at[r] = "open"
    BY <1>1, <2>1, <2>2, OneHolder DEF Locking, SessionOk
  <2>3. CASE opt[r].truncate
    BY <2>1, <2>3 DEF SessionOk
  <2> QED
    BY <1>2, <2>2, <2>3
<1>3. acked \in [Dirs -> [Heights -> Values \union {NoBlock}]]
  BY DEF LInv, LTypeOK
<1> QED
  BY <1>1, <1>2, <1>3 DEF Aside

-----------------------------------------------------------------------------
(* The commands of the tool. *)

(* The three sessions. *)
LEMMA ThreeSessions ==
  /\ User \in Sessions /\ Source \in Sessions /\ Target \in Sessions
  /\ User # Source /\ User # Target /\ Source # Target
BY TransferAssumption

(* A step of somebody else leaves what the tool has done as it is. *)
LEMMA ToolAside ==
  ASSUME TInv, cmd' = cmd, NEW s \in Sessions, Aside(s), s # Target,
         s = Source => at[Source] # "open",
         \A r \in {Source, Target} \ {s} : at[r] = "open" \/ opt[r].truncate =>
           acked'[dir[r]] = acked[dir[r]]
  PROVE  CommandOk' /\ CopyInv' /\ ImportInv'
<1>1. /\ at'[Target] = at[Target] /\ dir'[Target] = dir[Target] /\ opt'[Target] = opt[Target]
      /\ mem'[Target] = mem[Target]
  BY ThreeSessions DEF Aside
<1>2. /\ s # Source => at'[Source] = at[Source] /\ dir'[Source] = dir[Source]
  BY ThreeSessions DEF Aside
<1>3. CommandOk /\ CopyInv /\ ImportInv
  BY DEF TInv
<1>4. CommandOk'
  BY <1>3 DEF CommandOk
<1>5. CopyInv'
  <2> SUFFICES ASSUME cmd.kind = "copy", cmd.to = NoDir, at[Target] # "idle"
               PROVE  CopyInv'
    BY <1>1 DEF CopyInv
  <2>1. /\ at[Source] = "open"
        /\ \A h \in Heights : h >= cmd.next => acked[dir[Target]][h] = NoBlock
        /\ at[Target] # "open" => opt[Target].truncate /\ opt[Target].min = cmd.next
        /\ at[Target] = "open" =>
             \A h \in Heights : mem[Target].min <= h /\ h < cmd.next =>
               /\ acked[dir[Target]][h] = acked[dir[Source]][h]
               /\ acked[dir[Target]][h] # NoBlock
    BY <1>3 DEF CopyInv
  <2>2. s # Source /\ at'[Source] = "open" /\ dir'[Source] = dir[Source]
    BY <1>2, <2>1
  <2>3. acked'[dir[Target]] = acked[dir[Target]] /\ acked'[dir[Source]] = acked[dir[Source]]
    BY <2>1, <2>2, ThreeSessions
  <2> QED
    BY <1>1, <2>1, <2>2, <2>3 DEF CopyInv
<1>6. ImportInv'
  <2> SUFFICES ASSUME cmd.kind = "import", at[Target] # "idle"
               PROVE  ImportInv'
    BY <1>1 DEF ImportInv
  <2>1. /\ cmd.next # 0 /\ cmd.streams # <<>>
        /\ at[Target] # "open" => opt[Target].truncate
        /\ \A h \in Heights :
             acked[dir[Target]][h] = IF \E i \in 1 .. cmd.next - 1 : cmd.streams[1][i] = h
                                     THEN {h} ELSE NoBlock
    BY <1>3 DEF ImportInv
  <2>2. acked'[dir[Target]] = acked[dir[Target]]
    BY <2>1, ThreeSessions
  <2>3. \A h \in Heights :
          acked'[dir'[Target]][h] = IF \E i \in 1 .. cmd'.next - 1 : cmd'.streams[1][i] = h
                                    THEN {h} ELSE NoBlock
    BY <1>1, <2>1, <2>2
  <2> QED
    BY <1>1, <2>1, <2>3 DEF ImportInv
<1> QED
  BY <1>4, <1>5, <1>6

(* A command that is over has nothing left to say. *)
LEMMA DoneKeeps ==
  ASSUME LInv', Done
  PROVE  TInv'
<1>1. NoCommand \in [kind : {"none", "get", "copy", "import"}, to : Dirs \union {NoDir},
                     start : Nat \union {NoStart}, streams : Streams, next : Nat]
      /\ NoCommand.kind = "none"
  BY DEF NoCommand, Command, NoStart, Streams
<1> QED
  BY <1>1 DEF TInv, CommandOk, CopyInv, ImportInv, Done

(* A user of the library. *)
LEMMA UserKeeps == ASSUME TInv, Callers, UserStep PROVE TInv'
<1>1. LInv /\ cmd' = cmd /\ \A r \in Sessions : SessionOk(r)
  BY DEF TInv, LInv, UserStep
<1>2. ASSUME LInv', Aside(User),
             \A r \in {Source, Target} : at[r] = "open" \/ opt[r].truncate =>
               acked'[dir[r]] = acked[dir[r]]
      PROVE  TInv'
  BY <1>1, <1>2, ThreeSessions, ToolAside DEF TInv
<1>3. \A r \in Sessions : at[r] = "open" \/ opt[r].truncate => dir[r] \in Dirs
  BY <1>1 DEF SessionOk
<1>4. ASSUME NEW d \in Dirs, NEW o \in Option, OpenIndex(User, d, o) PROVE TInv'
  <2>1. /\ LInv' /\ Aside(User)
        /\ \A r \in Sessions : dir[r] \in Dirs => acked'[dir[r]] = acked[dir[r]]
    BY <1>1, <1>4, ThreeSessions, OpenIndexAside
  <2> QED
    BY <1>2, <1>3, <2>1, ThreeSessions
<1>5. ASSUME NEW h \in Heights, NEW b \in Blocks, Write(User, h, b) PROVE TInv'
  <2>1. b \in Values
    BY DEF Values
  <2>2. /\ LInv' /\ Aside(User)
        /\ \A r \in Sessions \ {User} : at[r] = "open" \/ opt[r].truncate =>
              acked'[dir[r]] = acked[dir[r]]
    BY <1>1, <1>5, <2>1, ThreeSessions, WriteAside
  <2> QED
    BY <1>2, <2>2, ThreeSessions
<1>6. ASSUME Close({User}) \/ Crash({User}) PROVE TInv'
  <2>1. LInv'
    BY <1>1, <1>6, ThreeSessions, CloseKeeps, CrashKeeps DEF Crash
  <2>2. Gone({User}) /\ acked' = acked
    BY <1>6 DEF Close, Crash
  <2> QED
    BY <1>2, <2>1, <2>2, ThreeSessions, GoneAside
<1>7. Existing \in Option /\ \A m \in MinHeights, c \in Caps : Fresh(m, c) \in Option
  BY LifecycleAssumption DEF Existing, Fresh, Option
<1> QED
  BY <1>4, <1>5, <1>6, <1>7 DEF UserStep

(* get, copy and import begin: they open their first store. *)
LEMMA StartKeeps ==
  ASSUME TInv, Callers, NEW d \in Dirs
  PROVE  /\ StartGet(d) => TInv'
         /\ \A t \in Dirs, h \in {NoStart} \union Starts : StartCopy(d, t, h) => TInv'
<1>1. LInv /\ Existing \in Option
  BY DEF TInv, Existing, Option
<1>2. \A h \in {NoStart} \union Starts : h \in Nat \union {NoStart}
  <2>1. \A h \in Heights : h \in Nat
    BY LifecycleAssumption DEF Heights
  <2>2. Starts \subseteq Heights
    BY TransferAssumption
  <2> QED
    BY <2>1, <2>2
<1>3. ASSUME OpenIndex(Source, d, Existing), CommandOk',
             cmd'.kind = "get" \/ (cmd'.kind = "copy" /\ cmd'.to # NoDir)
      PROVE  TInv'
  <2>1. LInv'
    BY <1>1, <1>3, ThreeSessions, OpenIndexKeeps
  <2> QED
    BY <1>3, <2>1 DEF TInv, CopyInv, ImportInv
<1>4. ASSUME NEW kind \in {"get", "copy"}, NEW to \in Dirs \union {NoDir},
             NEW h \in Nat \union {NoStart}, cmd' = Command(kind, to, h, <<>>)
      PROVE  CommandOk' /\ cmd'.kind = kind /\ cmd'.to = to
  BY <1>4 DEF CommandOk, Command, Streams
<1>5. StartGet(d) => TInv'
  <2> SUFFICES ASSUME StartGet(d) PROVE TInv'
    OBVIOUS
  <2>1. OpenIndex(Source, d, Existing) /\ cmd' = Command("get", NoDir, NoStart, <<>>)
    BY DEF StartGet
  <2> QED
    BY <1>3, <1>4, <2>1
<1>6. ASSUME NEW t \in Dirs, NEW h \in {NoStart} \union Starts, StartCopy(d, t, h) PROVE TInv'
  <2>1. OpenIndex(Source, d, Existing) /\ cmd' = Command("copy", t, h, <<>>)
    BY <1>6 DEF StartCopy
  <2>2. t # NoDir /\ h \in Nat \union {NoStart}
    BY <1>2, MarkersAssumption
  <2> QED
    BY <1>3, <1>4, <2>1, <2>2
<1> QED
  BY <1>5, <1>6

(* The streams of an import, one for each of the tables. *)
LEMMA StartImportKeeps ==
  ASSUME TInv, Callers, NEW t \in Dirs, NEW m \in MinHeights, NEW h \in {NoStart} \union Starts,
         NEW tables, NEW n \in {2, 3}, DOMAIN tables = 1 .. n,
         \A k \in 1 .. n : tables[k] \in Tables,
         StartImport(t, m, h, tables)
  PROVE  TInv'
<1>1. LInv /\ Fresh(m, 0) \in Option /\ Fresh(m, 0).truncate
  BY LifecycleAssumption DEF TInv, Fresh, Option
<1>2. /\ LInv' /\ at'[Target] = "lock" /\ dir'[Target] = t /\ opt'[Target] = Fresh(m, 0)
  BY <1>1, ThreeSessions, OpenIndexAside DEF StartImport
<1>3. h \in Int /\ h \in Nat \union {NoStart}
  BY TransferAssumption, LifecycleAssumption DEF Heights, NoStart
<1>4. PICK q : q = [k \in 1 .. n |-> Stream(tables[k], h)]
  OBVIOUS
<1>5. \A k \in 1 .. n : Stream(tables[k], h) \in Seq(Heights)
  BY <1>3, StreamTyped, TransferAssumption
<1>6. q \in [1 .. n -> Seq(Heights)]
  BY <1>4, <1>5
<1>7. q \in Streams /\ q # <<>>
  <2>1. q \in [1 .. 2 -> Seq(Heights)] \/ q \in [1 .. 3 -> Seq(Heights)]
    BY <1>6
  <2>2. DOMAIN q = 1 .. n /\ 1 \in 1 .. n
    BY <1>4
  <2>3. q # <<>>
    BY <2>2
  <2> QED
    BY <2>1, <2>3 DEF Streams
<1>8. cmd' = [Command("import", NoDir, h, q) EXCEPT !.next = 1]
  BY <1>4 DEF StartImport
<1>9. cmd' = [kind |-> "import", to |-> NoDir, start |-> h, streams |-> q, next |-> 1]
  BY <1>8 DEF Command
<1>10. CommandOk'
  BY <1>3, <1>7, <1>9 DEF CommandOk
<1>11. CopyInv'
  BY <1>9 DEF CopyInv
<1>12. ImportInv'
  <2>1. \A e \in Heights : acked'[dir'[Target]][e] = NoBlock
    BY <1>1, <1>2, ThreeSessions, Blank
  <2>2. cmd'.kind = "import" /\ cmd'.next = 1 /\ cmd'.streams = q
    BY <1>9
  <2>3. ~\E i \in 1 .. cmd'.next - 1 : TRUE
    BY <2>2
  <2>4. \A e \in Heights :
          acked'[dir'[Target]][e] = IF \E i \in 1 .. cmd'.next - 1 : cmd'.streams[1][i] = e
                                    THEN {e} ELSE NoBlock
    BY <2>1, <2>3
  <2>5. opt'[Target].truncate
    BY <1>1, <1>2
  <2> QED
    BY <1>2, <1>7, <2>2, <2>4, <2>5 DEF ImportInv
<1> QED
  BY <1>2, <1>10, <1>11, <1>12 DEF TInv

(* copy creates its target. *)
LEMMA CopyOpensKeeps == ASSUME TInv, Callers, CopyOpensTarget PROVE TInv'
<1>1. LInv /\ LTypeOK /\ CommandOk
  BY DEF TInv, LInv
<1>2. PICK first : first = IF cmd.start = NoStart THEN mem[Source].min ELSE cmd.start
  OBVIOUS
<1>3. first \in Nat
  BY <1>1, <1>2, ThreeSessions DEF LTypeOK, CommandOk
<1>4. /\ cmd.kind = "copy" /\ cmd.to # NoDir /\ at[Source] = "open"
      /\ OpenIndex(Target, cmd.to, Fresh(first, 0))
      /\ cmd' = [cmd EXCEPT !.to = NoDir, !.next = first]
  BY <1>2 DEF CopyOpensTarget
<1>5. cmd.to \in Dirs
  BY <1>1, <1>4 DEF CommandOk
<1>6. /\ Fresh(first, 0) \in Option /\ Fresh(first, 0).truncate /\ Fresh(first, 0).min = first
  BY <1>3 DEF Fresh, Option
<1>7. /\ LInv' /\ Aside(Target) /\ at'[Target] = "lock" /\ opt'[Target] = Fresh(first, 0)
  BY <1>1, <1>4, <1>5, <1>6, ThreeSessions, OpenIndexAside
<1>8. CommandOk' /\ cmd'.kind = "copy" /\ cmd'.next = first
  BY <1>1, <1>3, <1>4 DEF CommandOk
<1>9. at'[Source] = "open"
  BY <1>4, <1>7, ThreeSessions DEF Aside
<1>10. \A h \in Heights : acked'[dir'[Target]][h] = NoBlock
  BY <1>6, <1>7, ThreeSessions, Blank
<1>11. CopyInv'
  BY <1>6, <1>7, <1>8, <1>9, <1>10 DEF CopyInv
<1>12. ImportInv'
  BY <1>8 DEF ImportInv
<1> QED
  BY <1>7, <1>8, <1>11, <1>12 DEF TInv

(* copy writes the block it has read: to a directory that is not the source. *)
LEMMA CopyBlockKeeps == ASSUME TInv, CopyBlock PROVE TInv'
<1>1. LInv /\ LTypeOK /\ CommandOk /\ CopyInv
  BY DEF TInv, LInv
<1>2. /\ cmd.kind = "copy" /\ cmd.to = NoDir /\ at[Target] = "open"
      /\ NextRead \notin {NoBlock, Failure} /\ Write(Target, cmd.next, NextRead)
      /\ cmd' = [cmd EXCEPT !.next = @ + 1]
  BY DEF CopyBlock, Copying
<1>3. PICK k \in Nat : k = cmd.next
  BY <1>1 DEF CommandOk
<1>4. /\ at[Source] = "open"
      /\ \A h \in Heights : h >= k => acked[dir[Target]][h] = NoBlock
      /\ \A h \in Heights : mem[Target].min <= h /\ h < k =>
               /\ acked[dir[Target]][h] = acked[dir[Source]][h]
               /\ acked[dir[Target]][h] # NoBlock
  BY <1>1, <1>2, <1>3 DEF CopyInv
<1>5. k \in Heights /\ NextRead = Read(Source, k)
  BY <1>2, <1>3, LifecycleAssumption DEF NextRead, Heights
<1>6. PICK v : v = acked[dir[Source]][k] /\ NextRead = v /\ v # NoBlock
  <2>1. mem[Source].min \in Nat
    BY <1>1, ThreeSessions DEF LTypeOK
  <2>2. k >= mem[Source].min
    BY <1>1, <1>2, <1>4, <1>5, <2>1, ReadIs, ThreeSessions
  <2> QED
    BY <1>1, <1>2, <1>4, <1>5, <2>2, ReadIs, ThreeSessions
<1>7. dir[Source] \in Dirs /\ dir[Target] \in Dirs /\ v \in Values
  <2>1. SessionOk(Source) /\ SessionOk(Target)
    BY <1>1, ThreeSessions DEF LInv
  <2>2. dir[Source] \in Dirs /\ dir[Target] \in Dirs
    BY <1>2, <1>4, <2>1 DEF SessionOk
  <2> QED
    BY <1>1, <1>5, <1>6, <2>2 DEF LTypeOK
<1>8. Write(Target, k, v)
  BY <1>2, <1>3, <1>6
<1>9. /\ LInv' /\ at' = at /\ dir' = dir /\ dir[Source] # dir[Target]
      /\ acked'[dir[Source]] = acked[dir[Source]]
  BY <1>1, <1>4, <1>5, <1>7, <1>8, WriteAside, ThreeSessions
<1>10. mem'[Target].min = mem[Target].min /\ acked' = [acked EXCEPT ![dir[Target]][k] = v]
  BY <1>1, <1>5, <1>7, <1>8, WriteKeeps, ThreeSessions
<1>11. /\ acked'[dir[Target]][k] = v
       /\ \A h \in Heights \ {k} : acked'[dir[Target]][h] = acked[dir[Target]][h]
  BY <1>1, <1>5, <1>7, <1>10 DEF LTypeOK
<1>12. CommandOk' /\ cmd'.kind = "copy" /\ cmd'.next = k + 1
  BY <1>1, <1>2, <1>3 DEF CommandOk
<1>13. ImportInv'
  BY <1>12 DEF ImportInv
<1>14. ASSUME NEW h \in Heights, h >= k + 1 PROVE acked'[dir[Target]][h] = NoBlock
  <2>1. h \in Nat /\ h # k /\ h >= k
    BY <1>14, LifecycleAssumption DEF Heights
  <2> QED
    BY <1>4, <1>11, <2>1
<1>15. ASSUME NEW h \in Heights, mem[Target].min <= h, h < k + 1
       PROVE  /\ acked'[dir[Target]][h] = acked'[dir[Source]][h]
              /\ acked'[dir[Target]][h] # NoBlock
  <2>1. CASE h = k
    BY <1>6, <1>9, <1>11, <2>1
  <2>2. CASE h # k
    <3>1. h < k
      BY <1>15, <2>2, LifecycleAssumption DEF Heights
    <3> QED
      BY <1>4, <1>9, <1>11, <1>15, <2>2, <3>1
  <2> QED
    BY <2>1, <2>2
<1>16. CopyInv'
  BY <1>2, <1>4, <1>9, <1>10, <1>12, <1>14, <1>15 DEF CopyInv
<1> QED
  BY <1>9, <1>12, <1>13, <1>16 DEF TInv

(* import writes a block whose parts have one height. *)
LEMMA ImportBlockKeeps == ASSUME TInv, ImportBlock PROVE TInv'
<1>1. LInv /\ LTypeOK /\ CommandOk /\ ImportInv
  BY DEF TInv, LInv
<1>2. /\ cmd.kind = "import" /\ at[Target] = "open" /\ KeysLeft /\ HeightsMatch
      /\ Write(Target, Keys[1], Range(Keys)) /\ cmd' = [cmd EXCEPT !.next = @ + 1]
  BY DEF ImportBlock, Importing
<1>3. PICK k \in Nat : k = cmd.next /\ k # 0
  BY <1>1, <1>2 DEF CommandOk, ImportInv
<1>4. PICK q \in Streams : q = cmd.streams /\ q # <<>>
  BY <1>1, <1>2 DEF CommandOk, ImportInv
<1>5. \A h \in Heights :
        acked[dir[Target]][h] = IF \E i \in 1 .. k - 1 : q[1][i] = h THEN {h} ELSE NoBlock
  BY <1>1, <1>2, <1>3, <1>4 DEF ImportInv
<1>6. PICK n \in {2, 3} : q \in [1 .. n -> Seq(Heights)]
  BY <1>4 DEF Streams
<1>7. DOMAIN q = 1 .. n /\ 1 \in 1 .. n /\ q[1] \in Seq(Heights)
  BY <1>6
<1>8. PICK x : x = q[1][k] /\ x \in Heights
  <2>1. k <= Len(q[1]) /\ Len(q[1]) \in Nat
    BY <1>2, <1>3, <1>4, <1>7 DEF KeysLeft
  <2>2. k \in 1 .. Len(q[1])
    BY <1>3, <2>1
  <2> QED
    BY <1>7, <2>2, ElementOfSeq
<1>9. Keys = [i \in 1 .. n |-> q[i][k]]
  BY <1>3, <1>4, <1>7 DEF Keys
<1>10. Keys[1] = x /\ Range(Keys) = {x}
  <2>1. DOMAIN Keys = 1 .. n /\ Keys[1] = x
    BY <1>7, <1>8, <1>9
  <2>2. \A i \in DOMAIN Keys : Keys[i] = x
    BY <1>2, <2>1 DEF HeightsMatch
  <2> QED
    BY <1>7, <2>1, <2>2 DEF Range
<1>11. Write(Target, x, {x}) /\ {x} \in Values /\ dir[Target] \in Dirs
  <2>1. SessionOk(Target)
    BY <1>1, ThreeSessions DEF LInv
  <2>2. dir[Target] \in Dirs
    BY <1>2, <2>1 DEF SessionOk
  <2>3. {x} \in Values
    BY <1>8 DEF Values
  <2> QED
    BY <1>2, <1>10, <2>2, <2>3
<1>12. /\ LInv' /\ at' = at /\ dir' = dir /\ acked' = [acked EXCEPT ![dir[Target]][x] = {x}]
  <2>1. PICK b \in Values : b = {x} /\ Write(Target, x, b)
    BY <1>11
  <2>2. x \in Heights /\ Write(Target, x, b)
    BY <1>8, <2>1
  <2>3. LInv' /\ at' = at /\ dir' = dir
    BY <1>1, <2>2, WriteAside, ThreeSessions
  <2>4. acked' = [acked EXCEPT ![dir[Target]][x] = b]
    BY <1>1, <2>2, WriteKeeps, ThreeSessions
  <2> QED
    BY <2>1, <2>3, <2>4
<1>13. /\ acked'[dir[Target]][x] = {x}
       /\ \A h \in Heights \ {x} : acked'[dir[Target]][h] = acked[dir[Target]][h]
  BY <1>1, <1>8, <1>11, <1>12 DEF LTypeOK
<1>14. CommandOk' /\ cmd'.kind = "import" /\ cmd'.next = k + 1 /\ cmd'.streams = q
  BY <1>1, <1>2, <1>3, <1>4 DEF CommandOk
<1>15. CopyInv'
  BY <1>14 DEF CopyInv
<1>16. ASSUME NEW h \in Heights
       PROVE  acked'[dir[Target]][h] = IF \E i \in 1 .. k : q[1][i] = h THEN {h} ELSE NoBlock
  <2>1. k \in 1 .. k
    BY <1>3
  <2>2. \A i \in 1 .. k : i # k => i \in 1 .. k - 1
    OBVIOUS
  <2>3. 1 .. k - 1 \subseteq 1 .. k
    OBVIOUS
  <2>4. CASE h = x
    BY <1>8, <1>13, <2>1, <2>4
  <2>5. CASE h # x
    <3>1. (\E i \in 1 .. k : q[1][i] = h) <=> \E i \in 1 .. k - 1 : q[1][i] = h
      BY <1>8, <2>2, <2>3, <2>5
    <3> QED
      BY <1>5, <1>13, <2>5, <3>1
  <2> QED
    BY <2>4, <2>5
<1>17. k + 1 # 0 /\ k + 1 - 1 = k
  OBVIOUS
<1>18. cmd'.next - 1 = k /\ cmd'.next # 0
  BY <1>14, <1>17
<1>19. \A h \in Heights :
         acked'[dir'[Target]][h] = IF \E i \in 1 .. cmd'.next - 1 : cmd'.streams[1][i] = h
                                   THEN {h} ELSE NoBlock
  BY <1>12, <1>14, <1>16, <1>18
<1>20. ImportInv'
  BY <1>2, <1>4, <1>12, <1>14, <1>18, <1>19 DEF ImportInv
<1> QED
  BY <1>12, <1>14, <1>15, <1>20 DEF TInv

(* The later steps of an open, of the tool or of a user. *)
LEMMA OpenKeeps == ASSUME TInv, NEW s \in Sessions, OpenStep(s), cmd' = cmd PROVE TInv'
<1>1. LInv /\ LTypeOK /\ CommandOk /\ CopyInv /\ ImportInv /\ SessionOk(s)
  BY DEF TInv, LInv
<1>2. LInv' /\ Aside(s) /\ acked' = acked /\ at[s] # "open"
  BY <1>1, OpenStepKeeps
<1>3. CASE s # Target
  <2>1. CommandOk' /\ CopyInv' /\ ImportInv'
    BY <1>2, <1>3, ToolAside
  <2> QED
    BY <1>2, <2>1 DEF TInv
<1>4. CASE s = Target
  <2>1. /\ at'[Source] = at[Source] /\ dir'[Source] = dir[Source]
    BY <1>2, <1>4, ThreeSessions DEF Aside
  <2>2. CommandOk'
    BY <1>1 DEF CommandOk
  <2>3. ASSUME at[Target] # "idle" => opt[Target].truncate
        PROVE  \/ at'[Target] = "idle"
               \/ /\ at[Target] # "idle" /\ at'[Target] # "open" /\ dir'[Target] = dir[Target]
                  /\ opt'[Target] = opt[Target]
               \/ /\ at[Target] # "idle" /\ at'[Target] = "open" /\ dir'[Target] = dir[Target]
                  /\ mem'[Target].min = opt[Target].min
    <3>1. CASE TryLock(s)
      BY <1>1, <1>4, <3>1 DEF TryLock, Goto, LTypeOK
    <3>2. CASE WouldBlock(s)
      BY <3>2, <1>4, GoneAside DEF WouldBlock
    <3>3. CASE RemoveFile(s)
      BY <1>4, <3>3 DEF RemoveFile
    <3>4. CASE CreateStore(s)
      BY <1>1, <1>4, <3>4 DEF CreateStore, Goto, LTypeOK
    <3>5. CASE Recover(s)
      BY <1>1, <1>4, <2>3, <3>5 DEF Recover, SessionOk
    <3>6. CASE Refuse(s)
      BY <1>1, <3>6 DEF Refuse, LTypeOK, Places
    <3> QED
      BY <3>1, <3>2, <3>3, <3>4, <3>5, <3>6 DEF OpenStep
  <2>4. at[Target] # "open"
    BY <1>2, <1>4
  <2>5. CopyInv'
    <3>1. CASE cmd.kind = "copy" /\ cmd.to = NoDir /\ at[Target] # "idle"
      <4>1. /\ at[Source] = "open"
            /\ \A h \in Heights : h >= cmd.next => acked[dir[Target]][h] = NoBlock
            /\ opt[Target].truncate /\ opt[Target].min = cmd.next
        BY <1>1, <2>4, <3>1 DEF CopyInv
      <4>2. \A h \in Heights : h \in Nat /\ cmd.next \in Nat
        BY <1>1, LifecycleAssumption DEF Heights, CommandOk
      <4>3. at'[Target] = "open" => mem'[Target].min = cmd.next
        BY <2>3, <4>1
      <4>4. at'[Target] = "open" =>
              \A h \in Heights : ~(mem'[Target].min <= h /\ h < cmd.next)
        BY <4>2, <4>3
      <4>5. at'[Target] = "idle" \/ dir'[Target] = dir[Target]
        BY <2>3, <4>1
      <4>6. at'[Target] \notin {"idle", "open"} => opt'[Target] = opt[Target]
        BY <2>3, <4>1
      <4> QED
        BY <1>2, <2>1, <4>1, <4>4, <4>5, <4>6 DEF CopyInv
    <3>2. CASE ~(cmd.kind = "copy" /\ cmd.to = NoDir /\ at[Target] # "idle")
      <4>1. at[Target] # "idle"
        BY <1>1, <1>4 DEF OpenStep, TryLock, WouldBlock, RemoveFile, CreateStore, Recover, Refuse
      <4> QED
        BY <3>2, <4>1 DEF CopyInv
    <3> QED
      BY <3>1, <3>2
  <2>6. ImportInv'
    <3>1. CASE cmd.kind = "import" /\ at[Target] # "idle"
      <4>1. /\ cmd.next # 0 /\ cmd.streams # <<>> /\ opt[Target].truncate
            /\ \A h \in Heights :
                 acked[dir[Target]][h] = IF \E i \in 1 .. cmd.next - 1 : cmd.streams[1][i] = h
                                         THEN {h} ELSE NoBlock
        BY <1>1, <2>4, <3>1 DEF ImportInv
      <4>2. at'[Target] = "idle" \/ dir'[Target] = dir[Target]
        BY <2>3, <4>1
      <4>3. at'[Target] \notin {"idle", "open"} => opt'[Target] = opt[Target]
        BY <2>3, <4>1
      <4>4. CASE at'[Target] = "idle"
        BY <4>4 DEF ImportInv
      <4>5. CASE at'[Target] # "idle"
        <5>1. \A h \in Heights :
                acked'[dir'[Target]][h] = IF \E i \in 1 .. cmd'.next - 1 : cmd'.streams[1][i] = h
                                          THEN {h} ELSE NoBlock
          BY <1>2, <4>1, <4>2, <4>5
        <5> QED
          BY <4>1, <4>3, <4>5, <5>1 DEF ImportInv
      <4> QED
        BY <4>4, <4>5
    <3>2. CASE ~(cmd.kind = "import" /\ at[Target] # "idle")
      <4>1. at[Target] # "idle"
        BY <1>1, <1>4 DEF OpenStep, TryLock, WouldBlock, RemoveFile, CreateStore, Recover, Refuse
      <4> QED
        BY <3>2, <4>1 DEF ImportInv
    <3> QED
      BY <3>1, <3>2
  <2> QED
    BY <1>2, <2>2, <2>5, <2>6 DEF TInv
<1> QED
  BY <1>3, <1>4

(* Commands that end: with a result, an error, a panic or a crash. *)
LEMMA EndKeeps ==
  ASSUME TInv, GetReturns \/ CopyEnds \/ ImportEnds \/ GivesUp \/ ToolDies
  PROVE  TInv'
<1>1. LInv
  BY DEF TInv
<1>2. Done
  BY DEF GetReturns, CopyEnds, ImportEnds, GivesUp, ToolDies
<1>3. LInv'
  <2>1. CASE GetReturns
    BY <1>1, <2>1, CloseKeeps, ThreeSessions DEF GetReturns
  <2>2. CASE CopyEnds
    BY <1>1, <2>2, CloseKeeps, ThreeSessions DEF CopyEnds
  <2>3. CASE ImportEnds
    BY <1>1, <2>3, CloseKeeps, ThreeSessions DEF ImportEnds
  <2>4. CASE GivesUp
    BY <1>1, <2>4, CloseKeeps, ThreeSessions DEF GivesUp
  <2>5. CASE ToolDies
    BY <1>1, <2>5, CrashKeeps DEF ToolDies, Crash
  <2> QED
    BY <2>1, <2>2, <2>3, <2>4, <2>5
<1> QED
  BY <1>2, <1>3, DoneKeeps

-----------------------------------------------------------------------------
(* Every step keeps the invariant. *)
LEMMA StepKeeps == ASSUME Callers, TInv, [TNext]_tvars PROVE TInv'
<1>1. CASE UserStep
  BY <1>1, UserKeeps
<1>2. ASSUME NEW s \in Sessions, OpenStep(s), UNCHANGED cmd PROVE TInv'
  BY <1>2, OpenKeeps
<1>3. CASE ToolStep
  <2>1. ASSUME NEW d \in Dirs, StartGet(d) PROVE TInv'
    BY <2>1, StartKeeps
  <2>2. ASSUME NEW d \in Dirs, NEW t \in Dirs, NEW h \in {NoStart} \union Starts,
               StartCopy(d, t, h)
        PROVE  TInv'
    BY <2>2, StartKeeps
  <2>3. ASSUME NEW t \in Dirs, NEW m \in MinHeights, NEW h \in {NoStart} \union Starts,
               NEW B \in Tables, NEW H \in Tables, NEW R \in Tables,
               StartImport(t, m, h, <<B, H>>) \/ StartImport(t, m, h, <<B, H, R>>)
        PROVE  TInv'
    <3>1. CASE StartImport(t, m, h, <<B, H>>)
      <4>1. PICK q : q = <<B, H>>
        OBVIOUS
      <4>2. DOMAIN q = 1 .. 2 /\ \A k \in 1 .. 2 : q[k] \in Tables
        BY <4>1
      <4>3. StartImport(t, m, h, q)
        BY <3>1, <4>1
      <4>4. PICK n \in {2, 3} : n = 2
        OBVIOUS
      <4> QED
        BY <4>2, <4>3, <4>4, StartImportKeeps
    <3>2. CASE StartImport(t, m, h, <<B, H, R>>)
      <4>1. PICK q : q = <<B, H, R>>
        OBVIOUS
      <4>2. DOMAIN q = 1 .. 3 /\ \A k \in 1 .. 3 : q[k] \in Tables
        BY <4>1
      <4>3. StartImport(t, m, h, q)
        BY <3>2, <4>1
      <4>4. PICK n \in {2, 3} : n = 3
        OBVIOUS
      <4> QED
        BY <4>2, <4>3, <4>4, StartImportKeeps
    <3> QED
      BY <2>3, <3>1, <3>2
  <2>4. CASE CopyOpensTarget
    BY <2>4, CopyOpensKeeps
  <2>5. CASE CopyBlock
    BY <2>5, CopyBlockKeeps
  <2>6. CASE ImportBlock
    BY <2>6, ImportBlockKeeps
  <2>7. CASE GetReturns \/ CopyEnds \/ ImportEnds \/ GivesUp \/ ToolDies
    BY <2>7, EndKeeps
  <2> QED
    BY <1>3, <2>1, <2>2, <2>3, <2>4, <2>5, <2>6, <2>7 DEF ToolStep
<1>4. CASE UNCHANGED tvars
  <2>1. /\ UNCHANGED <<index, files, at, dir, opt, mem, lock, acked>> /\ cmd' = cmd
    BY <1>4 DEF tvars, lvars
  <2>2. LTypeOK' /\ (\A s \in Sessions : SessionOk(s)') /\ \A d \in Dirs : LockOk(d)'
    BY <2>1 DEF TInv, LInv, LTypeOK, SessionOk, LockOk
  <2>3. ASSUME NEW d \in Dirs PROVE DirOk(d)'
    <3>1. DirOk(d)
      BY DEF TInv, LInv
    <3> QED
      BY <2>1, <3>1, DirSame
  <2>4. CommandOk'
    BY <2>1 DEF TInv, CommandOk
  <2>5. CopyInv'
    BY <2>1 DEF TInv, CopyInv
  <2>6. ImportInv'
    BY <2>1 DEF TInv, ImportInv
  <2> QED
    BY <2>2, <2>3, <2>4, <2>5, <2>6 DEF TInv, LInv
<1> QED
  BY <1>1, <1>2, <1>3, <1>4 DEF TNext

(* The first state. *)
LEMMA InitTInv == TInit => TInv
<1> SUFFICES ASSUME TInit PROVE TInv
  OBVIOUS
<1>1. LInv
  BY InitLInv DEF TInit
<1>2. cmd = NoCommand
  BY DEF TInit
<1>3. NoCommand \in [kind : {"none", "get", "copy", "import"}, to : Dirs \union {NoDir},
                     start : Nat \union {NoStart}, streams : Streams, next : Nat]
      /\ NoCommand.kind = "none"
  BY DEF NoCommand, Command, NoStart, Streams
<1> QED
  BY <1>1, <1>2, <1>3 DEF TInv, CommandOk, CopyInv, ImportInv

(* The invariant holds always. *)
LEMMA TInvAlways == Callers => (TSpec => []TInv)
<1> SUFFICES ASSUME Callers PROVE TSpec => []TInv
  OBVIOUS
<1>1. TInv /\ [TNext]_tvars => TInv'
  BY StepKeeps
<1> QED
  BY InitTInv, <1>1, PTL DEF TSpec

(***************************************************************************)
(* After an open with truncate no block of an earlier store is read again, *)
(* whatever crashes between the steps of Store::open: a block comes back   *)
(* at a height only if it was written there since the directory was wiped. *)
(***************************************************************************)
THEOREM TruncatedIsFresh == Callers => (TSpec => []FreshIsEmpty)
<1> SUFFICES ASSUME Callers PROVE TSpec => []FreshIsEmpty
  OBVIOUS
<1>1. TInv => FreshIsEmpty
  <2> SUFFICES ASSUME TInv, NEW s \in Sessions, at[s] = "open",
                      NEW h \in mem[s].min .. MaxHeight, acked[dir[s]][h] = NoBlock
               PROVE  Read(s, h) = NoBlock
    BY DEF FreshIsEmpty
  <2>1. LInv
    BY DEF TInv
  <2>2. h \in Heights /\ h >= mem[s].min
    BY <2>1, HeightsAbove
  <2> QED
    BY <2>1, <2>2, ReadIs
<1> QED
  BY <1>1, TInvAlways, PTL

(***************************************************************************)
(* The order of truncation, lock, removal and header in Store::open does   *)
(* no harm to an open store: every block that was acknowledged is read     *)
(* back, also by a session that recovers the directory after a crash, and  *)
(* no recovery refuses the directory.                                      *)
(***************************************************************************)
THEOREM OpenStoreSafe == Callers => (TSpec => []LiveStoreIntact)
<1> SUFFICES ASSUME Callers PROVE TSpec => []LiveStoreIntact
  OBVIOUS
<1>1. TInv => LiveStoreIntact
  <2> SUFFICES ASSUME TInv, NEW s \in Sessions, at[s] \in {"open", "refused"},
                      NEW h \in Heights, acked[dir[s]][h] # NoBlock
               PROVE  at[s] = "open" /\ Read(s, h) = acked[dir[s]][h]
    BY DEF LiveStoreIntact
  <2>1. LInv /\ LTypeOK
    BY DEF TInv, LInv
  <2>2. at[s] = "open"
    BY <2>1 DEF LTypeOK, Places
  <2>3. h \in Nat /\ mem[s].min \in Nat
    BY <2>1, LifecycleAssumption DEF Heights, LTypeOK
  <2>4. h >= mem[s].min
    BY <2>1, <2>2, <2>3, ReadIs
  <2> QED
    BY <2>1, <2>2, <2>4, ReadIs
<1> QED
  BY <1>1, TInvAlways, PTL

(***************************************************************************)
(* While copy runs, the target reads back exactly the blocks of the source *)
(* from the start to the height before the next one, without a gap, and    *)
(* nothing above, beside a user of either directory.                       *)
(***************************************************************************)
THEOREM CopyIsExact == Callers => (TSpec => []CopyExact)
<1> SUFFICES ASSUME Callers PROVE TSpec => []CopyExact
  OBVIOUS
<1>1. TInv => CopyExact
  <2> SUFFICES ASSUME TInv, Copying, NEW h \in mem[Target].min .. MaxHeight
               PROVE  IF h < cmd.next
                      THEN Read(Target, h) = Read(Source, h) /\ Read(Target, h) # NoBlock
                      ELSE Read(Target, h) = NoBlock
    BY DEF CopyExact
  <2>1. LInv /\ LTypeOK /\ CommandOk /\ CopyInv
    BY DEF TInv, LInv
  <2>2. cmd.kind = "copy" /\ cmd.to = NoDir /\ at[Target] = "open"
    BY DEF Copying
  <2>3. /\ at[Source] = "open"
        /\ \A g \in Heights : g >= cmd.next => acked[dir[Target]][g] = NoBlock
        /\ \A g \in Heights : mem[Target].min <= g /\ g < cmd.next =>
             /\ acked[dir[Target]][g] = acked[dir[Source]][g]
             /\ acked[dir[Target]][g] # NoBlock
    BY <2>1, <2>2 DEF CopyInv
  <2>4. h \in Heights /\ h >= mem[Target].min
    BY <2>1, HeightsAbove, ThreeSessions
  <2>5. h \in Nat /\ cmd.next \in Nat /\ mem[Target].min \in Nat /\ mem[Source].min \in Nat
    <3>1. h \in Nat
      BY <2>4, LifecycleAssumption DEF Heights
    <3>2. cmd.next \in Nat
      BY <2>1 DEF CommandOk
    <3>3. mem[Target].min \in Nat /\ mem[Source].min \in Nat
      BY <2>1, ThreeSessions DEF LTypeOK
    <3> QED
      BY <3>1, <3>2, <3>3
  <2>6. Read(Target, h) = acked[dir[Target]][h]
    BY <2>1, <2>2, <2>4, ReadIs, ThreeSessions
  <2>7. CASE h < cmd.next
    <3>1. acked[dir[Target]][h] = acked[dir[Source]][h] /\ acked[dir[Target]][h] # NoBlock
      BY <2>3, <2>4, <2>5, <2>7
    <3>2. h >= mem[Source].min
      BY <2>1, <2>3, <2>4, <2>5, <3>1, ReadIs, ThreeSessions
    <3>3. Read(Source, h) = acked[dir[Source]][h]
      BY <2>1, <2>3, <2>4, <3>2, ReadIs, ThreeSessions
    <3> QED
      BY <2>6, <2>7, <3>1, <3>3
  <2>8. CASE ~(h < cmd.next)
    BY <2>3, <2>4, <2>5, <2>6, <2>8
  <2> QED
    BY <2>7, <2>8
<1> QED
  BY <1>1, TInvAlways, PTL

(***************************************************************************)
(* While import runs, the target reads back a block at the heights of the  *)
(* keys met so far and nowhere else, each with the parts of its own height *)
(* alone, for any tables of bodies, headers and receipts.                  *)
(***************************************************************************)
THEOREM ImportIsExact == Callers => (TSpec => []ImportExact)
<1> SUFFICES ASSUME Callers PROVE TSpec => []ImportExact
  OBVIOUS
<1>1. TInv => ImportExact
  <2> SUFFICES ASSUME TInv, Importing, NEW h \in mem[Target].min .. MaxHeight
               PROVE  Read(Target, h) = IF \E i \in 1 .. cmd.next - 1 : cmd.streams[1][i] = h
                                        THEN {h} ELSE NoBlock
    BY DEF ImportExact
  <2>1. LInv /\ ImportInv
    BY DEF TInv
  <2>2. cmd.kind = "import" /\ at[Target] = "open"
    BY DEF Importing
  <2>3. h \in Heights /\ h >= mem[Target].min
    BY <2>1, HeightsAbove, ThreeSessions
  <2>4. Read(Target, h) = acked[dir[Target]][h]
    BY <2>1, <2>2, <2>3, ReadIs, ThreeSessions
  <2> QED
    BY <2>1, <2>2, <2>3, <2>4 DEF ImportInv
<1> QED
  BY <1>1, TInvAlways, PTL

=============================================================================
