-------------------------- MODULE BlockStoreProofs --------------------------
(***************************************************************************)
(* Theorems about the store as a whole, for every number of writers, every *)
(* cap on the file size, every size of block and every bound.              *)
(*                                                                         *)
(* Space is never handed out twice, whatever crashes and recoveries        *)
(* precede it.  In sessions that end with a shutdown (Tidy) the store is a *)
(* HeightMap, the bytes behind an index entry never change and, if         *)
(* min_height is above 0, the floor is right, for any interleaving of      *)
(* writers and any of their I/O errors.  The chunked scan of the index     *)
(* stops below the first gap.  Every variable keeps its range.             *)
(*                                                                         *)
(* With one writer and one data file (Solo) the data file is a log, and    *)
(* all of this holds with crashes at any point, of a recovery too: open    *)
(* accepts the store, nothing acknowledged is lost, and the floor that is  *)
(* found again is exact.  With two writers, or with several data files,    *)
(* crashes make some of it false (README, section 4).                      *)
(*                                                                         *)
(* The lemmas about the allocator and the floor alone are those of         *)
(* ReservationProofs and ContiguityProofs, instantiated as the store       *)
(* instantiates the two modules.                                           *)
(***************************************************************************)
EXTENDS BlockStore, OrderLemmas, SequenceTheorems

RP == INSTANCE ReservationProofs WITH
        Sizes <- {s + HeaderSize : s \in Sizes}, Start <- 0
CP == INSTANCE ContiguityProofs WITH ZeroEntry <- NoEntry

-----------------------------------------------------------------------------
(* What holds in every state, also with crashes. *)

Stages == {"idle", "resolve", "payload", "header", "release", "publish", "advance",
           "decide", "load", "loadfloor", "write", "store"}

(* The stages in which a writer holds its reservation. *)
Holding == {"resolve", "payload", "header", "release"}

Job == [height : Heights, block : Block, offset : Offsets, saved : Nat, alone : BOOLEAN]

(* n cells at o do not cross the end of a data file. *)
Fits(o, n) == Cap # 0 => (o % Cap) + n <= Cap

(* The locals of a writer belong to the extent that it reserved. *)
Working(w) ==
  /\ pc[w] = "idle" => job[w] = NoJob
  /\ pc[w] # "idle" =>
       /\ job[w] \in Job
       /\ job[w].saved = job[w].offset + HeaderSize + job[w].block.size
       /\ job[w].saved <= MaxOffset
       /\ Fits(job[w].offset, HeaderSize + job[w].block.size)
  /\ pc[w] \in Holding =>
       R!Holds(w) /\ rsv[w].offset = job[w].offset /\ rsv[w].end = job[w].saved
  /\ pc[w] \notin Holding => ~R!Holds(w)

Window == [file : Int, start : Nat, buf : Seq(Cell), room : Nat]
Scan == [next : Nat, end : Nat, progress : Nat, window : Window]

(* No data file reaches beyond its cap or the last offset. *)
FilesFit ==
  \A f \in Files : /\ Absent <= flen[f] /\ f * Cap + flen[f] <= MaxOffset
                   /\ Cap # 0 => flen[f] <= Cap

DiskSound ==
  /\ index \in [Heights -> Entry \union {NoEntry}]
  /\ DOMAIN header = {"next_write_offset", "max_height", "highest_contiguous"}
  /\ header.next_write_offset \in Nat
  /\ data \in [Offsets -> Cell]
  /\ flen \in [Files -> Int] /\ FilesFit

LocalTypes ==
  /\ pc \in [Writers -> Stages] /\ job \in [Writers -> Job \union {NoJob}]
  /\ scan \in Scan

(* The read-ahead window v is a copy of a part of a data file. *)
WindowExact(v) ==
  v.buf # <<>> =>
    /\ v.file \in Files /\ v.start + Len(v.buf) <= flen[v.file]
    /\ \A i \in 1 .. Len(v.buf) : v.buf[i] = data[v.file * Cap + v.start + i - 1]

(* Nobody works on a store that is not open. *)
Closed == mode # "open" => AllIdle /\ landed = {} /\ holes = {}

ScanFits ==
  mode \in {"recovering", "progress"} =>
    /\ scan.end <= MaxOffset /\ (Cap # 0 => scan.end <= (MaxFileIndex + 1) * Cap)
    /\ WindowExact(scan.window)

SInv ==
  /\ RP!RInv /\ DiskSound /\ LocalTypes /\ Closed /\ ScanFits
  /\ \A w \in Writers : Working(w)

-----------------------------------------------------------------------------
(* The instances satisfy the assumptions of the modules they instantiate. *)

(* A header has at least one byte. *)
LEMMA HeaderNat == HeaderSize \in Nat /\ HeaderSize >= 1
BY BlockStoreAssumption

(* The constants of the store satisfy what the allocator assumes of them. *)
LEMMA AllocatorAssumption == RP!ReservationAssumption /\ R!ReservationAssumption
<1>1. {s + HeaderSize : s \in Sizes} \subseteq Nat \ {0}
  BY BlockStoreAssumption
<1> QED
  BY <1>1, BlockStoreAssumption DEF RP!ReservationAssumption, R!ReservationAssumption

(* The constants satisfy the assumptions of the floor's module, whose lemmas are used below. *)
LEMMA FloorAssumption == CP!ContiguityAssumption /\ CP!ZeroEntryAssumption
<1>1. NoEntry \notin Entry
  BY BlockStoreAssumption DEF NoEntry, Entry
<1> QED
  BY <1>1, BlockStoreAssumption DEF CP!ContiguityAssumption, CP!ZeroEntryAssumption

-----------------------------------------------------------------------------
(* Offsets and files. *)

(***************************************************************************)
(* Resolving an offset never leads beyond it, and leads to it exactly      *)
(* while the file index does not saturate.                                 *)
(***************************************************************************)
LEMMA SplitFacts ==
  ASSUME NEW o \in Nat
  PROVE  /\ FileOf(o) \in Nat /\ FileOf(o) <= MaxFileIndex /\ LocalOffset(o) \in Nat
         /\ FileOf(o) * Cap \in Nat /\ FileOf(o) * Cap + LocalOffset(o) <= o
         /\ Cap = 0 => FileOf(o) = 0
         /\ Cap # 0 => LocalOffset(o) = o % Cap /\ o % Cap < Cap
         /\ Cap = 0 \/ o < (MaxFileIndex + 1) * Cap => FileOf(o) * Cap + LocalOffset(o) = o
<1>0. Cap \in Nat /\ MaxFileIndex \in Nat
  BY BlockStoreAssumption
<1>1. CASE Cap = 0
  <2>1. FileOf(o) = 0 /\ LocalOffset(o) = o
    BY <1>1 DEF FileOf, LocalOffset, R!SplitOffset
  <2> QED
    BY <1>0, <1>1, <2>1
<1>2. CASE Cap # 0
  <2> DEFINE q == o \div Cap
  <2>1. q \in Nat /\ o = Cap * q + (o % Cap) /\ o % Cap \in 0 .. Cap - 1
    BY <1>0, <1>2
  <2>2. FileOf(o) = (IF q <= MaxFileIndex THEN q ELSE MaxFileIndex) /\ LocalOffset(o) = o % Cap
    BY <1>2 DEF FileOf, LocalOffset, R!SplitOffset
  <2> HIDE DEF q
  <2>3. CASE q <= MaxFileIndex
    <3>1. FileOf(o) * Cap = Cap * q /\ Cap * q \in Nat
      BY <1>0, <2>1, <2>2, <2>3
    <3> QED
      BY <1>0, <1>2, <2>1, <2>2, <2>3, <3>1
  <2>4. CASE ~(q <= MaxFileIndex)
    <3>1. PICK d \in Nat : q = MaxFileIndex + 1 + d
      <4>1. q - MaxFileIndex - 1 \in Nat /\ q = MaxFileIndex + 1 + (q - MaxFileIndex - 1)
        BY <1>0, <2>1, <2>4
      <4> QED
        BY <4>1
    <3>2. Cap * q = MaxFileIndex * Cap + Cap + Cap * d
      BY <1>0, <3>1
    <3>3. MaxFileIndex * Cap \in Nat /\ Cap * d \in Nat
          /\ (MaxFileIndex + 1) * Cap = MaxFileIndex * Cap + Cap
      BY <1>0, <3>1
    <3>4. FileOf(o) = MaxFileIndex /\ FileOf(o) * Cap = MaxFileIndex * Cap
      BY <2>2, <2>4
    <3> QED
      BY <1>0, <1>2, <2>1, <2>2, <3>2, <3>3, <3>4
  <2> QED
    BY <2>3, <2>4
<1> QED
  BY <1>1, <1>2

(* Every offset lies in a data file of the store, and the file numbers stay within the limit of
   resolve_file. *)
LEMMA FilesFacts ==
  /\ \A o \in Offsets : FileOf(o) \in Files
  /\ \A f \in Files : f \in Nat /\ f <= MaxFileIndex /\ f * Cap \in Nat /\ (Cap = 0 => f = 0)
<1>1. ASSUME NEW f \in Files
      PROVE  f \in Nat /\ f <= MaxFileIndex /\ f * Cap \in Nat /\ (Cap = 0 => f = 0)
  <2>1. PICK o \in Offsets : f = FileOf(o)
    BY DEF Files
  <2>2. o \in Nat
    BY BlockStoreAssumption DEF Offsets
  <2> QED
    BY <2>1, <2>2, SplitFacts
<1> QED
  BY <1>1 DEF Files

(* An offset of the data is a natural number below the end of the last file. *)
LEMMA OffsetFacts == \A o \in Offsets : o \in Nat /\ o < MaxOffset
BY BlockStoreAssumption DEF Offsets

(***************************************************************************)
(* Writing n cells at o, or creating its file, lets the file grow within   *)
(* its limits and shortens none.                                           *)
(***************************************************************************)
LEMMA GrowthFits ==
  ASSUME flen \in [Files -> Int], FilesFit, NEW o \in Offsets, NEW n \in Nat,
         o + n <= MaxOffset, Fits(o, n),
         \/ flen' = Grown(o, n)
         \/ flen' = [flen EXCEPT ![FileOf(o)] = Larger(@, 0)]
         \/ flen' = flen
  PROVE  /\ flen' \in [Files -> Int] /\ FilesFit'
         /\ \A f \in Files : flen[f] <= flen'[f]
         /\ flen' = Grown(o, n) /\ n # 0 => LocalOffset(o) + n <= flen'[FileOf(o)]
<1> DEFINE g == FileOf(o)
           l == LocalOffset(o)
<1>1. Cap \in Nat /\ MaxOffset \in Nat /\ o \in Nat
  BY OffsetFacts, BlockStoreAssumption
<1>2. g \in Files /\ g * Cap \in Nat /\ l \in Nat /\ g * Cap + l <= o
      /\ (Cap # 0 => l = o % Cap /\ l < Cap)
  BY <1>1, FilesFacts, SplitFacts
<1>3. flen[g] \in Int /\ flen[g] >= Absent /\ g * Cap + flen[g] <= MaxOffset
      /\ (Cap # 0 => flen[g] <= Cap)
  BY <1>2 DEF FilesFit
<1>4. Absent \in Int
  BY DEF Absent
<1> HIDE DEF g, l
<1>5. ASSUME NEW m \in {flen[g], Larger(flen[g], 0), Larger(flen[g], l + n)}
      PROVE  m \in Int /\ flen[g] <= m /\ g * Cap + m <= MaxOffset /\ (Cap # 0 => m <= Cap)
  BY <1>1, <1>2, <1>3, <1>4 DEF Larger, Fits
<1>6. PICK m \in {flen[g], Larger(flen[g], 0), Larger(flen[g], l + n)} :
         /\ flen' = [flen EXCEPT ![g] = m]
         /\ flen' = Grown(o, n) /\ n # 0 => m = Larger(flen[g], l + n)
  <2>1. CASE flen' = Grown(o, n) /\ n # 0
    BY <2>1 DEF Grown, g, l
  <2>2. CASE flen' = Grown(o, n) /\ n = 0
    BY <2>2 DEF Grown, g
  <2>3. CASE flen' # Grown(o, n)
    BY <2>3 DEF g
  <2> QED
    BY <2>1, <2>2, <2>3
<1>7. m \in Int /\ flen[g] <= m /\ g * Cap + m <= MaxOffset /\ (Cap # 0 => m <= Cap)
  BY <1>5
<1>8. flen' \in [Files -> Int] /\ flen'[g] = m /\ \A f \in Files : f # g => flen'[f] = flen[f]
  BY <1>2, <1>6, <1>7
<1>9. \A f \in Files : flen[f] <= flen'[f]
  BY <1>7, <1>8
<1>10. FilesFit'
  <2> SUFFICES ASSUME NEW f \in Files
               PROVE  /\ Absent <= flen'[f] /\ f * Cap + flen'[f] <= MaxOffset
                      /\ Cap # 0 => flen'[f] <= Cap
    BY DEF FilesFit
  <2>1. CASE f = g
    BY <1>3, <1>4, <1>7, <1>8, <2>1
  <2>2. CASE f # g
    BY <1>8, <2>2 DEF FilesFit
  <2> QED
    BY <2>1, <2>2
<1>11. ASSUME flen' = Grown(o, n), n # 0 PROVE l + n <= flen'[g]
  <2>1. m = Larger(flen[g], l + n)
    BY <1>6, <1>11, Zenon
  <2>2. flen'[g] = m /\ l + n \in Int
    BY <1>2, <1>8
  <2> QED
    BY <1>3, <2>1, <2>2 DEF Larger
<1> QED
  BY <1>8, <1>9, <1>10, <1>11 DEF g, l

-----------------------------------------------------------------------------
(* The read-ahead window of the recovery scan. *)

(* What the scan reads of a file is a sequence of the cells it holds. *)
LEMMA FileCellsAre ==
  ASSUME data \in [Offsets -> Cell], flen \in [Files -> Int], FilesFit, NEW f \in Files,
         flen[f] \in Nat
  PROVE  /\ FileCells(f) \in Seq(Cell) /\ Len(FileCells(f)) = flen[f]
         /\ \A i \in 1 .. flen[f] : FileCells(f)[i] = data[f * Cap + i - 1]
<1>1. f * Cap \in Nat /\ f * Cap + flen[f] <= MaxOffset /\ MaxOffset \in Nat
  BY FilesFacts, BlockStoreAssumption DEF FilesFit
<1>2. \A i \in 1 .. flen[f] : f * Cap + i - 1 \in Offsets
  BY <1>1 DEF Offsets
<1>3. FileCells(f) \in [1 .. flen[f] -> Cell]
  BY <1>2 DEF FileCells
<1> QED
  BY <1>3 DEF FileCells

(***************************************************************************)
(* ScanWindow::read is exact: whatever the window held before, as long as  *)
(* it was a copy of some file, the read returns the n cells at o of file f *)
(* and leaves a copy of a file behind.                                     *)
(***************************************************************************)
LEMMA WindowRead ==
  ASSUME data \in [Offsets -> Cell], flen \in [Files -> Int], FilesFit,
         NEW v \in Window, WindowExact(v),
         NEW f \in Files, NEW o \in Nat, NEW n \in Nat \ {0}, o + n <= flen[f],
         NEW u, u = W!After(v, f, o, n, FileCells(f))
  PROVE  /\ u \in Window /\ WindowExact(u)
         /\ W!Bytes(u, o, n) \in Seq(Cell) /\ Len(W!Bytes(u, o, n)) = n
         /\ \A i \in 1 .. n : W!Bytes(u, o, n)[i] = data[f * Cap + o + i - 1]
<1>1. f \in Nat /\ f * Cap \in Nat /\ flen[f] \in Nat
  BY FilesFacts
<1> DEFINE cells == FileCells(f)
<1>2. cells \in Seq(Cell) /\ Len(cells) = flen[f]
      /\ \A i \in 1 .. flen[f] : cells[i] = data[f * Cap + i - 1]
  BY <1>1, FileCellsAre
<1>3. v.file \in Int /\ v.start \in Nat /\ v.buf \in Seq(Cell) /\ v.room \in Nat
  BY DEF Window
<1>4. /\ u \in Window /\ WindowExact(u)
      /\ u.file = f /\ u.start <= o /\ o + n <= u.start + Len(u.buf)
  <2>1. CASE W!Resident(v, f, o, n)
    BY <2>1 DEF W!After, W!Resident
  <2>2. CASE ~W!Resident(v, f, o, n)
    <3> DEFINE room == IF n > v.room THEN n ELSE v.room
               want == IF Len(cells) - o < room THEN Len(cells) - o ELSE room
               b == SubSeq(cells, o + 1, o + want)
    <3>1. room \in Nat /\ n <= room
      BY <1>3
    <3>2. want \in Nat /\ n <= want /\ o + want <= flen[f]
      BY <1>1, <1>2, <3>1
    <3>3. u = [file |-> f, start |-> o, buf |-> b, room |-> room]
      BY <2>2 DEF W!After, W!Refill
    <3> HIDE DEF room, want, cells
    <3>4. \A i \in o + 1 .. o + want : cells[i] \in Cell
      BY <1>2, <3>2
    <3>5. /\ b \in Seq(Cell)
          /\ Len(b) = IF o + 1 <= o + want THEN (o + want) - (o + 1) + 1 ELSE 0
          /\ \A i \in 1 .. (o + want) - (o + 1) + 1 : b[i] = cells[(o + 1) + i - 1]
      BY <3>2, <3>4, <1>2, SubSeqProperties
    <3> HIDE DEF b
    <3>6. Len(b) = want /\ \A i \in 1 .. want : b[i] = cells[o + i]
      <4>1. (o + want) - (o + 1) + 1 = want /\ o + 1 <= o + want
            /\ \A i \in 1 .. want : (o + 1) + i - 1 = o + i
        BY <3>2
      <4> QED
        BY <3>5, <4>1
    <3>7. \A i \in 1 .. want : b[i] = data[f * Cap + o + i - 1]
      <4> SUFFICES ASSUME NEW i \in 1 .. want PROVE b[i] = data[f * Cap + o + i - 1]
        OBVIOUS
      <4>1. o + i \in 1 .. flen[f] /\ f * Cap + (o + i) - 1 = f * Cap + o + i - 1
        BY <1>1, <3>2
      <4> QED
        BY <1>2, <3>6, <4>1
    <3>8. u \in Window
      BY <1>1, <3>1, <3>3, <3>5 DEF Window
    <3>9. WindowExact(u)
      BY <3>2, <3>3, <3>6, <3>7 DEF WindowExact
    <3> QED
      BY <3>2, <3>3, <3>6, <3>8, <3>9
  <2> QED
    BY <2>1, <2>2
<1>5. u.start \in Nat /\ u.buf \in Seq(Cell) /\ Len(u.buf) \in Nat
  BY <1>4 DEF Window
<1> DEFINE k == o - u.start
<1>6. k \in Nat /\ k + n <= Len(u.buf) /\ o = u.start + k
  BY <1>4, <1>5
<1>7. W!Bytes(u, o, n) = SubSeq(u.buf, k + 1, k + n)
  BY DEF W!Bytes
<1> HIDE DEF k
<1>8. /\ SubSeq(u.buf, k + 1, k + n) \in Seq(Cell)
      /\ Len(SubSeq(u.buf, k + 1, k + n)) = IF k + 1 <= k + n THEN (k + n) - (k + 1) + 1 ELSE 0
      /\ \A i \in 1 .. (k + n) - (k + 1) + 1 :
           SubSeq(u.buf, k + 1, k + n)[i] = u.buf[(k + 1) + i - 1]
  <2>1. \A i \in k + 1 .. k + n : u.buf[i] \in Cell
    BY <1>5, <1>6
  <2>2. k + 1 \in Int /\ k + n \in Int
    BY <1>6
  <2> QED
    BY <2>1, <2>2, SubSeqProperties
<1>9. (k + n) - (k + 1) + 1 = n /\ k + 1 <= k + n
      /\ \A i \in 1 .. n : (k + 1) + i - 1 = k + i
  BY <1>6
<1>10. \A i \in 1 .. n : W!Bytes(u, o, n)[i] = u.buf[k + i]
  BY <1>7, <1>8, <1>9
<1>11. u.buf # <<>>
  BY <1>5, <1>6
<1>12. ASSUME NEW i \in 1 .. n PROVE u.buf[k + i] = data[f * Cap + o + i - 1]
  <2> DEFINE P == f * Cap
             st == u.start
             len == Len(u.buf)
  <2>1. P \in Nat /\ st \in Nat /\ len \in Nat /\ k \in Nat /\ k + n <= len /\ o = st + k
    BY <1>1, <1>5, <1>6
  <2> HIDE DEF P, st, len
  <2>2. k + i \in 1 .. len /\ P + st + (k + i) - 1 = P + o + i - 1
    BY <2>1
  <2>3. \A j \in 1 .. len : u.buf[j] = data[P + st + j - 1]
    BY <1>4, <1>11 DEF WindowExact, P, st, len
  <2> QED
    BY <2>2, <2>3 DEF P
<1> QED
  BY <1>4, <1>7, <1>8, <1>9, <1>10, <1>12

-----------------------------------------------------------------------------
(* Some cells on, and the space that a reservation gives. *)

(* The cell k cells after o is in the same file, unless the file ends before it. *)
LEMMA SplitNext ==
  ASSUME NEW o \in Nat, NEW k \in Nat, Cap # 0 => (o % Cap) + k < Cap
  PROVE  FileOf(o + k) = FileOf(o) /\ LocalOffset(o + k) = LocalOffset(o) + k
<1>1. CASE Cap = 0
  BY <1>1 DEF FileOf, LocalOffset, R!SplitOffset
<1>2. CASE Cap # 0
  <2> DEFINE q == o \div Cap
             r == o % Cap
  <2>1. Cap \in Nat /\ Cap > 0
    BY <1>2, BlockStoreAssumption
  <2>2. q \in Nat /\ o = Cap * q + r /\ r \in Nat /\ r + k < Cap /\ Cap * q \in Nat
    BY <1>2, <2>1
  <2> HIDE DEF q, r
  <2>3. o + k = Cap * q + (r + k) /\ r + k \in Nat
    BY <2>2
  <2>4. (Cap * q + (r + k)) \div Cap = q
    BY <1>2, <2>2, <2>3, RP!FileOfOffset, AllocatorAssumption
  <2>5. (o + k) \div Cap = q
    BY <2>3, <2>4
  <2>6. o + k = Cap * q + ((o + k) % Cap)
    BY <2>1, <2>2, <2>5
  <2>7. (o + k) % Cap = r + k
    BY <2>1, <2>2, <2>3, <2>6
  <2> QED
    BY <1>2, <2>5, <2>7 DEF FileOf, LocalOffset, R!SplitOffset, q, r
<1> QED
  BY <1>1, <1>2

(* Where reserve_space puts a block, it does not cross the end of a file. *)
LEMMA ReservedFits ==
  ASSUME NEW c \in Nat, NEW n \in Nat \ {0}, R!CanReserve(c, n)
  PROVE  /\ R!WriteOffset(c, n) \in Nat /\ c <= R!WriteOffset(c, n)
         /\ R!WriteOffset(c, n) + n <= MaxOffset
         /\ Fits(R!WriteOffset(c, n), n)
<1>1. R!WriteOffset(c, n) + n <= MaxOffset /\ (Cap # 0 => n <= Cap)
  BY DEF R!CanReserve
<1>2. CASE R!FitsInFile(c, n)
  BY <1>1, <1>2 DEF R!WriteOffset, R!FitsInFile, Fits
<1>3. CASE ~R!FitsInFile(c, n)
  <2> DEFINE q == c \div Cap
             x == (q + 1) * Cap
  <2>1. Cap \in Nat /\ Cap > 0
    BY <1>3, BlockStoreAssumption DEF R!FitsInFile
  <2>2. R!WriteOffset(c, n) = x
    BY <1>3 DEF R!WriteOffset, R!NextFileStart
  <2>3. q \in Nat /\ c = Cap * q + (c % Cap) /\ c % Cap \in 0 .. Cap - 1 /\ Cap * q \in Nat
    BY <2>1
  <2> HIDE DEF q
  <2>4. x = Cap * q + Cap /\ x = Cap * (q + 1) + 0 /\ x \in Nat /\ q + 1 \in Nat
    BY <2>1, <2>3
  <2>5. (Cap * (q + 1) + 0) \div Cap = q + 1
    BY <2>1, <2>4, RP!FileOfOffset, AllocatorAssumption
  <2> HIDE DEF x
  <2>6. x \div Cap = q + 1
    BY <2>4, <2>5
  <2>7. x = Cap * (x \div Cap) + (x % Cap) /\ x % Cap \in 0 .. Cap - 1
    BY <2>1, <2>4
  <2>8. x % Cap = 0
    BY <2>1, <2>3, <2>4, <2>6, <2>7
  <2>9. Fits(x, n)
    BY <1>1, <2>1, <2>8 DEF Fits
  <2>10. c <= x
    <3> DEFINE y == Cap * q
    <3>1. y \in Nat /\ x = y + Cap /\ c = y + (c % Cap) /\ c % Cap \in 0 .. Cap - 1
      BY <2>3, <2>4
    <3> HIDE DEF y
    <3> QED
      BY <2>1, <3>1
  <2> QED
    BY <1>1, <2>2, <2>4, <2>9, <2>10
<1> QED
  BY <1>2, <1>3

-----------------------------------------------------------------------------
(* Cells. *)

USE HeaderNat

(* The cells that a block is written as are cells. *)
LEMMA CellTypes ==
  /\ ZeroCell \in Cell /\ TornCell \in Cell
  /\ \A h \in Heights, b \in Block : HeaderCell(h, b) \in Cell
  /\ \A h \in Heights, b \in Block, i \in 0 .. HeaderSize - 1 : HeaderPart(h, b, i) \in Cell
  /\ \A h \in Heights, b \in Block, i \in 1 .. MaxOffset : PayloadCell(h, b, i) \in Cell
<1>1. ASSUME NEW h \in Heights, NEW b \in Block, NEW i \in 0 .. HeaderSize - 1
      PROVE  HeaderPart(h, b, i) \in Cell
  <2>1. i = 0 \/ i \in 1 .. HeaderSize - 1
    OBVIOUS
  <2> QED
    BY <2>1 DEF HeaderPart, Cell
<1> QED
  BY <1>1 DEF Cell

(* A cell tagged as a header holds a height and a block. *)
LEMMA CellKinds ==
  ASSUME NEW c \in Cell
  PROVE  c.kind = "header" =>
           \E h \in Heights, b \in Block :
             c = HeaderCell(h, b) /\ c.height = h /\ c.block = b
BY DEF Cell, ZeroCell, TornCell, HeaderCell, RestCell, PayloadCell

(* A block has at least one byte of payload. *)
LEMMA BlockFacts ==
  \A b \in Block : b.id \in Ids /\ b.size \in Sizes /\ b.size \in Nat /\ b.size > 0
<1>1. \A s \in Sizes : s \in Nat /\ s > 0
  BY BlockStoreAssumption
<1>2. \A b \in Block : b.id \in Ids /\ b.size \in Sizes
  BY DEF Block
<1> QED
  BY <1>1, <1>2

(* The fields of a write under way have their types. *)
LEMMA JobFacts ==
  ASSUME NEW j \in Job
  PROVE  /\ j.height \in Heights /\ j.block \in Block /\ j.offset \in Offsets
         /\ j.saved \in Nat /\ j.alone \in BOOLEAN
BY DEF Job

(* Writing the first n bytes of a payload leaves cells in the file. *)
LEMMA PayloadTyped ==
  ASSUME data \in [Offsets -> Cell], NEW w \in Writers, job[w] \in Job, NEW n \in Nat
  PROVE  WithPayload(w, n) \in [Offsets -> Cell]
<1>1. job[w].height \in Heights /\ job[w].block \in Block /\ job[w].offset \in Nat
  BY JobFacts, OffsetFacts
<1>2. ASSUME NEW c \in Offsets, NEW i \in 1 .. n, i = c - (job[w].offset + HeaderSize - 1)
      PROVE  PayloadCell(job[w].height, job[w].block, i) \in Cell
  <2>1. i \in 1 .. MaxOffset
    BY <1>1, <1>2, OffsetFacts, BlockStoreAssumption
  <2> QED
    BY <1>1, <2>1, CellTypes
<1> QED
  BY <1>2 DEF WithPayload

(* Writing the first n bytes of a header leaves cells in the file. *)
LEMMA HeaderTypedCells ==
  ASSUME data \in [Offsets -> Cell], NEW w \in Writers, job[w] \in Job,
         NEW n \in 0 .. HeaderSize
  PROVE  WithHeader(w, n) \in [Offsets -> Cell]
<1>1. job[w].height \in Heights /\ job[w].block \in Block /\ job[w].offset \in Nat
  BY JobFacts, OffsetFacts
<1>2. ASSUME NEW c \in Offsets, NEW i \in 0 .. n - 1, i = c - job[w].offset
      PROVE  HeaderPart(job[w].height, job[w].block, i) \in Cell
  <2>1. i \in 0 .. HeaderSize - 1
    OBVIOUS
  <2> QED
    BY <1>1, <2>1, CellTypes
<1> QED
  BY <1>2 DEF WithHeader

-----------------------------------------------------------------------------
(* What the recovery scan reads. *)

(***************************************************************************)
(* Through its window the scan reads the cells at scan.next: header and    *)
(* payload of a block are looked for where write_block puts them.          *)
(***************************************************************************)
LEMMA ScanReads ==
  ASSUME SInv, Scanning, Covered(scan.next, HeaderSize)
  PROVE  /\ scan.next \in Offsets /\ HeaderRead = data[scan.next]
         /\ \A i \in 0 .. HeaderSize - 1 : HeaderCells[i + 1] = data[scan.next + i]
         /\ HeaderCells \in Seq(Cell) /\ Len(HeaderCells) = HeaderSize
         /\ AfterHeader \in Window /\ WindowExact(AfterHeader)
<1> DEFINE o == scan.next
           f == FileOf(o)
           l == LocalOffset(o)
<1>1. /\ data \in [Offsets -> Cell] /\ flen \in [Files -> Int] /\ FilesFit
      /\ scan.window \in Window /\ WindowExact(scan.window)
      /\ o \in Nat /\ scan.end \in Nat /\ scan.end <= MaxOffset
      /\ Cap # 0 => scan.end <= (MaxFileIndex + 1) * Cap
  BY DEF SInv, DiskSound, LocalTypes, ScanFits, Scanning, Scan
<1>2. o < scan.end /\ f \in Files
  BY DEF Scanning, OnDisk
<1>3. o \in Offsets
  BY <1>1, <1>2, BlockStoreAssumption DEF Offsets
<1>4. l \in Nat /\ f * Cap \in Nat /\ f * Cap + l = o
  <2>1. Cap # 0 => o < (MaxFileIndex + 1) * Cap
    <3>1. (MaxFileIndex + 1) * Cap \in Nat
      BY BlockStoreAssumption
    <3> QED
      BY <1>1, <1>2, <3>1
  <2> QED
    BY <1>1, <2>1, SplitFacts
<1>5. l + HeaderSize <= flen[f]
  BY DEF Covered
<1>6. /\ AfterHeader = W!After(scan.window, f, l, HeaderSize, FileCells(f))
      /\ HeaderCells = W!Bytes(AfterHeader, l, HeaderSize)
  BY DEF AfterHeader, ReadThrough, HeaderCells
<1> HIDE DEF o, f, l
<1>7. /\ AfterHeader \in Window /\ WindowExact(AfterHeader)
      /\ HeaderCells \in Seq(Cell) /\ Len(HeaderCells) = HeaderSize
      /\ \A i \in 1 .. HeaderSize : HeaderCells[i] = data[f * Cap + l + i - 1]
  <2> DEFINE n == HeaderSize
             u == AfterHeader
             v == scan.window
  <2>1. n \in Nat \ {0} /\ l + n <= flen[f] /\ v \in Window /\ WindowExact(v)
    BY <1>1, <1>5
  <2>2. u = W!After(v, f, l, n, FileCells(f))
    BY <1>6
  <2> HIDE DEF n, u, v
  <2>3. /\ u \in Window /\ WindowExact(u)
        /\ W!Bytes(u, l, n) \in Seq(Cell) /\ Len(W!Bytes(u, l, n)) = n
        /\ \A i \in 1 .. n : W!Bytes(u, l, n)[i] = data[f * Cap + l + i - 1]
    BY <1>1, <1>2, <1>4, <2>1, <2>2, WindowRead, SMTT(30)
  <2> QED
    BY <1>6, <2>3 DEF n, u
<1>8. ASSUME NEW i \in 0 .. HeaderSize - 1 PROVE HeaderCells[i + 1] = data[o + i]
  <2> DEFINE P == f * Cap
  <2>1. P \in Nat /\ P + l = o /\ \A k \in 1 .. HeaderSize : HeaderCells[k] = data[P + l + k - 1]
    BY <1>4, <1>7
  <2> HIDE DEF P
  <2>2. P + l + (i + 1) - 1 = o + i /\ i + 1 \in 1 .. HeaderSize
    BY <1>4, <2>1
  <2> QED
    BY <2>1, <2>2
<1>9. HeaderCells[1] = data[o]
  <2>1. 0 \in 0 .. HeaderSize - 1 /\ 0 + 1 = 1 /\ o + 0 = o
    BY <1>1
  <2> QED
    BY <1>8, <2>1
<1> QED
  BY <1>3, <1>7, <1>8, <1>9 DEF HeaderRead, o

(***************************************************************************)
(* A block that the scan accepts is whole in the data file.                *)
(***************************************************************************)
LEMMA ScanAccepts ==
  ASSUME SInv, Scanning, BlockNext
  PROVE  \E h \in Heights, b \in Block :
           /\ HeaderRead = HeaderCell(h, b) /\ HeaderRead.height = h /\ HeaderRead.block = b
           /\ scan.next \in Offsets /\ data[scan.next] = HeaderCell(h, b)
           /\ HeaderAt(scan.next, h, b)
           /\ Intact(scan.next, h, b) /\ Covered(scan.next, HeaderSize + b.size)
           /\ scan.next + HeaderSize + b.size <= MaxOffset
           /\ AfterPayload(b.size) \in Window /\ WindowExact(AfterPayload(b.size))
<1>1. /\ scan.next \in Offsets /\ HeaderRead = data[scan.next]
      /\ AfterHeader \in Window /\ WindowExact(AfterHeader)
  BY ScanReads DEF BlockNext
<1>2. /\ data \in [Offsets -> Cell] /\ flen \in [Files -> Int] /\ FilesFit
  BY DEF SInv, DiskSound
<1>3. PICK h \in Heights, b \in Block :
        HeaderRead = HeaderCell(h, b) /\ HeaderRead.height = h /\ HeaderRead.block = b
  BY <1>1, <1>2, CellKinds DEF BlockNext
<1>4. b.size \in Nat /\ b.size > 0
  BY BlockFacts
<1>5. /\ Covered(scan.next, HeaderSize + b.size)
      /\ PayloadRead(b.size) = [i \in 1 .. b.size |-> PayloadCell(h, b, i)]
  BY <1>3 DEF BlockNext
<1> DEFINE o == scan.next
           f == FileOf(o)
           l == LocalOffset(o)
<1>6. o \in Nat /\ f \in Files /\ l \in Nat /\ f * Cap \in Nat /\ f * Cap + l <= o
      /\ (Cap # 0 => l = o % Cap)
  BY <1>1, OffsetFacts, FilesFacts, SplitFacts
<1>7. flen[f] \in Int /\ (Cap # 0 => flen[f] <= Cap) /\ f * Cap + flen[f] <= MaxOffset
      /\ l + (HeaderSize + b.size) <= flen[f]
  BY <1>2, <1>5, <1>6 DEF FilesFit, Covered
<1>8. Cap \in Nat /\ MaxOffset \in Nat /\ MaxFileIndex \in Nat
  BY BlockStoreAssumption
<1>9. f * Cap + l = o
  <2>1. scan.end \in Nat /\ (Cap # 0 => scan.end <= (MaxFileIndex + 1) * Cap) /\ o < scan.end
    BY DEF SInv, DiskSound, LocalTypes, ScanFits, Scanning, Scan
  <2>2. (MaxFileIndex + 1) * Cap \in Nat
    BY <1>8
  <2>3. Cap # 0 => o < (MaxFileIndex + 1) * Cap
    BY <1>6, <2>1, <2>2
  <2> QED
    BY <1>6, <2>3, SplitFacts
<1> HIDE DEF f, l
<1>10. o + HeaderSize + b.size <= MaxOffset
  <2> DEFINE P == f * Cap
  <2>1. P \in Nat /\ P + l = o /\ P + flen[f] <= MaxOffset
    BY <1>6, <1>7, <1>9
  <2> HIDE DEF P, o
  <2> QED
    BY <1>4, <1>6, <1>7, <1>8, <2>1
<1>11. FileOf(o + HeaderSize) = f /\ LocalOffset(o + HeaderSize) = l + HeaderSize
  <2>1. Cap # 0 => (o % Cap) + HeaderSize < Cap
    BY <1>4, <1>6, <1>7, <1>8
  <2> QED
    BY <1>6, <2>1, SplitNext DEF f, l
<1> DEFINE u == AfterPayload(b.size)
<1>12. u = W!After(AfterHeader, f, l + HeaderSize, b.size, FileCells(f))
  BY <1>11 DEF AfterPayload, ReadThrough
<1>13. PayloadRead(b.size) = W!Bytes(u, l + HeaderSize, b.size)
  BY DEF PayloadRead, l
<1> HIDE DEF u, o
<1>14. /\ u \in Window /\ WindowExact(u)
       /\ \A i \in 1 .. b.size : W!Bytes(u, l + HeaderSize, b.size)[i] = data[f * Cap + (l + HeaderSize) + i - 1]
  <2> DEFINE m == l + HeaderSize
             n == b.size
  <2>1. m \in Nat /\ n \in Nat \ {0} /\ m + n <= flen[f]
    BY <1>4, <1>6, <1>7
  <2>2. u = W!After(AfterHeader, f, m, n, FileCells(f))
    BY <1>12
  <2> HIDE DEF m, n
  <2>3. /\ u \in Window /\ WindowExact(u)
        /\ \A i \in 1 .. n : W!Bytes(u, m, n)[i] = data[f * Cap + m + i - 1]
    BY <1>1, <1>2, <1>6, <2>1, <2>2, WindowRead, SMTT(30)
  <2> QED
    BY <2>3 DEF m, n
<1>15. ASSUME NEW i \in 1 .. b.size PROVE data[o + HeaderSize - 1 + i] = PayloadCell(h, b, i)
  <2> DEFINE P == f * Cap
  <2>1. P \in Nat /\ P + l = o
    BY <1>6, <1>9
  <2>2. P + (l + HeaderSize) + i - 1 = o + HeaderSize - 1 + i
    <3> HIDE DEF P
    <3> QED
      BY <1>4, <1>6, <2>1
  <2>3. W!Bytes(u, l + HeaderSize, b.size)[i] = data[P + (l + HeaderSize) + i - 1]
    BY <1>14
  <2>4. W!Bytes(u, l + HeaderSize, b.size)[i] = PayloadCell(h, b, i)
    BY <1>5, <1>13
  <2> HIDE DEF P
  <2> QED
    BY <2>2, <2>3, <2>4
<1>16. Intact(scan.next, h, b)
  BY <1>15 DEF Intact, o
<1>17. HeaderAt(scan.next, h, b)
  <2>1. HeaderCells = [i \in 1 .. HeaderSize |-> HeaderPart(h, b, i - 1)]
    BY <1>3 DEF BlockNext
  <2>2. \A i \in 0 .. HeaderSize - 1 : HeaderCells[i + 1] = data[scan.next + i]
    BY ScanReads DEF BlockNext
  <2>3. ASSUME NEW i \in 0 .. HeaderSize - 1
        PROVE  data[scan.next + i] = HeaderPart(h, b, i)
    <3>1. i + 1 \in 1 .. HeaderSize /\ (i + 1) - 1 = i
      OBVIOUS
    <3> QED
      BY <2>1, <2>2, <3>1
  <2> QED
    BY <2>3 DEF HeaderAt
<1> QED
  BY <1>1, <1>3, <1>5, <1>10, <1>14, <1>16, <1>17 DEF u, o

(***************************************************************************)
(* The end of the data that the layout check computes is within bounds.    *)
(***************************************************************************)
LEMMA LayoutEndFits ==
  ASSUME flen \in [Files -> Int], FilesFit
  PROVE  /\ LayoutEnd \in Nat /\ LayoutEnd <= MaxOffset
         /\ Cap # 0 => LayoutEnd <= (MaxFileIndex + 1) * Cap
<1>1. Cap \in Nat /\ MaxOffset \in Nat /\ MaxFileIndex \in Nat
  BY BlockStoreAssumption
<1>2. CASE OnDisk = {}
  <2>1. LayoutEnd = 0 /\ (MaxFileIndex + 1) * Cap \in Nat
    BY <1>1, <1>2 DEF LayoutEnd
  <2> QED
    BY <1>1, <2>1
<1>3. CASE OnDisk # {}
  <2>1. OnDisk \subseteq Int /\ \A f \in OnDisk : f <= MaxFileIndex
    BY FilesFacts DEF OnDisk
  <2>2. Max(OnDisk) \in OnDisk /\ \A y \in OnDisk : y <= Max(OnDisk)
    <3>1. MaxFileIndex \in Int
      BY <1>1
    <3> QED
      BY <1>3, <2>1, <3>1, MaxOfBounded
  <2>3. LastFile \in OnDisk
    BY <2>2 DEF LastFile
  <2> DEFINE f == LastFile
             P == f * Cap
  <2>4. f \in Files /\ flen[f] # Absent /\ f \in Nat /\ f <= MaxFileIndex /\ P \in Nat
    BY <2>3, FilesFacts DEF OnDisk
  <2>5. LayoutEnd = P + flen[f]
    BY <1>3 DEF LayoutEnd
  <2> HIDE DEF f
  <2>6. /\ flen[f] \in Int /\ flen[f] >= 0
        /\ P + flen[f] <= MaxOffset /\ (Cap # 0 => flen[f] <= Cap)
    BY <2>4 DEF FilesFit, Absent
  <2>7. P + Cap <= (MaxFileIndex + 1) * Cap /\ (MaxFileIndex + 1) * Cap \in Nat
    <3>1. PICK d \in Nat : MaxFileIndex = f + d
      <4>1. MaxFileIndex - f \in Nat /\ MaxFileIndex = f + (MaxFileIndex - f)
        BY <1>1, <2>4
      <4> QED
        BY <4>1
    <3>2. (MaxFileIndex + 1) * Cap = P + d * Cap + Cap /\ d * Cap \in Nat
      BY <1>1, <2>4, <3>1
    <3> HIDE DEF P
    <3> QED
      BY <1>1, <2>4, <3>2
  <2> HIDE DEF P
  <2> QED
    BY <1>1, <2>4, <2>5, <2>6, <2>7
<1> QED
  BY <1>2, <1>3

-----------------------------------------------------------------------------
(* The steps of the allocator. *)

(* A reservation keeps RInv and hands out space that fits, above the highwater. *)
LEMMA ReserveEffect ==
  ASSUME RP!RInv, NEW w \in Writers, NEW s \in Sizes, R!ReserveSpace(w, HeaderSize + s)
  PROVE  /\ RP!RInv' /\ ~R!Holds(w) /\ R!Holds(w)'
         /\ rsv'[w].prev = data_highwater
         /\ rsv'[w].offset \in Nat /\ data_highwater <= rsv'[w].offset
         /\ rsv'[w].end = rsv'[w].offset + HeaderSize + s /\ rsv'[w].end <= MaxOffset
         /\ Fits(rsv'[w].offset, HeaderSize + s)
         /\ data_highwater \in Nat /\ data_highwater' = rsv'[w].end
         /\ \A v \in Writers \ {w} : rsv'[v] = rsv[v]
         /\ landed' = landed /\ holes' = holes
<1> DEFINE n == HeaderSize + s
           o == R!WriteOffset(data_highwater, n)
<1>1. n \in Nat \ {0} /\ n \in {t + HeaderSize : t \in Sizes} /\ s \in Nat
  <2>1. s \in Nat /\ s > 0
    BY BlockStoreAssumption
  <2>2. HeaderSize + s = s + HeaderSize
    BY <2>1
  <2> QED
    BY <2>1, <2>2
<1>2. data_highwater \in Nat /\ rsv \in [Writers -> RP!Extent]
  BY DEF RP!RInv, RP!RTypeOK
<1>3. RP!ReserveSpace(w, n)
  BY DEF R!ReserveSpace, RP!ReserveSpace, R!Holds, RP!Holds, R!CanReserve, RP!CanReserve,
         R!FitsInFile, RP!FitsInFile, R!WriteOffset, RP!WriteOffset,
         R!NextFileStart, RP!NextFileStart
<1>4. /\ R!CanReserve(data_highwater, n) /\ ~R!Holds(w)
      /\ rsv' = [rsv EXCEPT ![w] = [prev |-> data_highwater, offset |-> o, end |-> o + n]]
      /\ data_highwater' = o + n /\ landed' = landed /\ holes' = holes
  BY DEF R!ReserveSpace
<1> HIDE DEF n
<1>5. RP!RInv'
  BY <1>1, <1>3, RP!ReserveKeepsRInv, AllocatorAssumption
<1>6. o \in Nat /\ data_highwater <= o /\ o + n <= MaxOffset /\ Fits(o, n)
  BY <1>1, <1>2, <1>4, ReservedFits
<1> HIDE DEF o
<1>7. rsv'[w] = [prev |-> data_highwater, offset |-> o, end |-> o + n]
      /\ \A v \in Writers \ {w} : rsv'[v] = rsv[v]
  BY <1>2, <1>4
<1>8. R!Holds(w)' /\ o + n = o + HeaderSize + s
  <2>1. o + n = o + HeaderSize + s /\ o + n # 0
    BY <1>1, <1>6 DEF n
  <2> QED
    BY <1>7, <2>1 DEF R!Holds
<1> QED
  BY <1>2, <1>4, <1>5, <1>6, <1>7, <1>8 DEF n

(* A finished write gives up its reservation and leaves the mark and the other reservations
   alone. *)
LEMMA LandEffect ==
  ASSUME RP!RInv, NEW w \in Writers, R!Land(w)
  PROVE  /\ RP!RInv' /\ R!Holds(w) /\ ~R!Holds(w)'
         /\ data_highwater' = data_highwater
         /\ \A v \in Writers \ {w} : rsv'[v] = rsv[v]
<1>1. RP!Land(w)
  BY DEF R!Land, RP!Land, R!Holds, RP!Holds, R!NoReservation, RP!NoReservation
<1>2. rsv \in [Writers -> RP!Extent] /\ rsv' = [rsv EXCEPT ![w] = R!NoReservation]
      /\ data_highwater' = data_highwater /\ R!Holds(w)
  BY DEF RP!RInv, RP!RTypeOK, R!Land
<1>3. ~R!Holds(w)'
  BY <1>2 DEF R!Holds, R!NoReservation
<1> QED
  BY <1>1, <1>2, <1>3, RP!LandKeepsRInv, AllocatorAssumption

(* release_reservation lowers the mark only when nobody reserved after this writer, and only to
   the start of its reservation. *)
LEMMA ReleaseEffect ==
  ASSUME RP!RInv, NEW w \in Writers, R!ReleaseReservation(w)
  PROVE  /\ RP!RInv' /\ R!Holds(w) /\ ~R!Holds(w)'
         /\ \/ data_highwater = rsv[w].end /\ data_highwater' = rsv[w].prev
            \/ data_highwater' = data_highwater
         /\ \A v \in Writers \ {w} : rsv'[v] = rsv[v]
<1>1. RP!ReleaseReservation(w)
  BY DEF R!ReleaseReservation, RP!ReleaseReservation, R!Holds, RP!Holds,
         R!NoReservation, RP!NoReservation
<1>2. rsv \in [Writers -> RP!Extent] /\ rsv' = [rsv EXCEPT ![w] = R!NoReservation] /\ R!Holds(w)
  BY DEF RP!RInv, RP!RTypeOK, R!ReleaseReservation
<1>3. ~R!Holds(w)'
  BY <1>2 DEF R!Holds, R!NoReservation
<1>4. \/ data_highwater = rsv[w].end /\ data_highwater' = rsv[w].prev
      \/ data_highwater' = data_highwater
  BY DEF R!ReleaseReservation
<1> QED
  BY <1>1, <1>2, <1>3, <1>4, RP!ReleaseKeepsRInv, AllocatorAssumption

(* A step that leaves the allocator alone keeps its invariant. *)
LEMMA ReserveSame == RP!RInv /\ UNCHANGED reserve => RP!RInv'
BY RP!RNextKeepsRInv, AllocatorAssumption DEF reserve, RP!rvars

(* Nothing is reserved when a session begins at n. *)
LEMMA ReserveFresh ==
  ASSUME NEW n \in Nat, data_highwater' = n, rsv' = [w \in Writers |-> R!NoReservation],
         landed' = {}, holes' = {}
  PROVE  RP!RInv' /\ \A w \in Writers : ~R!Holds(w)'
BY DEF RP!RInv, RP!RTypeOK, RP!Extent, RP!Holds, RP!Settled, R!Holds, R!NoReservation

-----------------------------------------------------------------------------
(* The steps of a writer keep SInv. *)

(* A step that leaves the files alone leaves them sound. *)
LEMMA DiskSame == DiskSound /\ UNCHANGED disk => DiskSound'
BY DEF DiskSound, FilesFit, disk

(* Who runs is in an open store. *)
LEMMA WriterOpen ==
  ASSUME SInv, NEW w \in Writers, pc[w] # "idle"
  PROVE  mode = "open" /\ job[w] \in Job /\ Working(w)
BY DEF SInv, Closed, AllIdle, Working

(* write_block neither opens nor closes the store. *)
LEMMA WriterSession ==
  ASSUME SInv, NEW w \in Writers,
         (\E h \in Heights, b \in Block : BeginWrite(w, h, b)) \/ WriterStep(w) \/ WriterFault(w)
  PROVE  mode = "open" /\ mode' = "open" /\ scan' = scan
<1>1. UNCHANGED session
  BY DEF BeginWrite, BeginWriteOf, WriterStep, WriterFault, Resolve, WritePayload, WriteHeader,
         Publish, AdvanceFloor, RaiseHighwater, NoCheckpointDue, CheckpointDue, CheckpointLoad,
         CheckpointWrite, CheckpointStore, ResolveFails, PayloadFails, HeaderFails,
         ReleaseReservation, PublishFails, CheckpointFails
<1>2. mode = "open"
  <2>1. CASE \E h \in Heights, b \in Block : BeginWrite(w, h, b)
    BY <2>1 DEF BeginWrite, BeginWriteOf
  <2>2. CASE WriterStep(w) \/ WriterFault(w)
    <3>1. pc[w] # "idle"
      BY <2>2
         DEF WriterStep, WriterFault, Resolve, WritePayload, WriteHeader, Publish, AdvanceFloor,
             RaiseHighwater, NoCheckpointDue, CheckpointDue, CheckpointLoad, CheckpointWrite,
             CheckpointStore, ResolveFails, PayloadFails, HeaderFails, ReleaseReservation,
             PublishFails, CheckpointFails
    <3> QED
      BY <3>1, WriterOpen
  <2> QED
    BY <2>1, <2>2
<1> QED
  BY <1>1, <1>2 DEF session

(* A step of w touches the locals and the reservation of w only. *)
LEMMA WriterKeeps ==
  ASSUME SInv, mode = "open", UNCHANGED session, NEW w \in Writers, NEW p \in Stages,
         Goto(w, p), \A v \in Writers \ {w} : rsv'[v] = rsv[v] /\ job'[v] = job[v],
         job' \in [Writers -> Job \union {NoJob}],
         RP!RInv', DiskSound', Working(w)'
  PROVE  SInv'
<1>1. pc \in [Writers -> Stages] /\ scan \in Scan
  BY DEF SInv, LocalTypes
<1>2. pc' \in [Writers -> Stages] /\ \A v \in Writers \ {w} : pc'[v] = pc[v]
  BY <1>1 DEF Goto
<1>3. LocalTypes'
  BY <1>1, <1>2 DEF LocalTypes, session
<1>4. Closed' /\ ScanFits'
  BY DEF Closed, ScanFits, session
<1>5. ASSUME NEW v \in Writers PROVE Working(v)'
  <2>1. CASE v # w
    BY <1>2, <2>1 DEF SInv, Working, R!Holds
  <2> QED
    BY <2>1
<1> QED
  BY <1>3, <1>4, <1>5 DEF SInv

(* A step that leaves the job and the reservation of w alone. *)
LEMMA StageKeeps ==
  ASSUME SInv, UNCHANGED <<session, reserve, job>>, NEW w \in Writers, pc[w] # "idle",
         NEW p \in Stages \ {"idle"}, Goto(w, p), pc[w] \in Holding <=> p \in Holding,
         DiskSound'
  PROVE  SInv'
<1>1. mode = "open" /\ Working(w) /\ pc \in [Writers -> Stages]
      /\ job \in [Writers -> Job \union {NoJob}] /\ RP!RInv
  BY WriterOpen DEF SInv, LocalTypes
<1>2. pc'[w] = p
  BY <1>1 DEF Goto
<1>3. Working(w)'
  BY <1>1, <1>2 DEF Working, R!Holds, reserve
<1>4. RP!RInv'
  BY <1>1, ReserveSame DEF reserve
<1>5. rsv' = rsv /\ job' = job /\ UNCHANGED session
  BY DEF reserve
<1> QED
  BY <1>1, <1>3, <1>4, <1>5, WriterKeeps

(* write_block returns: w holds nothing any more. *)
LEMMA ReturnKeeps ==
  ASSUME SInv, UNCHANGED session, NEW w \in Writers, pc[w] # "idle", Return(w),
         RP!RInv', ~R!Holds(w)', \A v \in Writers \ {w} : rsv'[v] = rsv[v], DiskSound'
  PROVE  SInv'
<1>1. mode = "open" /\ pc \in [Writers -> Stages] /\ job \in [Writers -> Job \union {NoJob}]
  BY WriterOpen DEF SInv, LocalTypes
<1>2. pc'[w] = "idle" /\ job'[w] = NoJob /\ Goto(w, "idle")
      /\ job' \in [Writers -> Job \union {NoJob}]
      /\ \A v \in Writers \ {w} : job'[v] = job[v]
  BY <1>1 DEF Return, Goto
<1>3. Working(w)'
  BY <1>2 DEF Working, Holding
<1> QED
  BY <1>1, <1>2, <1>3, WriterKeeps DEF Stages

(* An idle writer has no flag to clear. *)
LEMMA SameAlone == [NoJob EXCEPT !.alone = TRUE] = NoJob
<1>1. ASSUME NEW h, NEW b, NEW o, NEW s, NEW t
      PROVE  [[height |-> h, block |-> b, offset |-> o, saved |-> s, alone |-> t] EXCEPT !.alone = t]
               = [height |-> h, block |-> b, offset |-> o, saved |-> s, alone |-> t]
  OBVIOUS
<1>2. PICK t : t = TRUE
  OBVIOUS
<1>3. NoJob = [height |-> 0, block |-> Nothing, offset |-> 0, saved |-> 0, alone |-> t]
  BY <1>2, Zenon DEF NoJob
<1>4. [NoJob EXCEPT !.alone = t] = NoJob
  BY <1>1, <1>3
<1> QED
  BY <1>2, <1>4, Zenon

(* BeginWrite changes of the other jobs only whether they are alone. *)
LEMMA OtherJobs ==
  ASSUME SInv, NEW v \in Writers, NEW a \in BOOLEAN, pc[v] = "idle" => a = TRUE,
         job'[v] = [job[v] EXCEPT !.alone = a]
  PROVE  /\ job'[v] \in Job \union {NoJob}
         /\ pc[v] = "idle" => job'[v] = NoJob
         /\ pc[v] # "idle" => /\ job'[v] \in Job
                              /\ job'[v].height = job[v].height
                              /\ job'[v].block = job[v].block
                              /\ job'[v].offset = job[v].offset
                              /\ job'[v].saved = job[v].saved
<1>1. CASE pc[v] = "idle"
  <2>1. job[v] = NoJob
    BY <1>1 DEF SInv, Working
  <2>2. job'[v] = NoJob
    <3>1. job'[v] = [NoJob EXCEPT !.alone = TRUE]
      BY <1>1, <2>1
    <3> QED
      BY <3>1, SameAlone
  <2> QED
    BY <1>1, <2>2
<1>2. CASE pc[v] # "idle"
  <2>1. job[v] \in Job
    BY <1>2, WriterOpen
  <2> QED
    BY <1>2, <2>1 DEF Job
<1> QED
  BY <1>1, <1>2

(* Entering write_block changes nothing of the other writers but the ghost flag alone. *)
LEMMA BeginWriteJobs ==
  ASSUME SInv, NEW w \in Writers, NEW h \in Heights, NEW b \in Block, BeginWrite(w, h, b),
         NEW v \in Writers \ {w}
  PROVE  /\ job'[v] \in Job \union {NoJob} /\ pc'[v] = pc[v]
         /\ pc[v] = "idle" => job'[v] = NoJob
         /\ pc[v] # "idle" => /\ job'[v] \in Job
                              /\ job'[v].height = job[v].height
                              /\ job'[v].block = job[v].block
                              /\ job'[v].offset = job[v].offset
                              /\ job'[v].saved = job[v].saved
<1>1. /\ Goto(w, "resolve") /\ pc \in [Writers -> Stages]
      /\ job'[v] = [job[v] EXCEPT !.alone = @ /\ v \notin InFlight(h)]
  BY DEF BeginWrite, BeginWriteOf, SInv, LocalTypes
<1>2. PICK a \in BOOLEAN : a = (job[v].alone /\ v \notin InFlight(h))
  OBVIOUS
<1>3. job'[v] = [job[v] EXCEPT !.alone = a]
  BY <1>1, <1>2
<1>4. ASSUME pc[v] = "idle" PROVE a = TRUE
  <2>1. job[v] = NoJob /\ v \notin InFlight(h)
    BY <1>4 DEF SInv, Working, InFlight
  <2>2. job[v].alone = TRUE
    BY <2>1 DEF NoJob
  <2> QED
    BY <1>2, <2>1, <2>2, Zenon
<1>5. pc'[v] = pc[v]
  BY <1>1 DEF Goto
<1> QED
  BY <1>3, <1>4, <1>5, OtherJobs

(* Entering write_block, with its check of the height and its reservation, keeps the invariant.
   *)
LEMMA BeginWriteKeeps ==
  ASSUME SInv, NEW w \in Writers, NEW h \in Heights, NEW b \in Block, BeginWrite(w, h, b)
  PROVE  SInv'
<1>1. /\ mode = "open" /\ pc[w] = "idle" /\ R!ReserveSpace(w, HeaderSize + b.size)
      /\ UNCHANGED <<disk, session>> /\ Goto(w, "resolve")
      /\ job' = [v \in Writers |->
               IF v = w
               THEN [height |-> h, block |-> b, offset |-> rsv'[w].offset,
                     saved |-> rsv'[w].end, alone |-> InFlight(h) = {}]
               ELSE [job[v] EXCEPT !.alone = @ /\ v \notin InFlight(h)]]
  BY DEF BeginWrite, BeginWriteOf
<1>2. b.size \in Sizes /\ b.size \in Nat /\ b.size > 0
  BY BlockFacts
<1>3. /\ RP!RInv' /\ R!Holds(w)'
      /\ rsv'[w].offset \in Nat
      /\ rsv'[w].end = rsv'[w].offset + HeaderSize + b.size /\ rsv'[w].end <= MaxOffset
      /\ Fits(rsv'[w].offset, HeaderSize + b.size)
      /\ \A v \in Writers \ {w} : rsv'[v] = rsv[v]
  BY <1>1, <1>2, ReserveEffect DEF SInv
<1>4. /\ job'[w].height = h /\ job'[w].block = b /\ job'[w].offset = rsv'[w].offset
      /\ job'[w].saved = rsv'[w].end /\ job'[w] \in Job
  <2>1. rsv'[w].offset \in Offsets /\ rsv'[w].end \in Nat
    BY <1>2, <1>3, BlockStoreAssumption DEF Offsets
  <2>2. job'[w] = [height |-> h, block |-> b, offset |-> rsv'[w].offset,
                   saved |-> rsv'[w].end, alone |-> InFlight(h) = {}]
    BY <1>1
  <2> QED
    BY <2>1, <2>2 DEF Job
<1>6. ASSUME NEW v \in Writers \ {w}
      PROVE  /\ job'[v] \in Job \union {NoJob}
             /\ pc[v] = "idle" => job'[v] = NoJob
             /\ pc[v] # "idle" => /\ job'[v] \in Job
                                  /\ job'[v].block = job[v].block
                                  /\ job'[v].offset = job[v].offset
                                  /\ job'[v].saved = job[v].saved
  BY BeginWriteJobs
<1>7. job' \in [Writers -> Job \union {NoJob}]
  <2>1. \A v \in Writers : job'[v] \in Job \union {NoJob}
    BY <1>4, <1>6
  <2> QED
    BY <1>1, <2>1
<1>8. pc \in [Writers -> Stages] /\ scan \in Scan
  BY DEF SInv, LocalTypes
<1>9. pc' \in [Writers -> Stages] /\ pc'[w] = "resolve" /\ \A v \in Writers \ {w} : pc'[v] = pc[v]
  BY <1>1, <1>8 DEF Goto, Stages
<1>10. LocalTypes' /\ Closed' /\ ScanFits' /\ DiskSound'
  BY <1>1, <1>7, <1>8, <1>9, DiskSame DEF LocalTypes, Closed, ScanFits, session, SInv
<1>11. ASSUME NEW v \in Writers PROVE Working(v)'
  <2>1. CASE v = w
    BY <1>3, <1>4, <1>9, <2>1 DEF Working, Holding
  <2>2. CASE v # w
    <3>1. Working(v)
      BY DEF SInv
    <3> QED
      BY <1>3, <1>6, <1>9, <2>2, <3>1 DEF Working, R!Holds
  <2> QED
    BY <2>1, <2>2
<1> QED
  BY <1>3, <1>10, <1>11 DEF SInv

(* What a job of a writer that holds its extent says of the files. *)
LEMMA JobSpan ==
  ASSUME SInv, NEW w \in Writers, pc[w] # "idle"
  PROVE  /\ job[w].offset \in Offsets /\ job[w].height \in Heights /\ job[w].block \in Block
         /\ job[w].block.size \in Nat /\ job[w].block.size > 0 /\ job[w].offset \in Nat
         /\ job[w].saved = job[w].offset + HeaderSize + job[w].block.size
         /\ job[w].offset + (HeaderSize + job[w].block.size) <= MaxOffset
         /\ \A n \in 0 .. HeaderSize + job[w].block.size :
              job[w].offset + n <= MaxOffset /\ Fits(job[w].offset, n)
<1>1. job[w] \in Job /\ Working(w)
  BY WriterOpen
<1>2. /\ job[w].offset \in Offsets /\ job[w].height \in Heights /\ job[w].block \in Block
      /\ job[w].block.size \in Nat /\ job[w].block.size > 0
  BY <1>1, JobFacts, BlockFacts
<1>3. /\ job[w].saved = job[w].offset + HeaderSize + job[w].block.size
      /\ job[w].saved <= MaxOffset /\ Fits(job[w].offset, HeaderSize + job[w].block.size)
  BY <1>1 DEF Working
<1>4. job[w].offset \in Nat /\ MaxOffset \in Nat /\ Cap \in Nat
  BY <1>2, OffsetFacts, BlockStoreAssumption
<1>5. Cap # 0 => job[w].offset % Cap \in Nat
  BY <1>4
<1> QED
  BY <1>2, <1>3, <1>4, <1>5 DEF Fits

(* A write to the data files within the extent of w, and growth of its file. *)
LEMMA DataWriteSound ==
  ASSUME SInv, NEW w \in Writers, pc[w] # "idle", UNCHANGED <<index, header>>,
         data' \in [Offsets -> Cell],
         NEW n \in 0 .. HeaderSize + job[w].block.size,
         \/ flen' = Grown(job[w].offset, n)
         \/ flen' = [flen EXCEPT ![FileOf(job[w].offset)] = Larger(@, 0)]
         \/ flen' = flen
  PROVE  DiskSound'
<1>1. PICK o \in Offsets : o = job[w].offset
  BY JobSpan
<1>2. o + n <= MaxOffset /\ Fits(o, n) /\ n \in Nat
  BY <1>1, JobSpan
<1>3. \/ flen' = Grown(o, n)
      \/ flen' = [flen EXCEPT ![FileOf(o)] = Larger(@, 0)]
      \/ flen' = flen
  BY <1>1
<1>4. flen \in [Files -> Int] /\ FilesFit /\ DiskSound
  BY DEF SInv, DiskSound
<1>5. flen' \in [Files -> Int] /\ FilesFit'
  BY <1>2, <1>3, <1>4, GrowthFits
<1> QED
  BY <1>4, <1>5 DEF DiskSound

(* resolve_file keeps the invariant, whether or not it refuses the file number. *)
LEMMA ResolveKeeps ==
  ASSUME SInv, NEW w \in Writers, Resolve(w) \/ ResolveFails(w)
  PROVE  SInv'
<1>1. /\ pc[w] = "resolve" /\ UNCHANGED <<index, header, data, session, reserve, job>>
      /\ Goto(w, "payload") \/ Goto(w, "release")
      /\ flen' = [flen EXCEPT ![FileOf(job[w].offset)] = Larger(@, 0)] \/ flen' = flen
  BY DEF Resolve, ResolveFails, BreakOff
<1>2. 0 \in 0 .. HeaderSize + job[w].block.size /\ data' \in [Offsets -> Cell]
  BY <1>1, JobSpan DEF SInv, DiskSound
<1>3. DiskSound'
  BY <1>1, <1>2, DataWriteSound
<1> QED
  BY <1>1, <1>3, StageKeeps DEF Stages, Holding

(* Writing the payload, in full or short, keeps the invariant: the bytes fall inside the
   reservation. *)
LEMMA PayloadKeeps ==
  ASSUME SInv, NEW w \in Writers, WritePayload(w) \/ PayloadFails(w)
  PROVE  SInv'
<1>1. /\ pc[w] = "payload" /\ UNCHANGED <<index, header, session, reserve, job>>
      /\ Goto(w, "header") \/ Goto(w, "release")
      /\ \E n \in 0 .. job[w].block.size :
           /\ data' = WithPayload(w, n)
           /\ flen' = Grown(job[w].offset, HeaderSize + n) \/ flen' = flen
  <2>1. CASE WritePayload(w)
    <3>1. job[w].block.size \in 0 .. job[w].block.size
      BY <2>1, JobSpan DEF WritePayload
    <3> QED
      BY <2>1, <3>1 DEF WritePayload
  <2>2. CASE PayloadFails(w)
    <3>1. PICK n \in 0 .. job[w].block.size - 1 :
            /\ data' = WithPayload(w, n)
            /\ flen' = IF n = 0 THEN flen ELSE Grown(job[w].offset, HeaderSize + n)
      BY <2>2 DEF PayloadFails
    <3>2. n \in 0 .. job[w].block.size
      BY <2>2, JobSpan DEF PayloadFails
    <3> QED
      BY <2>2, <3>1, <3>2 DEF PayloadFails, BreakOff
  <2> QED
    BY <2>1, <2>2
<1>2. PICK n \in 0 .. job[w].block.size :
           /\ data' = WithPayload(w, n)
           /\ flen' = Grown(job[w].offset, HeaderSize + n) \/ flen' = flen
  BY <1>1
<1>3. HeaderSize + n \in 0 .. HeaderSize + job[w].block.size /\ n \in Nat /\ job[w] \in Job
  BY <1>1, JobSpan, WriterOpen
<1>4. data' \in [Offsets -> Cell]
  BY <1>2, <1>3, PayloadTyped DEF SInv, DiskSound
<1>5. DiskSound'
  BY <1>1, <1>2, <1>3, <1>4, DataWriteSound
<1> QED
  BY <1>1, <1>5, StageKeeps DEF Stages, Holding

(* The block header is written in full, or up to a cell that may be torn. *)
LEMMA HeaderWrites ==
  ASSUME SInv, NEW w \in Writers, WriteHeader(w) \/ HeaderFails(w)
  PROVE  \E n \in 0 .. HeaderSize :
           /\ \/ data' = WithHeader(w, n)
              \/ n < HeaderSize /\ data' = [WithHeader(w, n) EXCEPT ![job[w].offset + n] = TornCell]
           /\ n < HeaderSize \/ WriteHeader(w) \/ Syncing
<1>1. CASE WriteHeader(w)
  <2>1. HeaderSize \in 0 .. HeaderSize
    OBVIOUS
  <2> QED
    BY <1>1, <2>1 DEF WriteHeader
<1>2. CASE HeaderFails(w)
  <2>1. CASE Syncing /\ data' = WithHeader(w, HeaderSize)
    <3>1. HeaderSize \in 0 .. HeaderSize
      OBVIOUS
    <3> QED
      BY <2>1, <3>1
  <2>2. CASE \E n \in 0 .. HeaderSize - 1 :
               \/ data' = WithHeader(w, n)
               \/ data' = [WithHeader(w, n) EXCEPT ![job[w].offset + n] = TornCell]
    <3>1. PICK n \in 0 .. HeaderSize - 1 :
               \/ data' = WithHeader(w, n)
               \/ data' = [WithHeader(w, n) EXCEPT ![job[w].offset + n] = TornCell]
      BY <2>2
    <3>2. n \in 0 .. HeaderSize /\ n < HeaderSize
      OBVIOUS
    <3> QED
      BY <3>1, <3>2
  <2> QED
    BY <1>2, <2>1, <2>2 DEF HeaderFails
<1> QED
  BY <1>1, <1>2

(* The cells after such a write: the beginning of the header is there, and the rest is as it
   was, but for one cell that may be torn. *)
LEMMA HeaderCellsAre ==
  ASSUME SInv, NEW w \in Writers, pc[w] # "idle", NEW n \in 0 .. HeaderSize,
         \/ data' = WithHeader(w, n)
         \/ n < HeaderSize /\ data' = [WithHeader(w, n) EXCEPT ![job[w].offset + n] = TornCell]
  PROVE  /\ data' \in [Offsets -> Cell]
         /\ \A i \in 0 .. n - 1 :
              data'[job[w].offset + i] = HeaderPart(job[w].height, job[w].block, i)
         /\ \A c \in Offsets : c < job[w].offset \/ job[w].offset + n <= c =>
              data'[c] = data[c] \/ (c = job[w].offset + n /\ n < HeaderSize /\ data'[c] = TornCell)
<1>1. /\ data \in [Offsets -> Cell] /\ job[w] \in Job
  BY WriterOpen DEF SInv, DiskSound
<1>2. PICK o \in Nat, h \in Heights, b \in Block :
        /\ o = job[w].offset /\ h = job[w].height /\ b = job[w].block
        /\ o + HeaderSize + b.size <= MaxOffset /\ b.size \in Nat
  BY JobSpan
<1>3. WithHeader(w, n) \in [Offsets -> Cell]
  BY <1>1, HeaderTypedCells
<1>4. \A c \in Offsets : WithHeader(w, n)[c] =
        IF c - o \in 0 .. n - 1 THEN HeaderPart(h, b, c - o) ELSE data[c]
  BY <1>2 DEF WithHeader
<1>5. \A i \in 0 .. n - 1 : o + i \in Offsets /\ (o + i) - o = i /\ o + i # o + n
  BY <1>2, BlockStoreAssumption DEF Offsets
<1>6. \A c \in Offsets : c < o \/ o + n <= c => c - o \notin 0 .. n - 1
  BY <1>2, OffsetFacts
<1> DEFINE D == WithHeader(w, n)
<1>7. /\ D \in [Offsets -> Cell]
      /\ \A i \in 0 .. n - 1 : D[o + i] = HeaderPart(h, b, i)
      /\ \A c \in Offsets : c < o \/ o + n <= c => D[c] = data[c]
  BY <1>3, <1>4, <1>5, <1>6
<1> HIDE DEF D
<1>8. CASE data' = D
  BY <1>2, <1>7, <1>8
<1>9. CASE n < HeaderSize /\ data' = [D EXCEPT ![o + n] = TornCell]
  <2>1. data' \in [Offsets -> Cell] /\ \A c \in Offsets : data'[c] = IF c = o + n THEN TornCell ELSE D[c]
    BY <1>7, <1>9, CellTypes
  <2>2. \A i \in 0 .. n - 1 : data'[o + i] = HeaderPart(h, b, i)
    BY <1>5, <1>7, <2>1
  <2>3. \A c \in Offsets : c < o \/ o + n <= c =>
          data'[c] = data[c] \/ (c = o + n /\ n < HeaderSize /\ data'[c] = TornCell)
    BY <1>7, <1>9, <2>1
  <2> QED
    BY <1>2, <2>1, <2>2, <2>3
<1> QED
  BY <1>2, <1>8, <1>9 DEF D

(* Writing the block header, in full or torn, keeps the invariant. *)
LEMMA HeaderKeeps ==
  ASSUME SInv, NEW w \in Writers, WriteHeader(w) \/ HeaderFails(w)
  PROVE  SInv'
<1>1. pc[w] = "header"
  BY DEF WriteHeader, HeaderFails
<1>2. /\ job[w].offset \in Offsets /\ job[w].height \in Heights /\ job[w].block \in Block
      /\ data \in [Offsets -> Cell] /\ mode = "open" /\ job \in [Writers -> Job \union {NoJob}]
      /\ pc \in [Writers -> Stages] /\ Working(w)
  BY <1>1, JobSpan, WriterOpen DEF SInv, DiskSound, LocalTypes
<1>3. CASE WriteHeader(w)
  <2>1. /\ flen' = Grown(job[w].offset, HeaderSize) /\ R!Land(w) /\ Goto(w, "publish")
        /\ UNCHANGED <<index, header, session, job>>
    BY <1>3 DEF WriteHeader
  <2>2. data' \in [Offsets -> Cell]
    BY <1>1, <1>3, HeaderWrites, HeaderCellsAre
  <2>3. HeaderSize \in 0 .. HeaderSize + job[w].block.size
    BY <1>1, JobSpan
  <2>4. DiskSound'
    BY <1>1, <2>1, <2>2, <2>3, DataWriteSound
  <2>5. RP!RInv' /\ ~R!Holds(w)' /\ \A v \in Writers \ {w} : rsv'[v] = rsv[v]
    BY <2>1, LandEffect DEF SInv
  <2>6. Working(w)'
    <3>1. pc'[w] = "publish" /\ job'[w] = job[w]
      BY <1>2, <2>1 DEF Goto
    <3> QED
      BY <1>1, <1>2, <2>5, <3>1 DEF Working, Holding
  <2> QED
    BY <1>2, <2>1, <2>4, <2>5, <2>6, WriterKeeps DEF Stages
<1>4. CASE HeaderFails(w)
  <2>2. data' \in [Offsets -> Cell]
    BY <1>1, <1>4, HeaderWrites, HeaderCellsAre
  <2>3. UNCHANGED <<index, header, flen, session, reserve, job>> /\ Goto(w, "release")
    BY <1>4 DEF HeaderFails, BreakOff
  <2>4. 0 \in 0 .. HeaderSize + job[w].block.size
    BY <1>1, JobSpan
  <2>5. DiskSound'
    BY <1>1, <2>2, <2>3, <2>4, DataWriteSound
  <2> QED
    BY <1>1, <2>3, <2>5, StageKeeps DEF Stages, Holding
<1> QED
  BY <1>3, <1>4

(* The steps in which write_block returns. *)
LEMMA ReturningKeeps ==
  ASSUME SInv, NEW w \in Writers,
         \/ ReleaseReservation(w) \/ PublishFails(w) \/ CheckpointFails(w)
         \/ NoCheckpointDue(w) \/ CheckpointStore(w)
  PROVE  SInv'
<1>1. pc[w] # "idle" /\ Return(w) /\ UNCHANGED <<disk, session>>
  BY DEF ReleaseReservation, PublishFails, CheckpointFails, NoCheckpointDue, CheckpointStore,
         ReturnErr, ReturnOk
<1>2. DiskSound'
  BY <1>1, DiskSame DEF SInv
<1>3. CASE ReleaseReservation(w)
  <2>1. RP!RInv' /\ ~R!Holds(w)' /\ \A v \in Writers \ {w} : rsv'[v] = rsv[v]
    BY <1>3, ReleaseEffect DEF ReleaseReservation, SInv
  <2> QED
    BY <1>1, <1>2, <2>1, ReturnKeeps
<1>4. CASE ~ReleaseReservation(w)
  <2>1. UNCHANGED reserve /\ pc[w] \notin Holding
    BY <1>4 DEF PublishFails, CheckpointFails, NoCheckpointDue, CheckpointStore, Holding
  <2>2. RP!RInv' /\ rsv' = rsv
    BY <2>1, ReserveSame DEF SInv, reserve
  <2>3. ~R!Holds(w)'
    BY <2>1, <2>2 DEF SInv, Working, R!Holds
  <2> QED
    BY <1>1, <1>2, <2>2, <2>3, ReturnKeeps
<1> QED
  BY <1>3, <1>4

(* Writing the index entry keeps the invariant: the block it points to is the writer's own. *)
LEMMA PublishKeeps ==
  ASSUME SInv, NEW w \in Writers, Publish(w)
  PROVE  SInv'
<1>1. /\ pc[w] = "publish" /\ Goto(w, "advance")
      /\ index' = [index EXCEPT ![job[w].height] =
                     [offset |-> job[w].offset, size |-> job[w].block.size]]
      /\ UNCHANGED <<header, data, flen, reserve, session, job>>
  BY DEF Publish, C!PublishEntry
<1>2. [offset |-> job[w].offset, size |-> job[w].block.size] \in Entry
  <2>1. job[w].offset \in Offsets /\ job[w].block.size \in Sizes
    BY <1>1, JobSpan, BlockFacts
  <2> QED
    BY <2>1 DEF Entry
<1>3. DiskSound /\ index \in [Heights -> Entry \union {NoEntry}]
  BY DEF SInv, DiskSound
<1>4. index' \in [Heights -> Entry \union {NoEntry}]
  BY <1>1, <1>2, <1>3
<1>5. DiskSound'
  BY <1>1, <1>3, <1>4 DEF DiskSound, FilesFit
<1> QED
  BY <1>1, <1>5, StageKeeps DEF Stages, Holding

(* The steps after the index entry that do not return. *)
LEMMA CheckpointKeeps ==
  ASSUME SInv, NEW w \in Writers,
         \/ RaiseHighwater(w) \/ CheckpointDue(w) \/ CheckpointLoad(w) \/ CheckpointWrite(w)
  PROVE  SInv'
<1>1. PICK p \in Stages \ {"idle"} : Goto(w, p) /\ p \notin Holding
  BY DEF RaiseHighwater, CheckpointDue, CheckpointLoad, CheckpointWrite, Stages, Holding
<1>2. pc[w] # "idle" /\ pc[w] \notin Holding
  BY DEF RaiseHighwater, CheckpointDue, CheckpointLoad, CheckpointWrite, Holding
<1>3. UNCHANGED <<session, reserve, job>>
  BY DEF RaiseHighwater, CheckpointDue, CheckpointLoad, CheckpointWrite
<1>4. DiskSound'
  <2>1. CASE CheckpointWrite(w)
    <3>1. /\ header' = [next_write_offset |-> job[w].saved, max_height |-> snap[w].max_height,
                        highest_contiguous |-> snap[w].highest_contiguous]
          /\ UNCHANGED <<index, data, flen>>
      BY <2>1 DEF CheckpointWrite
    <3>2. job[w].saved \in Nat
      BY <1>2, WriterOpen, JobFacts
    <3>3. /\ DOMAIN header' = {"next_write_offset", "max_height", "highest_contiguous"}
          /\ header'.next_write_offset = job[w].saved
      BY <3>1
    <3> QED
      BY <3>1, <3>2, <3>3 DEF SInv, DiskSound, FilesFit
  <2>2. CASE ~CheckpointWrite(w)
    <3>1. UNCHANGED disk
      BY <2>2 DEF RaiseHighwater, CheckpointDue, CheckpointLoad, C!UpdateHighwater, disk
    <3> QED
      BY <3>1, DiskSame DEF SInv
  <2> QED
    BY <2>1, <2>2
<1> QED
  BY <1>1, <1>2, <1>3, <1>4, StageKeeps

(* A step that touches neither the disk nor anything SInv speaks of. *)
LEMMA StutterKeeps ==
  SInv /\ UNCHANGED <<disk, reserve, session, pc, job>> => SInv'
BY ReserveSame, DiskSame
   DEF SInv, LocalTypes, Closed, AllIdle, ScanFits, WindowExact, Working, R!Holds,
       reserve, session, disk

(* Every step of write_block keeps the invariant. *)
LEMMA WriterInv ==
  ASSUME SInv, NEW w \in Writers,
         (\E h \in Heights, b \in Block : BeginWrite(w, h, b)) \/ WriterStep(w) \/ WriterFault(w)
  PROVE  SInv'
<1>1. ASSUME AdvanceFloor(w) PROVE SInv'
  <2>1. UNCHANGED <<disk, reserve, session, pc, job>>
    BY <1>1 DEF AdvanceFloor, C!CompareExchange, C!CascadeRead, C!CascadeExchange, local, disk
  <2> QED
    BY <2>1, StutterKeeps
<1> QED
  BY <1>1, BeginWriteKeeps, ResolveKeeps, PayloadKeeps, HeaderKeeps, ReturningKeeps,
     PublishKeeps, CheckpointKeeps DEF WriterStep, WriterFault

-----------------------------------------------------------------------------
(* Sessions end and begin. *)

(* A scan that begins is well typed and its window holds nothing. *)
LEMMA ScanFacts ==
  /\ W!EmptyWindow \in Window /\ WindowExact(W!EmptyWindow)
  /\ NoScan \in Scan
  /\ \A n \in Nat, e \in Nat :
       [next |-> n, end |-> e, progress |-> n, window |-> W!EmptyWindow] \in Scan
<1>1. W!EmptyWindow \in Window
  <2>1. <<>> \in Seq(Cell) /\ WindowSize \in Nat /\ -1 \in Int
    BY BlockStoreAssumption
  <2> QED
    BY <2>1 DEF W!EmptyWindow, Window
<1>2. WindowExact(W!EmptyWindow)
  BY DEF WindowExact, W!EmptyWindow
<1> QED
  BY <1>1, <1>2 DEF NoScan, Scan

(* The memory of a process that is gone. *)
LEMMA MemoryGoneKeeps ==
  ASSUME SInv, MemoryGone, DiskSound'
  PROVE  SInv'
<1>1. RP!RInv' /\ \A w \in Writers : ~R!Holds(w)'
  BY ReserveFresh DEF MemoryGone
<1>2. /\ pc' = [w \in Writers |-> "idle"] /\ job' = [w \in Writers |-> NoJob]
      /\ scan' = NoScan /\ mode' = "down" /\ landed' = {} /\ holes' = {}
  BY DEF MemoryGone
<1>3. LocalTypes'
  BY <1>2, ScanFacts DEF LocalTypes, Stages
<1>4. Closed' /\ ScanFits'
  BY <1>2 DEF Closed, AllIdle, ScanFits
<1>5. \A w \in Writers : Working(w)'
  BY <1>1, <1>2 DEF Working, Holding
<1> QED
  BY <1>1, <1>3, <1>4, <1>5 DEF SInv

(* Drop keeps the invariant. *)
LEMMA CloseKeeps == ASSUME SInv, Close PROVE SInv'
<1>1. data_highwater \in Nat /\ DiskSound
  BY DEF SInv, RP!RInv, RP!RTypeOK
<1>2. MemoryGone /\ UNCHANGED <<index, data, flen>>
      /\ (header' = header
          \/ header' = [next_write_offset |-> data_highwater, max_height |-> height_highwater,
                        highest_contiguous |-> max_contiguous_height])
  BY DEF Close
<1>3. /\ DOMAIN header' = {"next_write_offset", "max_height", "highest_contiguous"}
      /\ header'.next_write_offset \in Nat
  BY <1>1, <1>2 DEF DiskSound
<1>4. DiskSound'
  BY <1>1, <1>2, <1>3 DEF DiskSound, FilesFit
<1> QED
  BY <1>2, <1>4, MemoryGoneKeeps

(* A crash keeps the invariant: it loses memory only. *)
LEMMA CrashKeeps == ASSUME SInv, Crash PROVE SInv'
<1>1. MemoryGone /\ DiskSound'
  BY DiskSame DEF Crash, SInv
<1> QED
  BY <1>1, MemoryGoneKeeps

(* While the store is not open nothing is reserved, so the highwater may move. *)
LEMMA NobodyHolds ==
  ASSUME SInv, mode # "open", UNCHANGED <<rsv, landed, holes, pc, job>>, data_highwater' \in Nat
  PROVE  RP!RInv' /\ landed' = {} /\ holes' = {} /\ AllIdle' /\ \A w \in Writers : Working(w)'
<1>1. /\ AllIdle /\ landed = {} /\ holes = {} /\ rsv \in [Writers -> RP!Extent]
  BY DEF SInv, Closed, RP!RInv, RP!RTypeOK
<1>2. \A w \in Writers : ~R!Holds(w) /\ Working(w)
  BY <1>1 DEF SInv, AllIdle, Working, Holding
<1>3. RP!RInv'
  BY <1>1, <1>2 DEF RP!RInv, RP!RTypeOK, RP!Holds, RP!Settled, R!Holds
<1>4. AllIdle'
  BY <1>1 DEF AllIdle
<1>5. \A w \in Writers : Working(w)'
  BY <1>2 DEF Working, R!Holds
<1> QED
  BY <1>1, <1>3, <1>4, <1>5

(* A step of open and recover: only the disk, the highwater and the scan move. *)
LEMMA RecoveryFrame ==
  ASSUME SInv, mode # "open", UNCHANGED <<rsv, landed, holes, pc, job>>,
         data_highwater' \in Nat, scan' \in Scan, DiskSound', ScanFits'
  PROVE  SInv'
<1>1. RP!RInv' /\ landed' = {} /\ holes' = {} /\ AllIdle' /\ \A w \in Writers : Working(w)'
  BY NobodyHolds
<1>2. LocalTypes'
  BY DEF SInv, LocalTypes
<1> QED
  BY <1>1, <1>2 DEF SInv, Closed

(* Opening keeps the invariant: the allocator starts again from the header. *)
LEMMA OpenKeeps == ASSUME SInv, Open PROVE SInv'
<1>1. /\ mode = "down" /\ UNCHANGED <<disk, rsv, landed, holes, pc, job>>
  BY DEF Open, local
<1>2. /\ DiskSound /\ scan \in Scan /\ data_highwater \in Nat
      /\ header.next_write_offset \in Nat /\ flen \in [Files -> Int] /\ FilesFit
  BY DEF SInv, DiskSound, LocalTypes, RP!RInv, RP!RTypeOK
<1>3. DiskSound'
  BY <1>1, <1>2, DiskSame
<1>4. CASE LayoutValid /\ LayoutEnd >= header.next_write_offset
  <2>1. /\ mode' = "recovering" /\ data_highwater' = header.next_write_offset
        /\ scan' = [next |-> header.next_write_offset, end |-> LayoutEnd,
                    progress |-> header.next_write_offset, window |-> W!EmptyWindow]
    BY <1>4 DEF Open
  <2>2. /\ LayoutEnd \in Nat /\ LayoutEnd <= MaxOffset
        /\ Cap # 0 => LayoutEnd <= (MaxFileIndex + 1) * Cap
    BY <1>2, LayoutEndFits
  <2>3. scan' \in Scan
    BY <1>2, <2>1, <2>2, ScanFacts
  <2>4. scan'.end = LayoutEnd /\ scan'.window = W!EmptyWindow
    BY <2>1
  <2>5. WindowExact(scan.window)'
    BY <2>4 DEF WindowExact, W!EmptyWindow
  <2>6. ScanFits'
    BY <2>2, <2>4, <2>5 DEF ScanFits
  <2> QED
    BY <1>1, <1>2, <1>3, <2>1, <2>3, <2>6, RecoveryFrame
<1>5. CASE ~(LayoutValid /\ LayoutEnd >= header.next_write_offset)
  <2>1. mode' = "refused" /\ UNCHANGED <<scan, data_highwater>>
    BY <1>5 DEF Open
  <2>2. ScanFits'
    BY <2>1 DEF ScanFits
  <2> QED
    BY <1>1, <1>2, <1>3, <2>1, <2>2, RecoveryFrame
<1> QED
  BY <1>4, <1>5

-----------------------------------------------------------------------------
(* The recovery scan. *)

(* The window and the limits of the scan stay sound while the files do not change. *)
LEMMA ScanFitsKeeps ==
  ASSUME SInv, mode \in {"recovering", "progress"}, UNCHANGED <<data, flen>>,
         scan'.end = scan.end,
         scan'.window = scan.window \/ (\E v : scan'.window = v /\ WindowExact(v))
  PROVE  ScanFits'
<1>1. PICK v : scan'.window = v /\ WindowExact(v)
  BY DEF SInv, ScanFits
<1>2. WindowExact(scan.window)'
  BY <1>1 DEF WindowExact
<1> QED
  BY <1>2 DEF SInv, ScanFits

(* Moving the recovery scan to the next file keeps the invariant. *)
LEMMA ScanNextFileKeeps == ASSUME SInv, ScanNextFile PROVE SInv'
<1>1. /\ mode = "recovering" /\ Cap # 0
      /\ \/ mode' = mode /\ scan' = [scan EXCEPT !.next = R!NextFileStart(@)]
         \/ mode' = "refused" /\ scan' = NoScan
      /\ UNCHANGED <<disk, rsv, landed, holes, pc, job, data_highwater>>
  BY DEF ScanNextFile, Scanning, reserve, local
<1>2. scan \in Scan /\ DiskSound /\ data_highwater \in Nat
  BY DEF SInv, LocalTypes, RP!RInv, RP!RTypeOK
<1>3. R!NextFileStart(scan.next) \in Nat
  <2>1. scan.next \in Nat
    BY <1>2 DEF Scan
  <2>2. RP!NextFileStart(scan.next) \in Nat
    BY <1>1, <2>1, RP!NextFileStartAbove, AllocatorAssumption
  <2> QED
    BY <2>2 DEF R!NextFileStart, RP!NextFileStart
<1>4. DiskSound'
  BY <1>1, <1>2, DiskSame
<1>5. CASE mode' = mode /\ scan' = [scan EXCEPT !.next = R!NextFileStart(@)]
  <2>1. scan' \in Scan /\ scan'.end = scan.end /\ scan'.window = scan.window
    BY <1>2, <1>3, <1>5 DEF Scan
  <2>2. ScanFits'
    BY <1>1, <2>1, ScanFitsKeeps DEF disk
  <2> QED
    BY <1>1, <1>2, <1>4, <1>5, <2>1, <2>2, RecoveryFrame
<1>6. CASE mode' = "refused" /\ scan' = NoScan
  <2>1. ScanFits'
    BY <1>6 DEF ScanFits
  <2> QED
    BY <1>1, <1>2, <1>4, <1>6, <2>1, ScanFacts, RecoveryFrame
<1> QED
  BY <1>1, <1>5, <1>6

(* Indexing a block found by the recovery scan keeps the invariant. *)
LEMMA RecoverBlockKeeps == ASSUME SInv, RecoverBlock PROVE SInv'
<1>1. /\ mode = "recovering" /\ Scanning /\ BlockNext
      /\ UNCHANGED <<header, data, flen, rsv, landed, holes, pc, job, data_highwater>>
  BY DEF RecoverBlock, Scanning, reserve, local
<1>2. scan \in Scan /\ DiskSound /\ data_highwater \in Nat
  BY DEF SInv, LocalTypes, RP!RInv, RP!RTypeOK
<1>3. PICK h \in Heights, b \in Block :
        /\ HeaderRead.height = h /\ HeaderRead.block = b /\ scan.next \in Offsets
        /\ AfterPayload(b.size) \in Window /\ WindowExact(AfterPayload(b.size))
  BY <1>1, ScanAccepts
<1>4. b.size \in Nat /\ b.size \in Sizes /\ scan.next \in Nat
  BY <1>3, BlockFacts, OffsetFacts
<1>5. /\ index' = [index EXCEPT ![h] = [offset |-> scan.next, size |-> b.size]]
      /\ scan' = [scan EXCEPT !.next = scan.next + HeaderSize + b.size,
                              !.window = AfterPayload(b.size)]
  BY <1>3 DEF RecoverBlock
<1>6. DiskSound'
  <2>1. [offset |-> scan.next, size |-> b.size] \in Entry
    BY <1>3, <1>4 DEF Entry
  <2>2. index \in [Heights -> Entry \union {NoEntry}]
    BY <1>2 DEF DiskSound
  <2>3. index' \in [Heights -> Entry \union {NoEntry}]
    BY <1>5, <2>1, <2>2
  <2> QED
    BY <1>1, <1>2, <2>3 DEF DiskSound, FilesFit
<1> DEFINE v == AfterPayload(b.size)
           n == scan.next + HeaderSize + b.size
<1>7. v \in Window /\ WindowExact(v) /\ n \in Nat /\ scan' = [scan EXCEPT !.next = n, !.window = v]
  BY <1>3, <1>4, <1>5
<1> HIDE DEF v, n
<1>8. scan' \in Scan /\ scan'.end = scan.end /\ scan'.window = v
  BY <1>2, <1>7 DEF Scan
<1>9. ScanFits'
  BY <1>1, <1>7, <1>8, ScanFitsKeeps
<1> QED
  BY <1>1, <1>2, <1>6, <1>8, <1>9, RecoveryFrame

(* The checkpoint of the recovery's progress keeps the invariant. *)
LEMMA CheckpointProgressKeeps == ASSUME SInv, CheckpointProgress PROVE SInv'
<1>1. /\ mode = "progress" /\ UNCHANGED <<index, data, flen, rsv, landed, holes, pc, job, data_highwater>>
      /\ header' = [header EXCEPT !.next_write_offset = scan.next, !.max_height = height_highwater]
      /\ scan' = [scan EXCEPT !.progress = scan.next]
  BY DEF CheckpointProgress, reserve, local
<1>2. scan \in Scan /\ DiskSound /\ data_highwater \in Nat
  BY DEF SInv, LocalTypes, RP!RInv, RP!RTypeOK
<1>3. scan.next \in Nat /\ scan' \in Scan /\ scan'.end = scan.end /\ scan'.window = scan.window
  BY <1>1, <1>2 DEF Scan
<1>4. /\ DOMAIN header' = {"next_write_offset", "max_height", "highest_contiguous"}
      /\ header'.next_write_offset = scan.next
  BY <1>1, <1>2 DEF DiskSound
<1>5. DiskSound'
  BY <1>1, <1>2, <1>3, <1>4 DEF DiskSound, FilesFit
<1>6. ScanFits'
  BY <1>1, <1>3, ScanFitsKeeps
<1> QED
  BY <1>1, <1>2, <1>3, <1>5, <1>6, RecoveryFrame

(* The end of recovery keeps the invariant: the mark is where the scan stopped, past every block
   indexed. *)
LEMMA FinishRecoveryKeeps == ASSUME SInv, FinishRecovery PROVE SInv'
<1>1. /\ mode = "recovering" /\ mode' = "open" /\ scan' = NoScan /\ data_highwater' = scan.next
      /\ UNCHANGED <<disk, rsv, landed, holes, pc, job>>
  BY DEF FinishRecovery, FinishAs, local
<1>2. scan.next \in Nat /\ DiskSound
  BY DEF SInv, LocalTypes, Scan
<1>3. DiskSound' /\ ScanFits'
  BY <1>1, <1>2, DiskSame DEF ScanFits
<1> QED
  BY <1>1, <1>2, <1>3, ScanFacts, RecoveryFrame

(* The store begins empty. *)
LEMMA InitSInv == Init => SInv
<1> SUFFICES ASSUME Init PROVE SInv
  OBVIOUS
<1>1. RP!RInv /\ \A w \in Writers : ~R!Holds(w)
  BY DEF Init, RP!RInv, RP!RTypeOK, RP!Extent, RP!Holds, RP!Settled, R!Holds, R!NoReservation
<1>2. flen \in [Files -> Int] /\ FilesFit
  <2>1. \A f \in Files : flen[f] = -1 /\ f * Cap \in Nat /\ f * Cap - 1 <= MaxOffset
    <3> SUFFICES ASSUME NEW f \in Files
                 PROVE  flen[f] = -1 /\ f * Cap \in Nat /\ f * Cap - 1 <= MaxOffset
      OBVIOUS
    <3>1. PICK o \in Offsets : f = FileOf(o)
      BY DEF Files
    <3>2. o \in Nat /\ o < MaxOffset /\ MaxOffset \in Nat
      BY OffsetFacts, BlockStoreAssumption
    <3>3. f * Cap \in Nat /\ LocalOffset(o) \in Nat /\ f * Cap + LocalOffset(o) <= o
      BY <3>1, <3>2, SplitFacts
    <3> QED
      BY <3>2, <3>3 DEF Init, Absent
  <2> QED
    BY <2>1, BlockStoreAssumption DEF Init, FilesFit, Absent
<1>3. DiskSound
  BY <1>2, CellTypes DEF Init, DiskSound
<1>4. LocalTypes
  BY ScanFacts DEF Init, LocalTypes, Stages
<1>5. Closed /\ ScanFits
  BY DEF Init, Closed, ScanFits
<1>6. \A w \in Writers : Working(w)
  BY <1>1 DEF Init, Working, Holding
<1> QED
  BY <1>1, <1>3, <1>4, <1>5, <1>6 DEF SInv

(* Every step of the store keeps the invariant. *)
LEMMA NextSInv == SInv /\ [Next]_vars => SInv'
<1> SUFFICES ASSUME SInv, [Next]_vars PROVE SInv'
  OBVIOUS
<1>1. CASE UNCHANGED vars
  BY <1>1, StutterKeeps DEF vars, local
<1> QED
  BY <1>1, WriterInv, CloseKeeps, CrashKeeps, OpenKeeps, ScanNextFileKeeps, RecoverBlockKeeps,
     CheckpointProgressKeeps, FinishRecoveryKeeps DEF Next, RecoveryStep

(* The invariant of the allocator, the index and the scan holds in every state: crashes, failed
   writes and recoveries included. *)
THEOREM SInvAlways == Spec => []SInv
BY InitSInv, NextSInv, PTL DEF Spec

(***************************************************************************)
(* Space is never handed out twice and the highwater stays above all that  *)
(* is owned, in every session, whatever crashes, recoveries and failed     *)
(* writes came before it: the extents of reserve_space are disjoint from   *)
(* each other, from the blocks that landed and from the holes.             *)
(***************************************************************************)
THEOREM StoreNoOverlap == Spec => []NoOverlap
<1>1. SInv => NoOverlap
  <2> SUFFICES ASSUME RP!RInv PROVE R!NoOverlap /\ R!HighwaterCovers
    BY DEF SInv, NoOverlap
  <2>1. RP!NoOverlap /\ RP!HighwaterCovers
    BY RP!RInvSafe, AllocatorAssumption
  <2> QED
    BY <2>1
       DEF R!NoOverlap, RP!NoOverlap, R!HighwaterCovers, RP!HighwaterCovers,
           R!Holds, RP!Holds, R!Disjoint, RP!Disjoint
<1> QED
  BY SInvAlways, <1>1, PTL

-----------------------------------------------------------------------------
(* Sessions that end with a shutdown. *)

(***************************************************************************)
(* No process dies, no block is complete on disk while its write fails,    *)
(* and read_block accepts every size that is written.  README, section 4,  *)
(* shows what happens without each of these.                               *)
(***************************************************************************)
Tidy ==
  /\ MaxCrashes = 0
  /\ Syncing => MaxFailures = 0
  /\ \A s \in Sizes : s <= MaxBlockSize

(* Data is written, or will be written after a reopen, from here on. *)
Frontier ==
  IF mode = "open" THEN data_highwater
  ELSE IF mode = "recovering" THEN scan.next
  ELSE IF mode = "refused" THEN Larger(MaxOffset, header.next_write_offset)
  ELSE header.next_write_offset

(***************************************************************************)
(* The cells o .. n - 1 are behind the frontier, and will be however the   *)
(* writers give their space back: each extent that is held lies wholly,    *)
(* with the tail it skipped, on one side of them.                          *)
(***************************************************************************)
Kept(o, n) ==
  /\ n <= Frontier
  /\ \A v \in Writers : R!Holds(v) => n <= rsv[v].prev \/ rsv[v].end <= o

(* Block b of height h is whole at o, where nobody writes any more. *)
Written(o, h, b) ==
  /\ o \in Offsets /\ o + HeaderSize + b.size <= MaxOffset
  /\ data[o] = HeaderCell(h, b) /\ HeaderAt(o, h, b) /\ Intact(o, h, b)
  /\ Covered(o, HeaderSize + b.size)

Stored(o, h, b) == Written(o, h, b) /\ Kept(o, o + HeaderSize + b.size)

(* Behind every index entry is the block published last at its height. *)
ContentAt(h) ==
  \/ index[h] = NoEntry /\ last[h] = Nothing
  \/ /\ index[h] \in Entry /\ last[h] \in Block /\ index[h].size = last[h].size
     /\ Stored(index[h].offset, h, last[h])

Content == \A h \in Heights : ContentAt(h)

(* The stages after the block has landed. *)
Landed == {"publish", "advance", "decide", "load", "loadfloor", "write", "store"}

(* What a writer that runs can rely on. *)
Underway(w) ==
  /\ pc[w] = "header" => /\ Intact(job[w].offset, job[w].height, job[w].block)
                         /\ Covered(job[w].offset, HeaderSize + job[w].block.size)
  /\ pc[w] = "publish" => Written(job[w].offset, job[w].height, job[w].block)
  /\ pc[w] \in Landed => Kept(job[w].offset, job[w].saved)

(* The cell that completes a header: write_block writes it after the others. *)
Sealing(c) == \E h \in Heights, b \in Block : c = HeaderPart(h, b, HeaderSize - 1)

(* No scan that begins at the frontier finds the whole header of a block. *)
HeadersKept == \A o \in Offsets : Sealing(data[o]) => Kept(o, o + 1)

(* The offset in the header of the index file is behind the frontier. *)
MarkKept ==
  header.next_write_offset > 0 =>
    Kept(header.next_write_offset - 1, header.next_write_offset)

History ==
  /\ last \in [Heights -> Block \union {Nothing}]
  /\ loose \in [Heights -> SUBSET Block]
  /\ failures \in Nat /\ crashes \in Nat
  /\ mode \in {"open", "down", "recovering", "refused"}

TInv ==
  /\ SInv /\ History /\ Content /\ HeadersKept /\ MarkKept
  /\ \A w \in Writers : Underway(w)

(* Everything up to f is there: a recovery may begin its scan at f. *)
Trusted(f) == f \in HeightOrNone /\ (f > C!FloorIfEmpty => C!ContiguousTo(f))

(* A highwater, if it is one, is the height of an entry. *)
Reached(t) == t \in HeightOrNone /\ (t > C!FloorIfEmpty => C!Present(t))

(* The floor f and the highwater t from which a recovery finds the floor. *)
Resume(f, t) ==
  /\ Trusted(f) /\ Reached(t)
  /\ \A h \in Heights : C!Present(h) => h <= t

(* The floor of an open store is that of Contiguity. *)
FOpen ==
  /\ mode = "open" => CP!CInv /\ Reached(height_highwater)
  /\ mode # "open" =>
       /\ at = [w \in Writers |-> "idle"] /\ height = [w \in Writers |-> MinHeight]
       /\ prev = [w \in Writers |-> 0]
  /\ \A w \in Writers : at[w] # "idle" <=> pc[w] = "advance"

(* That of a closed one is in the header. *)
FInv ==
  /\ FOpen
  /\ mode # "open" => Resume(header.highest_contiguous, header.max_height)
  /\ mode = "recovering" => height_highwater = header.max_height

-----------------------------------------------------------------------------
(* What a step must leave alone. *)

KeptStays == \A o, n \in Nat : o < n /\ Kept(o, n) => Kept(o, n)'

BytesStay ==
  \A o, n \in Nat : o < n /\ Kept(o, n) =>
    \A c \in Offsets : o <= c /\ c < n => data'[c] = data[c]

FilesGrow == \A f \in Files : flen[f] <= flen'[f]

(* Reservations are disjoint intervals below the mark, the gap in front of each included. *)
LEMMA HoldFacts ==
  ASSUME SInv
  PROVE  /\ data_highwater \in Nat
         /\ \A v \in Writers : rsv[v].prev \in Nat /\ rsv[v].offset \in Nat /\ rsv[v].end \in Nat
         /\ \A v \in Writers : R!Holds(v) =>
              /\ rsv[v].prev <= rsv[v].offset /\ rsv[v].offset < rsv[v].end
              /\ rsv[v].end <= data_highwater
              /\ \A u \in Writers \ {v} : R!Holds(u) =>
                   rsv[v].end <= rsv[u].prev \/ rsv[u].end <= rsv[v].prev
<1>1. RP!RInv
  BY DEF SInv
<1> QED
  BY <1>1 DEF RP!RInv, RP!RTypeOK, RP!Extent, RP!Holds, R!Holds, RP!WellFormed, RP!Ordered

(* The frontier is an offset. *)
LEMMA FrontierNat == SInv => Frontier \in Nat
BY HoldFacts, BlockStoreAssumption DEF SInv, DiskSound, LocalTypes, Scan, Frontier, Larger

(* The same of the next state. *)
LEMMA FrontierNatNext == (SInv => Frontier \in Nat)'
BY FrontierNat, PTL

(* What is kept of a stretch is kept of a shorter one at either end. *)
LEMMA KeptWithin ==
  ASSUME SInv, NEW o \in Nat, NEW n \in Nat, NEW p \in Nat, NEW m \in Nat,
         Kept(o, n), o <= p, m <= n
  PROVE  Kept(p, m)
BY HoldFacts, FrontierNat DEF Kept

(* The allocator's steps leave alone what is kept. *)
LEMMA ReserveKept ==
  ASSUME SInv, mode = "open", mode' = "open", NEW w \in Writers, NEW s \in Sizes,
         R!ReserveSpace(w, HeaderSize + s)
  PROVE  KeptStays
<1>1. /\ ~R!Holds(w) /\ rsv'[w].prev = data_highwater /\ data_highwater' = rsv'[w].end
      /\ rsv'[w].offset \in Nat /\ data_highwater <= rsv'[w].offset
      /\ rsv'[w].end = rsv'[w].offset + HeaderSize + s
      /\ \A v \in Writers \ {w} : rsv'[v] = rsv[v]
  BY ReserveEffect DEF SInv
<1>2. s \in Nat /\ data_highwater \in Nat
  BY BlockStoreAssumption, HoldFacts
<1>3. data_highwater <= data_highwater' /\ data_highwater' \in Nat
  BY <1>1, <1>2
<1> SUFFICES ASSUME NEW o \in Nat, NEW n \in Nat, o < n, Kept(o, n) PROVE Kept(o, n)'
  BY DEF KeptStays
<1>4. n <= data_highwater
  BY DEF Kept, Frontier
<1>5. n <= Frontier'
  BY <1>2, <1>3, <1>4 DEF Frontier
<1>6. ASSUME NEW v \in Writers, R!Holds(v)' PROVE n <= rsv'[v].prev \/ rsv'[v].end <= o
  <2>1. CASE v = w
    BY <1>1, <1>4, <2>1
  <2>2. CASE v # w
    BY <1>1, <1>6, <2>2 DEF Kept, R!Holds
  <2> QED
    BY <2>1, <2>2
<1> QED
  BY <1>5, <1>6 DEF Kept

(* A finished write leaves its own bytes below the frontier and outside every reservation, and
   takes nothing away. *)
LEMMA LandKept ==
  ASSUME SInv, mode = "open", mode' = "open", NEW w \in Writers, R!Land(w)
  PROVE  /\ KeptStays
         /\ \A o, n \in Nat : o = rsv[w].offset /\ n = rsv[w].end => Kept(o, n)'
<1>1. /\ R!Holds(w) /\ ~R!Holds(w)' /\ data_highwater' = data_highwater
      /\ \A v \in Writers \ {w} : rsv'[v] = rsv[v]
  BY LandEffect DEF SInv
<1>2. KeptStays
  <2> SUFFICES ASSUME NEW o \in Nat, NEW n \in Nat, o < n, Kept(o, n) PROVE Kept(o, n)'
    BY DEF KeptStays
  <2> QED
    BY <1>1 DEF Kept, Frontier, R!Holds
<1> SUFFICES ASSUME NEW o \in Nat, NEW n \in Nat, o = rsv[w].offset, n = rsv[w].end
             PROVE  Kept(o, n)'
  BY <1>2
<1>3. n <= data_highwater
  BY <1>1, HoldFacts
<1>4. ASSUME NEW v \in Writers, R!Holds(v)' PROVE n <= rsv'[v].prev \/ rsv'[v].end <= o
  <2>1. v # w /\ rsv'[v] = rsv[v] /\ R!Holds(v)
    BY <1>1, <1>4 DEF R!Holds
  <2>2. n <= rsv[v].prev \/ rsv[v].end <= rsv[w].prev
    BY <1>1, <2>1, HoldFacts
  <2>3. rsv[w].prev <= o /\ rsv[v].end \in Nat /\ rsv[w].prev \in Nat
    BY <1>1, HoldFacts
  <2> QED
    BY <2>1, <2>2, <2>3
<1> QED
  BY <1>1, <1>3, <1>4 DEF Kept, Frontier

(* Giving a reservation back hands out no byte of a finished write. *)
LEMMA ReleaseKept ==
  ASSUME SInv, mode = "open", mode' = "open", NEW w \in Writers, R!ReleaseReservation(w)
  PROVE  KeptStays
<1>1. /\ R!Holds(w) /\ ~R!Holds(w)'
      /\ \/ data_highwater = rsv[w].end /\ data_highwater' = rsv[w].prev
         \/ data_highwater' = data_highwater
      /\ \A v \in Writers \ {w} : rsv'[v] = rsv[v]
  BY ReleaseEffect DEF SInv
<1> SUFFICES ASSUME NEW o \in Nat, NEW n \in Nat, o < n, Kept(o, n) PROVE Kept(o, n)'
  BY DEF KeptStays
<1>2. n <= data_highwater /\ (n <= rsv[w].prev \/ rsv[w].end <= o)
  BY <1>1 DEF Kept, Frontier
<1>3. n <= data_highwater'
  BY <1>1, <1>2, HoldFacts
<1>4. ASSUME NEW v \in Writers, R!Holds(v)' PROVE n <= rsv'[v].prev \/ rsv'[v].end <= o
  BY <1>1, <1>4 DEF Kept, R!Holds
<1> QED
  BY <1>3, <1>4 DEF Kept, Frontier

(* A step that leaves the allocator alone hands out nothing. *)
LEMMA SameKept ==
  ASSUME UNCHANGED <<mode, reserve>>, mode = "open"
  PROVE  KeptStays
BY DEF KeptStays, Kept, Frontier, R!Holds, reserve

(* While nobody holds an extent the frontier may move up. *)
LEMMA FrontierMoves ==
  ASSUME SInv, SInv', Frontier <= Frontier', AllIdle'
  PROVE  KeptStays
<1>1. \A v \in Writers : ~R!Holds(v)'
  BY DEF SInv, AllIdle, Working, Holding
<1>2. Frontier \in Nat /\ Frontier' \in Nat
  BY FrontierNat, FrontierNatNext
<1> QED
  BY <1>1, <1>2 DEF KeptStays, Kept

(* What w writes into its own extent changes nothing that is kept. *)
LEMMA OwnExtent ==
  ASSUME SInv, NEW w \in Writers, pc[w] \in Holding,
         \A c \in Offsets : c < job[w].offset \/ job[w].saved <= c => data'[c] = data[c]
  PROVE  /\ BytesStay
         /\ \A v \in Writers \ {w} : pc[v] \in Holding =>
              \A c \in Offsets : job[v].offset <= c /\ c < job[v].saved => data'[c] = data[c]
<1>1. \A v \in Writers : pc[v] \in Holding =>
        R!Holds(v) /\ rsv[v].offset = job[v].offset /\ rsv[v].end = job[v].saved
  BY DEF SInv, Working
<1>2. R!Holds(w) /\ rsv[w].offset = job[w].offset /\ rsv[w].end = job[w].saved
  BY <1>1
<1>3. BytesStay
  <2> SUFFICES ASSUME NEW o \in Nat, NEW n \in Nat, o < n, Kept(o, n),
                      NEW c \in Offsets, o <= c, c < n
               PROVE  data'[c] = data[c]
    BY DEF BytesStay
  <2>1. n <= rsv[w].prev \/ rsv[w].end <= o
    BY <1>2 DEF Kept
  <2>2. rsv[w].prev <= rsv[w].offset
    BY <1>2, HoldFacts
  <2>3. c < rsv[w].offset \/ rsv[w].end <= c
    BY <2>1, <2>2, HoldFacts, OffsetFacts
  <2> QED
    BY <1>2, <2>3
<1>4. ASSUME NEW v \in Writers \ {w}, pc[v] \in Holding, NEW c \in Offsets,
             job[v].offset <= c, c < job[v].saved
      PROVE  data'[c] = data[c]
  <2>1. R!Holds(v) /\ rsv[v].offset = job[v].offset /\ rsv[v].end = job[v].saved
    BY <1>1, <1>4
  <2>2. rsv[w].end <= rsv[v].prev \/ rsv[v].end <= rsv[w].prev
    BY <1>2, <2>1, HoldFacts
  <2>3. rsv[v].prev <= rsv[v].offset /\ rsv[w].prev <= rsv[w].offset
    BY <1>2, <2>1, HoldFacts
  <2>4. c < rsv[w].offset \/ rsv[w].end <= c
    BY <1>4, <2>1, <2>2, <2>3, HoldFacts, OffsetFacts
  <2> QED
    BY <1>2, <2>4
<1> QED
  BY <1>3, <1>4
(***************************************************************************)
(* What the other writers find unchanged by a step of w: their locals and  *)
(* the bytes of the extents they hold.                                     *)
(***************************************************************************)
OthersStay(w) ==
  \A v \in Writers \ {w} :
    /\ pc'[v] = pc[v]
    /\ pc[v] # "idle" =>
         /\ job'[v].height = job[v].height /\ job'[v].block = job[v].block
         /\ job'[v].offset = job[v].offset /\ job'[v].saved = job[v].saved
    /\ pc[v] \in Holding =>
         \A c \in Offsets : job[v].offset <= c /\ c < job[v].saved => data'[c] = data[c]

(* A file that holds a stretch still holds it when it has grown. *)
LEMMA CoveredStays ==
  ASSUME DiskSound, DiskSound', FilesGrow, NEW o \in Offsets, NEW n \in Nat, Covered(o, n)
  PROVE  Covered(o, n)'
<1>1. FileOf(o) \in Files
  BY DEF Files
<1>2. LocalOffset(o) \in Nat
  BY SplitFacts, OffsetFacts
<1>3. flen[FileOf(o)] \in Int /\ flen'[FileOf(o)] \in Int
  BY <1>1 DEF DiskSound
<1>4. flen[FileOf(o)] <= flen'[FileOf(o)]
  BY <1>1 DEF FilesGrow
<1>5. LocalOffset(o) + n <= flen[FileOf(o)]
  BY DEF Covered
<1>6. LocalOffset(o) + n <= flen'[FileOf(o)]
  BY <1>2, <1>3, <1>4, <1>5
<1> QED
  BY <1>6 DEF Covered

(* Header and payload stay when their bytes do. *)
LEMMA BytesTell ==
  ASSUME NEW o \in Nat, NEW h, NEW b \in Block, o + HeaderSize + b.size <= MaxOffset,
         \A c \in Offsets : o <= c /\ c < o + HeaderSize + b.size => data'[c] = data[c]
  PROVE  /\ HeaderAt(o, h, b) => HeaderAt(o, h, b)'
         /\ Intact(o, h, b) => Intact(o, h, b)'
<1>1. b.size \in Nat /\ MaxOffset \in Nat
  BY BlockFacts, BlockStoreAssumption
<1>2. ASSUME NEW i \in 0 .. HeaderSize - 1 PROVE data'[o + i] = data[o + i]
  <2>1. o + i \in Offsets /\ o <= o + i /\ o + i < o + HeaderSize + b.size
    BY <1>1 DEF Offsets
  <2> QED
    BY <2>1
<1>3. ASSUME NEW i \in 1 .. b.size
      PROVE  data'[o + HeaderSize - 1 + i] = data[o + HeaderSize - 1 + i]
  <2>1. /\ o + HeaderSize - 1 + i \in Offsets /\ o <= o + HeaderSize - 1 + i
        /\ o + HeaderSize - 1 + i < o + HeaderSize + b.size
    BY <1>1 DEF Offsets
  <2> QED
    BY <2>1
<1> QED
  BY <1>2, <1>3 DEF HeaderAt, Intact

(* A block that is whole and kept stays so. *)
LEMMA StoredStays ==
  ASSUME SInv, DiskSound', KeptStays, BytesStay, FilesGrow,
         NEW o \in Offsets, NEW h \in Heights, NEW b \in Block,
         Written(o, h, b), Kept(o, o + HeaderSize + b.size)
  PROVE  Written(o, h, b)' /\ Kept(o, o + HeaderSize + b.size)'
<1>1. b.size \in Nat /\ o \in Nat /\ MaxOffset \in Nat
  BY BlockFacts, OffsetFacts, BlockStoreAssumption
<1>2. PICK n \in Nat : n = o + HeaderSize + b.size /\ o < n /\ n <= MaxOffset
  BY <1>1 DEF Written
<1>3. Kept(o, n) /\ Kept(o, n)'
  BY <1>1, <1>2 DEF KeptStays
<1>4. \A c \in Offsets : o <= c /\ c < n => data'[c] = data[c]
  BY <1>1, <1>2, <1>3 DEF BytesStay
<1>5. data'[o] = HeaderCell(h, b)
  BY <1>1, <1>2, <1>4 DEF Written
<1>6. HeaderAt(o, h, b)' /\ Intact(o, h, b)'
  BY <1>1, <1>2, <1>4, BytesTell DEF Written
<1>7. Covered(o, HeaderSize + b.size)'
  BY <1>1, CoveredStays DEF SInv, Written
<1>8. Written(o, h, b)'
  BY <1>5, <1>6, <1>7 DEF Written
<1> QED
  BY <1>2, <1>3, <1>8

(* A height keeps its content as long as its entry, its bytes and its claim to them stay. *)
LEMMA ContentStays ==
  ASSUME SInv, DiskSound', KeptStays, BytesStay, FilesGrow,
         NEW h \in Heights, ContentAt(h), index'[h] = index[h], last'[h] = last[h]
  PROVE  ContentAt(h)'
<1>1. CASE index[h] = NoEntry /\ last[h] = Nothing
  BY <1>1 DEF ContentAt
<1>2. CASE index[h] \in Entry /\ last[h] \in Block /\ index[h].size = last[h].size
           /\ Stored(index[h].offset, h, last[h])
  <2>1. PICK o \in Offsets, b \in Block : o = index[h].offset /\ b = last[h]
    BY <1>2 DEF Entry
  <2>2. Written(o, h, b) /\ Kept(o, o + HeaderSize + b.size)
    BY <1>2, <2>1 DEF Stored
  <2>3. Written(o, h, b)' /\ Kept(o, o + HeaderSize + b.size)'
    BY <2>2, StoredStays
  <2>4. Stored(o, h, b)'
    BY <2>3 DEF Stored
  <2>5. Stored(index[h].offset, h, last[h])'
    BY <2>1, <2>4 DEF Stored, Written, Kept, HeaderAt, Intact, Covered
  <2> QED
    BY <1>2, <2>1, <2>5 DEF ContentAt
<1> QED
  BY <1>1, <1>2 DEF ContentAt
(* The other writers can still rely on what they relied on. *)
LEMMA UnderwayStays ==
  ASSUME SInv, DiskSound', KeptStays, BytesStay, FilesGrow,
         NEW w \in Writers, OthersStay(w), NEW v \in Writers \ {w}, Underway(v)
  PROVE  Underway(v)'
<1>1. CASE pc[v] \notin {"header"} \union Landed
  BY <1>1 DEF OthersStay, Underway, Landed
<1>2. CASE pc[v] \in {"header"} \union Landed
  <2>1. pc[v] # "idle" /\ pc'[v] = pc[v]
    BY <1>2 DEF Landed, OthersStay
  <2>2. PICK o \in Offsets, h \in Heights, b \in Block, n \in Nat :
          /\ o = job[v].offset /\ h = job[v].height /\ b = job[v].block /\ n = job[v].saved
          /\ n = o + HeaderSize + b.size /\ n <= MaxOffset /\ o \in Nat /\ b.size \in Nat /\ b.size > 0
    BY <2>1, JobSpan
  <2>3. o = job'[v].offset /\ h = job'[v].height /\ b = job'[v].block /\ n = job'[v].saved
    BY <2>1, <2>2 DEF OthersStay
  <2>4. CASE pc[v] = "header"
    <3>1. Intact(o, h, b) /\ Covered(o, HeaderSize + b.size)
      BY <2>2, <2>4 DEF Underway
    <3>2. \A c \in Offsets : o <= c /\ c < n => data'[c] = data[c]
      BY <2>2, <2>4 DEF OthersStay, Holding
    <3>4. Covered(o, HeaderSize + b.size)'
      BY <2>2, <3>1, CoveredStays DEF SInv
    <3>5. Intact(o, h, b)'
      BY <2>2, <3>1, <3>2, BytesTell
    <3> QED
      BY <2>1, <2>3, <2>4, <3>4, <3>5 DEF Underway, Landed, Intact, Covered
  <2>5. CASE pc[v] \in Landed
    <3>1. Kept(o, n)
      BY <2>2, <2>5 DEF Underway
    <3>2. Kept(o, n)'
      BY <2>2, <3>1 DEF KeptStays
    <3>3. Kept(job[v].offset, job[v].saved)'
      BY <2>3, <3>2 DEF Kept
    <3>4. CASE pc[v] = "publish"
      <4>1. Written(o, h, b) /\ Kept(o, o + HeaderSize + b.size)
        BY <2>2, <3>1, <3>4 DEF Underway
      <4>2. Written(o, h, b)'
        BY <4>1, StoredStays
      <4>3. Written(job[v].offset, job[v].height, job[v].block)'
        BY <2>3, <4>2 DEF Written, HeaderAt, Intact, Covered
      <4> QED
        BY <2>1, <3>3, <3>4, <4>3 DEF Underway
    <3> QED
      BY <2>1, <2>5, <3>3, <3>4 DEF Underway, Landed
  <2> QED
    BY <1>2, <2>4, <2>5
<1> QED
  BY <1>1, <1>2

(***************************************************************************)
(* A step keeps TInv if it spares what is kept, and if what it publishes,  *)
(* marks and relies on is kept.                                            *)
(***************************************************************************)
LEMMA SparingKeepsT ==
  ASSUME TInv, SInv', History', KeptStays, BytesStay, FilesGrow,
         \A v \in Writers : Underway(v)',
         \A h \in Heights : (index'[h] = index[h] /\ last'[h] = last[h]) \/ ContentAt(h)',
         \A o \in Offsets : Sealing(data'[o]) =>
            Sealing(data[o]) \/ Kept(o, o + 1)',
         header' = header \/ MarkKept'
  PROVE  TInv'
<1>1. SInv /\ DiskSound /\ DiskSound'
  BY DEF TInv, SInv
<1>2. Content'
  <2>1. \A h \in Heights : ContentAt(h)'
    BY <1>1, ContentStays DEF TInv, Content
  <2> QED
    BY <2>1 DEF Content
<1>3. HeadersKept'
  <2> SUFFICES ASSUME NEW o \in Offsets, Sealing(data'[o]) PROVE Kept(o, o + 1)'
    BY DEF HeadersKept
  <2>1. CASE Sealing(data[o])
    <3>1. Kept(o, o + 1)
      BY <2>1 DEF TInv, HeadersKept
    <3>2. PICK n \in Nat : n = o + 1
      BY OffsetFacts
    <3>3. Kept(o, n)'
      BY <3>1, <3>2, OffsetFacts DEF KeptStays
    <3> QED
      BY <3>2, <3>3
  <2> QED
    BY <2>1
<1>4. MarkKept'
  <2>1. CASE header' = header
    <3>1. header.next_write_offset \in Nat
      BY <1>1 DEF DiskSound
    <3>2. CASE header.next_write_offset > 0
      <4>1. PICK o \in Nat, n \in Nat : n = header.next_write_offset /\ o = n - 1
        BY <3>1, <3>2
      <4>2. Kept(o, n)
        BY <3>2, <4>1 DEF TInv, MarkKept
      <4>3. Kept(o, n)'
        BY <4>1, <4>2 DEF KeptStays
      <4> QED
        BY <2>1, <4>1, <4>3 DEF MarkKept, Kept
    <3> QED
      BY <2>1, <3>2 DEF MarkKept
  <2> QED
    BY <2>1
<1> QED
  BY <1>2, <1>3, <1>4 DEF TInv

(* A step of w in an open store. *)
LEMMA StepKeepsT ==
  ASSUME TInv, SInv', History', KeptStays, BytesStay, FilesGrow,
         NEW w \in Writers, OthersStay(w), Underway(w)',
         \A h \in Heights : (index'[h] = index[h] /\ last'[h] = last[h]) \/ ContentAt(h)',
         \A o \in Offsets : Sealing(data'[o]) =>
            Sealing(data[o]) \/ Kept(o, o + 1)',
         header' = header \/ MarkKept'
  PROVE  TInv'
<1>1. \A v \in Writers : Underway(v)'
  BY UnderwayStays DEF TInv, SInv
<1> QED
  BY <1>1, SparingKeepsT
-----------------------------------------------------------------------------
(* The steps of a writer keep TInv. *)

(* A step that leaves the data files alone changes no byte of them. *)
LEMMA SameFiles == ASSUME SInv, UNCHANGED <<data, flen>> PROVE BytesStay /\ FilesGrow
BY DEF SInv, DiskSound, BytesStay, FilesGrow

(* A step of w that leaves the bytes and the locals of the others alone. *)
LEMMA OthersUntouched ==
  ASSUME SInv, NEW w \in Writers, NEW p, Goto(w, p) \/ pc' = pc,
         \A v \in Writers \ {w} : job'[v] = job[v],
         UNCHANGED data \/
           \A v \in Writers \ {w} : pc[v] \in Holding =>
             \A c \in Offsets : job[v].offset <= c /\ c < job[v].saved => data'[c] = data[c]
  PROVE  OthersStay(w)
<1>1. pc \in [Writers -> Stages]
  BY DEF SInv, LocalTypes
<1>2. \A v \in Writers \ {w} : pc'[v] = pc[v]
  BY <1>1 DEF Goto
<1> QED
  BY <1>2 DEF OthersStay

(* Nothing is learnt by a step that leaves the ghost history alone. *)
LEMMA HistorySame == ASSUME History, UNCHANGED <<mode, known>> PROVE History'
BY DEF History, known

(* Entering write_block keeps the content invariant. *)
LEMMA BeginWriteT ==
  ASSUME TInv, NEW w \in Writers, NEW h \in Heights, NEW b \in Block, BeginWrite(w, h, b)
  PROVE  TInv'
<1>1. /\ mode = "open" /\ R!ReserveSpace(w, HeaderSize + b.size) /\ mode' = mode
      /\ UNCHANGED <<index, header, data, flen, last, loose, failures, crashes>>
      /\ Goto(w, "resolve") /\ SInv /\ pc \in [Writers -> Stages]
  BY DEF TInv, SInv, LocalTypes, BeginWrite, BeginWriteOf, disk, session
<1>2. SInv' /\ History'
  BY <1>1, BeginWriteKeeps DEF TInv, History
<1>3. b.size \in Sizes
  BY BlockFacts
<1>4. KeptStays
  BY <1>1, <1>3, ReserveKept
<1>5. BytesStay /\ FilesGrow
  BY <1>1, SameFiles
<1>6. OthersStay(w)
  BY <1>1, BeginWriteJobs DEF OthersStay
<1>7. Underway(w)'
  <2>1. pc'[w] = "resolve"
    BY <1>1 DEF Goto
  <2> QED
    BY <2>1 DEF Underway, Landed
<1> QED
  BY <1>1, <1>2, <1>4, <1>5, <1>6, <1>7, StepKeepsT

(* A file only grows by a write into it. *)
LEMMA GrownGrows ==
  ASSUME SInv, NEW o \in Offsets, NEW n \in Nat,
         \/ flen' = Grown(o, n)
         \/ flen' = [flen EXCEPT ![FileOf(o)] = Larger(@, 0)]
         \/ flen' = flen
  PROVE  FilesGrow /\ (flen' = Grown(o, n) /\ n # 0 => Covered(o, n)')
<1>1. FileOf(o) \in Files /\ flen \in [Files -> Int] /\ LocalOffset(o) \in Nat
  BY SplitFacts, OffsetFacts DEF Files, SInv, DiskSound
<1> QED
  BY <1>1 DEF Grown, Larger, FilesGrow, Covered

(***************************************************************************)
(* A step of w that writes within the extent it holds, short of a header.  *)
(***************************************************************************)
LEMMA WithinKeepsT ==
  ASSUME TInv, SInv', NEW w \in Writers, pc[w] \in Holding, NEW p, Goto(w, p),
         UNCHANGED <<index, header, reserve, session, job, known>>,
         NEW n \in 0 .. HeaderSize + job[w].block.size,
         \/ flen' = Grown(job[w].offset, n)
         \/ flen' = [flen EXCEPT ![FileOf(job[w].offset)] = Larger(@, 0)]
         \/ flen' = flen,
         \A c \in Offsets : \/ data'[c] = data[c]
                            \/ /\ job[w].offset <= c /\ c < job[w].saved
                               /\ ~Sealing(data'[c]),
         Underway(w)'
  PROVE  TInv'
<1>1. SInv /\ mode = "open" /\ mode' = mode /\ UNCHANGED <<last, mode, known, reserve>>
  BY WriterOpen DEF TInv, session, known, Holding
<1>2. History' /\ KeptStays
  BY <1>1, HistorySame, SameKept DEF TInv
<1>3. PICK o \in Offsets, m \in Nat :
        o = job[w].offset /\ o \in Nat /\ n \in Nat /\ m = job[w].saved
  <2>1. pc[w] # "idle"
    BY DEF Holding
  <2> QED
    BY <1>1, <2>1, JobSpan
<1>4. FilesGrow
  BY <1>1, <1>3, GrownGrows
<1>5. ASSUME NEW c \in Offsets, c < job[w].offset \/ job[w].saved <= c
      PROVE  data'[c] = data[c]
  <2>1. c \in Nat /\ (c < o \/ m <= c)
    BY <1>3, <1>5, OffsetFacts
  <2>2. ~(o <= c /\ c < m)
    BY <1>3, <2>1
  <2> QED
    BY <1>3, <2>2
<1>6. /\ BytesStay
      /\ \A v \in Writers \ {w} : pc[v] \in Holding =>
           \A c \in Offsets : job[v].offset <= c /\ c < job[v].saved => data'[c] = data[c]
  BY <1>1, <1>5, OwnExtent
<1>7. OthersStay(w)
  BY <1>1, <1>6, OthersUntouched
<1>8. \A c \in Offsets : Sealing(data'[c]) => Sealing(data[c])
  OBVIOUS
<1> QED
  BY <1>1, <1>2, <1>4, <1>6, <1>7, <1>8, StepKeepsT

(* resolve_file keeps the content invariant. *)
LEMMA ResolveT ==
  ASSUME TInv, NEW w \in Writers, Resolve(w) \/ ResolveFails(w)
  PROVE  TInv'
<1>1. /\ pc[w] = "resolve" /\ UNCHANGED <<index, header, data, reserve, session, job, known>>
      /\ Goto(w, "payload") \/ Goto(w, "release")
      /\ flen' = [flen EXCEPT ![FileOf(job[w].offset)] = Larger(@, 0)] \/ flen' = flen
  BY DEF Resolve, ResolveFails, BreakOff
<1>2. SInv /\ SInv' /\ pc \in [Writers -> Stages]
  BY ResolveKeeps DEF TInv, SInv, LocalTypes
<1>3. 0 \in 0 .. HeaderSize + job[w].block.size
  BY <1>1, <1>2, JobSpan
<1>4. Underway(w)'
  <2>1. pc'[w] \in {"payload", "release"}
    BY <1>1, <1>2 DEF Goto
  <2> QED
    BY <2>1 DEF Underway, Landed
<1> QED
  BY <1>1, <1>2, <1>3, <1>4, WithinKeepsT DEF Holding

(* Payload, header and torn cells are told apart by their kind, and only the last cell of a
   header completes one. *)
LEMMA CellsDiffer ==
  /\ \A h, b, i : PayloadCell(h, b, i).kind = "payload" /\ ~Sealing(PayloadCell(h, b, i))
  /\ \A h, b : HeaderCell(h, b).kind = "header"
  /\ \A h, b, i : i # 0 => HeaderPart(h, b, i).kind = "rest"
  /\ TornCell.kind = "torn" /\ ~Sealing(TornCell)
  /\ \A h, b : \A i \in 0 .. HeaderSize - 2 : ~Sealing(HeaderPart(h, b, i))
<1>1. \A h, b, i : PayloadCell(h, b, i).kind = "payload"
  BY DEF PayloadCell
<1>2. \A h, b : HeaderCell(h, b).kind = "header"
  BY DEF HeaderCell
<1>3. \A h, b, i : RestCell(h, b, i).kind = "rest" /\ RestCell(h, b, i).pos = i
  BY DEF RestCell
<1>4. TornCell.kind = "torn"
  BY DEF TornCell
<1>5. \A c : Sealing(c) => c.kind = "header" \/ c.kind = "rest"
  BY <1>2, <1>3 DEF Sealing, HeaderPart
<1>6. \A h, b, i : i # 0 => HeaderPart(h, b, i) = RestCell(h, b, i)
  BY DEF HeaderPart
<1>7. \A h, b : HeaderPart(h, b, 0) = HeaderCell(h, b)
  BY DEF HeaderPart
<1>8. ASSUME NEW h, NEW b, NEW i \in 0 .. HeaderSize - 2 PROVE ~Sealing(HeaderPart(h, b, i))
  <2>1. HeaderSize - 1 # 0 /\ i # HeaderSize - 1
    OBVIOUS
  <2>2. \A c : Sealing(c) => c.kind = "rest" /\ c.pos = HeaderSize - 1
    BY <1>3, <1>6, <2>1 DEF Sealing
  <2>3. CASE i = 0
    BY <1>2, <1>7, <2>2, <2>3
  <2>4. CASE i # 0
    BY <1>3, <1>6, <2>1, <2>2, <2>4
  <2> QED
    BY <2>3, <2>4
<1> QED
  BY <1>1, <1>2, <1>3, <1>4, <1>5, <1>6, <1>8

(* The payload of w lies behind its header, within its extent. *)
LEMMA PayloadWithin ==
  ASSUME SInv, NEW w \in Writers, pc[w] # "idle", NEW n \in 0 .. job[w].block.size,
         data' = WithPayload(w, n)
  PROVE  \A c \in Offsets : \/ data'[c] = data[c]
                            \/ /\ job[w].offset <= c /\ c < job[w].saved
                               /\ ~Sealing(data'[c]) /\ data'[c].kind = "payload"
<1>1. PICK o \in Offsets, m \in Nat, k \in Nat :
        /\ o = job[w].offset /\ m = job[w].saved /\ k = job[w].block.size
        /\ m = o + HeaderSize + k /\ n \in Nat /\ n <= k /\ o \in Nat
  BY JobSpan
<1> SUFFICES ASSUME NEW c \in Offsets, data'[c] # data[c]
             PROVE  o <= c /\ c < m /\ ~Sealing(data'[c]) /\ data'[c].kind = "payload"
  BY <1>1
<1>2. c \in Nat
  BY OffsetFacts
<1> DEFINE i == c - (o + HeaderSize - 1)
<1>3. data'[c] = IF i \in 1 .. n THEN PayloadCell(job[w].height, job[w].block, i) ELSE data[c]
  BY <1>1 DEF WithPayload
<1>4. i \in 1 .. n /\ data'[c] = PayloadCell(job[w].height, job[w].block, i)
  BY <1>3
<1>5. o <= c /\ c < m
  BY <1>1, <1>2, <1>4
<1>6. ~Sealing(data'[c])
  BY <1>4, CellsDiffer
<1>7. data'[c].kind = "payload"
  BY <1>4 DEF PayloadCell
<1> QED
  BY <1>5, <1>6, <1>7

(* Writing the payload keeps the content invariant: no finished block is under the reservation.
   *)
LEMMA PayloadT ==
  ASSUME TInv, NEW w \in Writers, WritePayload(w) \/ PayloadFails(w)
  PROVE  TInv'
<1>1. SInv /\ SInv' /\ pc \in [Writers -> Stages]
  BY PayloadKeeps DEF TInv, SInv, LocalTypes
<1>2. pc[w] = "payload" /\ UNCHANGED <<index, header, reserve, session, job, known>>
  BY DEF WritePayload, PayloadFails
<1>3. PICK o \in Offsets, h \in Heights, b \in Block :
        /\ o = job[w].offset /\ h = job[w].height /\ b = job[w].block
        /\ b.size \in Nat /\ b.size > 0 /\ o \in Nat /\ o + (HeaderSize + b.size) <= MaxOffset
  BY <1>1, <1>2, JobSpan
<1>4. CASE WritePayload(w)
  <2>1. /\ data' = WithPayload(w, b.size) /\ flen' = Grown(o, HeaderSize + b.size) /\ Goto(w, "header")
    BY <1>3, <1>4 DEF WritePayload
  <2>2. b.size \in 0 .. job[w].block.size /\ HeaderSize + b.size \in 0 .. HeaderSize + job[w].block.size
    BY <1>3
  <2>3. \A c \in Offsets : \/ data'[c] = data[c]
                           \/ /\ job[w].offset <= c /\ c < job[w].saved
                              /\ ~Sealing(data'[c])
    BY <1>1, <1>2, <2>1, <2>2, PayloadWithin
  <2>4. Covered(o, HeaderSize + b.size)'
    <3>1. PICK n \in Nat : n = HeaderSize + b.size /\ n # 0
      BY <1>3
    <3>2. Covered(o, n)'
      BY <1>1, <2>1, <3>1, GrownGrows
    <3> QED
      BY <3>1, <3>2
  <2>5. ASSUME NEW i \in 1 .. b.size PROVE data'[o + HeaderSize - 1 + i] = PayloadCell(h, b, i)
    <3>1. o + HeaderSize - 1 + i \in Offsets /\ (o + HeaderSize - 1 + i) - (o + HeaderSize - 1) = i
      BY <1>3, BlockStoreAssumption DEF Offsets
    <3> QED
      BY <1>3, <2>1, <3>1 DEF WithPayload
  <2>6. Underway(w)'
    <3>1. pc'[w] = "header" /\ job' = job
      BY <1>1, <1>2, <2>1 DEF Goto
    <3> QED
      BY <1>3, <2>4, <2>5, <3>1 DEF Underway, Intact, Covered, Landed
  <2> QED
    BY <1>1, <1>2, <1>3, <2>1, <2>2, <2>3, <2>6, WithinKeepsT DEF Holding
<1>5. CASE PayloadFails(w)
  <2>1. PICK n \in 0 .. b.size - 1 :
          /\ data' = WithPayload(w, n)
          /\ flen' = flen \/ flen' = Grown(job[w].offset, HeaderSize + n)
    BY <1>3, <1>5 DEF PayloadFails
  <2>2. n \in 0 .. job[w].block.size /\ HeaderSize + n \in 0 .. HeaderSize + job[w].block.size
    BY <1>3
  <2>3. \A c \in Offsets : \/ data'[c] = data[c]
                           \/ /\ job[w].offset <= c /\ c < job[w].saved
                              /\ ~Sealing(data'[c])
    BY <1>1, <1>2, <2>1, <2>2, PayloadWithin
  <2>4. Goto(w, "release")
    BY <1>5 DEF PayloadFails, BreakOff
  <2>5. Underway(w)'
    <3>1. pc'[w] = "release"
      BY <1>1, <2>4 DEF Goto
    <3> QED
      BY <3>1 DEF Underway, Landed
  <2> QED
    BY <1>1, <1>2, <2>1, <2>2, <2>3, <2>4, <2>5, WithinKeepsT DEF Holding
<1> QED
  BY <1>4, <1>5

(* A torn block header keeps the content invariant: the height keeps its earlier entry. *)
LEMMA HeaderFailsT ==
  ASSUME Tidy, TInv, NEW w \in Writers, HeaderFails(w)
  PROVE  TInv'
<1>1. SInv /\ SInv' /\ pc \in [Writers -> Stages] /\ data \in [Offsets -> Cell]
  BY HeaderKeeps DEF TInv, SInv, LocalTypes, DiskSound
<1>2. /\ pc[w] = "header" /\ UNCHANGED <<index, header, flen, reserve, session, job, known>>
      /\ MayBreak /\ Goto(w, "release")
  BY DEF HeaderFails, BreakOff
<1>3. ~Syncing
  <2>1. failures \in Nat /\ crashes \in Nat /\ MaxFailures \in Nat
    BY BlockStoreAssumption DEF TInv, History
  <2> QED
    BY <1>2, <2>1 DEF MayBreak, Tidy
<1>4. PICK n \in 0 .. HeaderSize :
        /\ n < HeaderSize
        /\ \/ data' = WithHeader(w, n)
           \/ n < HeaderSize /\ data' = [WithHeader(w, n) EXCEPT ![job[w].offset + n] = TornCell]
  <2>1. ~WriteHeader(w)
    <3>1. pc'[w] = "release"
      BY <1>1, <1>2 DEF Goto
    <3> QED
      BY <1>1, <3>1 DEF WriteHeader, Goto
  <2> QED
    BY <1>1, <1>3, <2>1, HeaderWrites
<1>5. PICK o \in Offsets, m \in Nat :
        /\ o = job[w].offset /\ m = job[w].saved /\ o \in Nat /\ o + HeaderSize < m
        /\ 0 \in 0 .. HeaderSize + job[w].block.size
  BY <1>1, <1>2, JobSpan
<1>6. ASSUME NEW d \in Offsets
      PROVE  \/ data'[d] = data[d]
             \/ job[w].offset <= d /\ d < job[w].saved /\ ~Sealing(data'[d])
  <2>1. /\ \A i \in 0 .. n - 1 : data'[o + i] = HeaderPart(job[w].height, job[w].block, i)
        /\ d < o \/ o + n <= d =>
             data'[d] = data[d] \/ (d = o + n /\ n < HeaderSize /\ data'[d] = TornCell)
    BY <1>1, <1>2, <1>4, <1>5, HeaderCellsAre
  <2>2. d \in Nat /\ n \in Nat
    BY OffsetFacts
  <2>3. CASE d = o + n /\ data'[d] = TornCell
    <3>1. o <= d /\ d < m
      BY <1>4, <1>5, <2>2, <2>3
    <3> QED
      BY <1>5, <2>3, <3>1, CellsDiffer
  <2>4. CASE o <= d /\ d < o + n
    <3>1. PICK i \in 0 .. HeaderSize - 2 : d = o + i /\ i \in 0 .. n - 1 /\ d < m
      <4>1. d - o \in 0 .. HeaderSize - 2 /\ d = o + (d - o) /\ d - o \in 0 .. n - 1 /\ d < m
        BY <1>4, <1>5, <2>2, <2>4
      <4> QED
        BY <4>1
    <3>2. ~Sealing(data'[d])
      BY <2>1, <3>1, CellsDiffer
    <3> QED
      BY <1>5, <2>4, <3>1, <3>2
  <2> QED
    BY <1>5, <2>1, <2>2, <2>3, <2>4
<1>7. Underway(w)'
  <2>1. pc'[w] = "release"
    BY <1>1, <1>2 DEF Goto
  <2> QED
    BY <2>1 DEF Underway, Landed
<1> QED
  BY <1>1, <1>2, <1>5, <1>6, <1>7, WithinKeepsT DEF Holding

(* Part of a finished range is finished. *)
LEMMA KeptPart ==
  SInv => \A o, n, p, m \in Nat : Kept(o, n) /\ o <= p /\ m <= n => Kept(p, m)
BY KeptWithin

(* The same of the next state. *)
LEMMA KeptPartNext ==
  (SInv => \A o, n, p, m \in Nat : Kept(o, n) /\ o <= p /\ m <= n => Kept(p, m))'
BY KeptPart, PTL

(* The header that completes a record keeps the content invariant. *)
LEMMA WriteHeaderT ==
  ASSUME TInv, NEW w \in Writers, WriteHeader(w)
  PROVE  TInv'
<1>1. SInv /\ SInv' /\ pc \in [Writers -> Stages] /\ data \in [Offsets -> Cell]
      /\ DiskSound /\ DiskSound'
  BY HeaderKeeps DEF TInv, SInv, LocalTypes, DiskSound
<1>2. /\ pc[w] = "header" /\ UNCHANGED <<index, header, session, job, known>> /\ Goto(w, "publish")
      /\ data' = WithHeader(w, HeaderSize)
      /\ flen' = Grown(job[w].offset, HeaderSize) /\ R!Land(w)
  BY DEF WriteHeader
<1>3. mode = "open" /\ mode' = "open" /\ UNCHANGED <<mode, last>> /\ Working(w)
  BY <1>1, <1>2, WriterOpen DEF session, known
<1>4. PICK o \in Offsets, h \in Heights, b \in Block, m \in Nat :
        /\ o = job[w].offset /\ h = job[w].height /\ b = job[w].block /\ m = job[w].saved
        /\ m = o + HeaderSize + b.size /\ b.size \in Nat /\ b.size > 0 /\ o \in Nat /\ m <= MaxOffset
  BY <1>1, <1>2, JobSpan
<1>5. KeptStays /\ Kept(o, m)'
  BY <1>1, <1>2, <1>3, <1>4, LandKept DEF Working, Holding
<1>6. ASSUME NEW c \in Offsets, o <= c, c < o + HeaderSize PROVE Kept(c, c + 1)'
  <2>1. PICK p \in Nat : p = c + 1 /\ c \in Nat /\ p <= m
    BY <1>4, <1>6, OffsetFacts
  <2>2. Kept(c, p)'
    BY <1>1, <1>4, <1>5, <1>6, <2>1, KeptPartNext
  <2> QED
    BY <2>1, <2>2
<1>7. FilesGrow
  BY <1>1, <1>2, <1>4, GrownGrows
<1>8. /\ \A i \in 0 .. HeaderSize - 1 : data'[o + i] = HeaderPart(h, b, i)
      /\ \A c \in Offsets : c < o \/ o + HeaderSize <= c => data'[c] = data[c]
  <2>1. HeaderSize \in 0 .. HeaderSize
    OBVIOUS
  <2> QED
    BY <1>1, <1>2, <1>4, <2>1, HeaderCellsAre
<1>9. /\ BytesStay
      /\ \A v \in Writers \ {w} : pc[v] \in Holding =>
           \A c \in Offsets : job[v].offset <= c /\ c < job[v].saved => data'[c] = data[c]
  <2>1. pc[w] \in Holding
    BY <1>2 DEF Holding
  <2>2. ASSUME NEW c \in Offsets, c < job[w].offset \/ job[w].saved <= c
        PROVE  data'[c] = data[c]
    <3>1. c < o \/ o + HeaderSize <= c
      BY <1>4, <2>2, OffsetFacts
    <3> QED
      BY <1>8, <3>1
  <2> QED
    BY <1>1, <2>1, <2>2, OwnExtent
<1>10. OthersStay(w)
  BY <1>1, <1>2, <1>9, OthersUntouched
<1>11. Written(o, h, b)'
  <2>1. Intact(o, h, b) /\ Covered(o, HeaderSize + b.size)
    BY <1>2, <1>4 DEF TInv, Underway
  <2>2. HeaderAt(o, h, b)' /\ data'[o] = HeaderCell(h, b)
    <3>1. 0 \in 0 .. HeaderSize - 1 /\ o + 0 = o /\ HeaderPart(h, b, 0) = HeaderCell(h, b)
      BY <1>4 DEF HeaderPart
    <3> QED
      BY <1>8, <3>1 DEF HeaderAt
  <2>3. ASSUME NEW i \in 1 .. b.size PROVE data'[o + HeaderSize - 1 + i] = PayloadCell(h, b, i)
    <3>1. o + HeaderSize - 1 + i \in Offsets /\ o + HeaderSize <= o + HeaderSize - 1 + i
      BY <1>4, BlockStoreAssumption DEF Offsets
    <3> QED
      BY <1>8, <2>1, <3>1 DEF Intact
  <2>4. Covered(o, HeaderSize + b.size)'
    BY <1>1, <1>4, <1>7, <2>1, CoveredStays
  <2> QED
    BY <1>4, <2>2, <2>3, <2>4 DEF Written, Intact
<1>12. Underway(w)'
  <2>1. pc'[w] = "publish" /\ job' = job
    BY <1>1, <1>2 DEF Goto
  <2>2. Kept(job[w].offset, job[w].saved)'
    BY <1>4, <1>5, <2>1 DEF Kept
  <2>3. Written(job[w].offset, job[w].height, job[w].block)'
    BY <1>4, <1>11, <2>1 DEF Written, HeaderAt, Intact, Covered
  <2> QED
    BY <2>1, <2>2, <2>3 DEF Underway
<1>13. History'
  BY <1>2, <1>3, HistorySame DEF TInv
<1>14. \A c \in Offsets : Sealing(data'[c]) => Sealing(data[c]) \/ Kept(c, c + 1)'
  <2> SUFFICES ASSUME NEW c \in Offsets PROVE data'[c] = data[c] \/ Kept(c, c + 1)'
    OBVIOUS
  <2>1. (c < o \/ o + HeaderSize <= c) \/ (o <= c /\ c < o + HeaderSize)
    BY <1>4, OffsetFacts
  <2> QED
    BY <1>6, <1>8, <2>1
<1> QED
  BY <1>1, <1>2, <1>3, <1>5, <1>7, <1>9, <1>10, <1>12, <1>13, <1>14, StepKeepsT

(* The steps in which write_block returns. *)
LEMMA ReturningT ==
  ASSUME TInv, NEW w \in Writers,
         \/ ReleaseReservation(w) \/ PublishFails(w) \/ CheckpointFails(w)
         \/ NoCheckpointDue(w) \/ CheckpointStore(w)
  PROVE  TInv'
<1>1. /\ pc[w] # "idle" /\ Return(w) /\ UNCHANGED <<index, header, data, flen, session, last, crashes>>
      /\ loose' = loose \/ MayReappear(w)
      /\ failures' = failures \/ failures' = failures + 1
  BY DEF ReleaseReservation, PublishFails, CheckpointFails, NoCheckpointDue, CheckpointStore,
         ReturnErr, ReturnOk, disk
<1>2. /\ SInv /\ SInv' /\ History /\ pc \in [Writers -> Stages]
      /\ job \in [Writers -> Job \union {NoJob}]
  BY ReturningKeeps DEF TInv, SInv, LocalTypes
<1>3. mode = "open" /\ mode' = "open" /\ mode' = mode
  BY <1>1, <1>2, WriterOpen DEF session
<1>4. History'
  <2>1. job[w].height \in Heights /\ job[w].block \in Block
    BY <1>1, <1>2, JobSpan
  <2>2. loose' \in [Heights -> SUBSET Block]
    BY <1>1, <1>2, <2>1 DEF History, MayReappear
  <2> QED
    BY <1>1, <1>2, <1>3, <2>2 DEF History
<1>5. KeptStays
  <2>1. CASE ReleaseReservation(w)
    BY <1>2, <1>3, <2>1, ReleaseKept DEF ReleaseReservation
  <2>2. CASE ~ReleaseReservation(w)
    BY <1>3, <2>2, SameKept DEF PublishFails, CheckpointFails, NoCheckpointDue, CheckpointStore
  <2> QED
    BY <2>1, <2>2
<1>6. BytesStay /\ FilesGrow
  BY <1>1, <1>2, SameFiles
<1>7. Goto(w, "idle") /\ \A v \in Writers \ {w} : job'[v] = job[v]
  BY <1>1, <1>2 DEF Return
<1>8. OthersStay(w)
  BY <1>1, <1>2, <1>7, OthersUntouched
<1>9. Underway(w)'
  <2>1. pc'[w] = "idle"
    BY <1>2, <1>7 DEF Goto
  <2> QED
    BY <2>1 DEF Underway, Landed
<1> QED
  BY <1>1, <1>2, <1>4, <1>5, <1>6, <1>8, <1>9, StepKeepsT

(* The extent of a writer is not empty. *)
LEMMA JobExtent ==
  ASSUME SInv, NEW w \in Writers, pc[w] # "idle"
  PROVE  \E o \in Nat, m \in Nat : o = job[w].offset /\ m = job[w].saved /\ o < m
<1>1. job[w].offset \in Nat /\ job[w].block.size \in Nat
  BY JobSpan
<1>2. job[w].saved = job[w].offset + HeaderSize + job[w].block.size
  BY JobSpan
<1> QED
  BY <1>1, <1>2

(* What a writer whose block has landed relies on stays true. *)
LEMMA OwnBlockStays ==
  ASSUME TInv, KeptStays, NEW w \in Writers, pc[w] \in Landed, job'[w] = job[w]
  PROVE  Kept(job[w].offset, job[w].saved)'
<1>1. pc[w] # "idle" /\ SInv
  BY DEF Landed, TInv
<1>2. PICK o \in Nat, m \in Nat : o = job[w].offset /\ m = job[w].saved /\ o < m
  BY <1>1, JobExtent
<1>3. Kept(o, m)
  BY <1>2 DEF TInv, Underway
<1>4. Kept(o, m)'
  BY <1>2, <1>3 DEF KeptStays
<1> QED
  BY <1>2, <1>4 DEF Kept

(* The index entry keeps the content invariant: it points to the record of the block just
   written. *)
LEMMA PublishT ==
  ASSUME TInv, NEW w \in Writers, Publish(w)
  PROVE  TInv'
<1>1. /\ pc[w] = "publish" /\ Goto(w, "advance")
      /\ index' = [index EXCEPT ![job[w].height] =
                     [offset |-> job[w].offset, size |-> job[w].block.size]]
      /\ last' = [last EXCEPT ![job[w].height] = job[w].block]
      /\ loose' = [loose EXCEPT ![job[w].height] =
                      IF job[w].alone THEN {} ELSE @ \union {job[w].block}]
      /\ UNCHANGED <<header, data, flen, reserve, session, job, failures, crashes>>
  BY DEF Publish, C!PublishEntry
<1>2. /\ SInv /\ SInv' /\ History /\ pc \in [Writers -> Stages]
      /\ index \in [Heights -> Entry \union {NoEntry}] /\ DiskSound'
  BY PublishKeeps DEF TInv, SInv, LocalTypes, DiskSound
<1>3. mode = "open" /\ mode' = "open" /\ UNCHANGED <<mode, reserve>>
  BY <1>1, <1>2, WriterOpen DEF session
<1>4. PICK o \in Offsets, h \in Heights, b \in Block :
        /\ o = job[w].offset /\ h = job[w].height /\ b = job[w].block /\ job[w].saved = o + HeaderSize + b.size
  BY <1>1, <1>2, JobSpan
<1>5. KeptStays /\ BytesStay /\ FilesGrow
  BY <1>1, <1>2, <1>3, SameKept, SameFiles
<1>6. History'
  <2>1. last' \in [Heights -> Block \union {Nothing}]
    BY <1>1, <1>2, <1>4 DEF History
  <2>2. loose' \in [Heights -> SUBSET Block]
    <3>1. PICK S : /\ S = IF job[w].alone THEN {} ELSE loose[h] \union {b}
                   /\ loose' = [loose EXCEPT ![h] = S]
      BY <1>1, <1>4
    <3>2. S \in SUBSET Block
      BY <1>2, <3>1 DEF History
    <3> QED
      BY <1>2, <3>1, <3>2 DEF History
  <2> QED
    BY <1>1, <1>2, <1>3, <2>1, <2>2 DEF History
<1>7. OthersStay(w)
  BY <1>1, <1>2, OthersUntouched
<1>8. Underway(w)'
  <2>1. pc'[w] = "advance" /\ pc[w] \in Landed /\ job' = job
    BY <1>1, <1>2 DEF Goto, Landed
  <2>2. Kept(job[w].offset, job[w].saved)'
    BY <1>5, <2>1, OwnBlockStays
  <2> QED
    BY <2>1, <2>2 DEF Underway
<1>9. Written(o, h, b)' /\ Kept(o, o + HeaderSize + b.size)'
  <2>1. Written(o, h, b) /\ Kept(o, o + HeaderSize + b.size)
    BY <1>1, <1>4 DEF TInv, Underway, Landed
  <2> QED
    BY <1>2, <1>5, <2>1, StoredStays
<1>10. ContentAt(h)'
  <2>1. PICK e : e = [offset |-> o, size |-> b.size]
    OBVIOUS
  <2>2. e \in Entry /\ e.offset = o /\ e.size = b.size
    BY <2>1, BlockFacts DEF Entry
  <2>3. index'[h] = e /\ last'[h] = b
    BY <1>1, <1>2, <1>4, <2>1 DEF History
  <2>4. Stored(o, h, b)'
    BY <1>9 DEF Stored
  <2>5. Stored(index[h].offset, h, last[h])'
    BY <2>2, <2>3, <2>4 DEF Stored, Written, Kept, HeaderAt, Intact, Covered
  <2> QED
    BY <2>2, <2>3, <2>5 DEF ContentAt
<1>11. \A g \in Heights : (index'[g] = index[g] /\ last'[g] = last[g]) \/ ContentAt(g)'
  <2>1. \A g \in Heights \ {h} : index'[g] = index[g] /\ last'[g] = last[g]
    BY <1>1, <1>2, <1>4 DEF History
  <2> QED
    BY <1>10, <2>1
<1> QED
  BY <1>1, <1>2, <1>5, <1>6, <1>7, <1>8, <1>11, StepKeepsT

(* The steps after the index entry that do not return. *)
LEMMA CheckpointT ==
  ASSUME TInv, NEW w \in Writers,
         \/ AdvanceFloor(w) \/ RaiseHighwater(w) \/ CheckpointDue(w) \/ CheckpointLoad(w)
         \/ CheckpointWrite(w)
  PROVE  TInv'
<1>1. /\ pc[w] \in Landed /\ pc[w] # "publish"
      /\ UNCHANGED <<index, data, flen, reserve, session, job, known>>
      /\ CheckpointWrite(w) \/ header' = header
      /\ \E p \in Landed \ {"publish"} : Goto(w, p) \/ pc' = pc
  BY DEF AdvanceFloor, RaiseHighwater, CheckpointDue, CheckpointLoad, CheckpointWrite, Landed,
         C!CompareExchange, C!CascadeRead, C!CascadeExchange, C!UpdateHighwater, disk, local
<1>2. PICK p \in Landed \ {"publish"} : Goto(w, p) \/ pc' = pc
  BY <1>1
<1>3. SInv /\ SInv' /\ History /\ pc \in [Writers -> Stages]
  <2>1. SInv'
    BY WriterInv DEF TInv, WriterStep
  <2> QED
    BY <2>1 DEF TInv, SInv, LocalTypes
<1>4. mode = "open" /\ mode' = "open" /\ UNCHANGED <<mode, reserve, known, last>> /\ pc[w] # "idle"
  BY <1>1, <1>3, WriterOpen DEF session, known, Landed
<1>5. KeptStays /\ BytesStay /\ FilesGrow /\ History'
  BY <1>1, <1>3, <1>4, SameKept, SameFiles, HistorySame
<1>6. OthersStay(w)
  BY <1>1, <1>2, <1>3, OthersUntouched
<1>7. Kept(job[w].offset, job[w].saved)'
  BY <1>1, <1>5, OwnBlockStays
<1>8. Underway(w)'
  <2>1. pc'[w] \in Landed /\ pc'[w] # "publish"
    BY <1>1, <1>2, <1>3 DEF Goto
  <2> QED
    BY <1>7, <2>1 DEF Underway, Landed
<1>9. CASE CheckpointWrite(w)
  <2>1. header' = [next_write_offset |-> job[w].saved, max_height |-> snap[w].max_height,
                   highest_contiguous |-> snap[w].highest_contiguous]
    BY <1>9 DEF CheckpointWrite
  <2>2. PICK o \in Nat, m \in Nat : o = job[w].offset /\ m = job[w].saved /\ o < m
    BY <1>3, <1>4, JobExtent
  <2>3. header'.next_write_offset = m
    BY <2>1, <2>2
  <2>4. Kept(o, m)'
    BY <1>1, <1>7, <2>2 DEF Kept
  <2>5. PICK k \in Nat : k = m - 1
    BY <2>2
  <2>6. Kept(k, m)'
    BY <1>3, <2>2, <2>4, <2>5, KeptPartNext
  <2>7. MarkKept'
    BY <2>3, <2>5, <2>6 DEF MarkKept, Kept
  <2> QED
    BY <1>1, <1>3, <1>4, <1>5, <1>6, <1>8, <2>7, StepKeepsT
<1> QED
  BY <1>1, <1>3, <1>4, <1>5, <1>6, <1>8, <1>9, StepKeepsT
-----------------------------------------------------------------------------
(* Sessions end and begin. *)

(* What read_block answers is the block behind the entry. *)
LEMMA ReadIsLast ==
  ASSUME Tidy, TInv, NEW h \in Heights
  PROVE  ReadBlock(h) = last[h]
<1>1. C!ReadEntry(h) = index[h]
  BY DEF C!ReadEntry, C!Heights, Heights
<1>2. CASE index[h] = NoEntry /\ last[h] = Nothing
  BY <1>1, <1>2 DEF ReadBlock, NoEntry
<1>3. CASE index[h] \in Entry /\ last[h] \in Block /\ index[h].size = last[h].size
           /\ Stored(index[h].offset, h, last[h])
  <2>1. PICK e \in Entry, b \in Block : e = index[h] /\ b = last[h]
    BY <1>3
  <2>2. e.size = b.size /\ b.size # 0 /\ b.size <= MaxBlockSize
    BY <1>3, <2>1, BlockFacts DEF Tidy
  <2>3. data[e.offset] = HeaderCell(h, b) /\ HeaderAt(e.offset, h, b)
        /\ Intact(e.offset, h, b) /\ Covered(e.offset, HeaderSize + e.size)
    BY <1>3, <2>1, <2>2 DEF Stored, Written
  <2>4. data[e.offset].kind = "header" /\ data[e.offset].height = h /\ data[e.offset].block = b
    BY <2>3 DEF HeaderCell
  <2> QED
    BY <1>1, <2>1, <2>2, <2>3, <2>4 DEF ReadBlock
<1> QED
  BY <1>2, <1>3 DEF TInv, Content, ContentAt

(* A step of open, recover or Drop: nothing is in progress before or after. *)
LEMMA SessionKeepsT ==
  ASSUME TInv, SInv', History', AllIdle', Frontier <= Frontier',
         UNCHANGED <<index, data, flen, last>>,
         header' = header \/ header'.next_write_offset <= Frontier'
  PROVE  TInv'
<1>1. SInv /\ KeptStays /\ BytesStay /\ FilesGrow
  BY FrontierMoves, SameFiles DEF TInv
<1>2. \A v \in Writers : Underway(v)'
  BY DEF AllIdle, Underway, Landed
<1>3. header' = header \/ MarkKept'
  <2>1. \A v \in Writers : ~R!Holds(v)'
    BY DEF SInv, AllIdle, Working, Holding
  <2>2. CASE header'.next_write_offset <= Frontier'
    BY <2>1, <2>2 DEF MarkKept, Kept
  <2> QED
    BY <2>2
<1> QED
  BY <1>1, <1>2, <1>3, SparingKeepsT

(* Drop keeps the content invariant: the header it writes carries the mark. *)
LEMMA CloseT == ASSUME TInv, Close PROVE TInv'
<1>1. /\ mode = "open" /\ mode' = "down" /\ UNCHANGED <<index, data, flen, last, known>>
      /\ pc' = [w \in Writers |-> "idle"]
      /\ \/ header' = header /\ data_highwater = 0
         \/ header' = [next_write_offset |-> data_highwater, max_height |-> height_highwater,
                       highest_contiguous |-> max_contiguous_height]
  BY DEF Close, MemoryGone, known
<1>2. SInv /\ SInv' /\ header.next_write_offset \in Nat /\ data_highwater \in Nat
  BY CloseKeeps, HoldFacts DEF TInv, SInv, DiskSound
<1>3. History' /\ AllIdle'
  BY <1>1 DEF TInv, History, known, AllIdle
<1>4. Frontier = data_highwater /\ Frontier' = header'.next_write_offset
  BY <1>1 DEF Frontier
<1>5. /\ Frontier <= Frontier'
      /\ header' = header \/ header'.next_write_offset <= Frontier'
  BY <1>1, <1>2, <1>4
<1> QED
  BY <1>1, <1>2, <1>3, <1>5, SessionKeepsT

(* Opening keeps the content invariant: after a clean stop the header covers every block. *)
LEMMA OpenT == ASSUME TInv, Open PROVE TInv'
<1>1. /\ mode = "down" /\ UNCHANGED <<index, header, data, flen, last, known, pc>>
      /\ \/ mode' = "recovering" /\ scan' = [next |-> header.next_write_offset, end |-> LayoutEnd,
                      progress |-> header.next_write_offset, window |-> W!EmptyWindow]
         \/ mode' = "refused"
  BY DEF Open, disk, local, known
<1>2. SInv /\ SInv' /\ header.next_write_offset \in Nat /\ AllIdle
  BY <1>1, OpenKeeps DEF TInv, SInv, DiskSound, Closed
<1>3. History' /\ AllIdle'
  BY <1>1, <1>2 DEF TInv, History, known, AllIdle
<1>4. Frontier = header.next_write_offset /\ Frontier' \in Nat
  BY <1>1, <1>2, FrontierNatNext DEF Frontier
<1>5. Frontier <= Frontier'
  <2>1. CASE mode' = "recovering"
    BY <1>1, <1>2, <1>4, <2>1 DEF Frontier
  <2>2. CASE mode' = "refused"
    <3>1. MaxOffset \in Nat
      BY BlockStoreAssumption
    <3> QED
      BY <1>1, <1>2, <1>4, <2>2, <3>1 DEF Frontier, Larger
  <2> QED
    BY <1>1, <2>1, <2>2
<1> QED
  BY <1>1, <1>2, <1>3, <1>5, SessionKeepsT

(* Moving the scan to the next file keeps the content invariant. *)
LEMMA ScanNextFileT == ASSUME TInv, ScanNextFile PROVE TInv'
<1>1. /\ mode = "recovering" /\ Cap # 0
      /\ UNCHANGED <<index, header, data, flen, last, known, pc>>
      /\ \/ mode' = mode /\ scan' = [scan EXCEPT !.next = R!NextFileStart(scan.next)]
         \/ mode' = "refused"
  BY DEF ScanNextFile, Scanning, disk, local, known
<1>2. SInv /\ SInv' /\ scan \in Scan /\ scan.next \in Nat /\ AllIdle
  BY <1>1, ScanNextFileKeeps DEF TInv, SInv, LocalTypes, Closed, Scan
<1>3. History' /\ AllIdle'
  BY <1>1, <1>2 DEF TInv, History, known, AllIdle
<1>4. RP!NextFileStart(scan.next) \in Nat /\ scan.next < RP!NextFileStart(scan.next)
  BY <1>1, <1>2, RP!NextFileStartAbove, AllocatorAssumption
<1>5. CASE mode' = mode /\ scan' = [scan EXCEPT !.next = R!NextFileStart(scan.next)]
  <2>1. scan'.next = RP!NextFileStart(scan.next)
    BY <1>2, <1>5 DEF Scan, R!NextFileStart, RP!NextFileStart
  <2>2. Frontier <= Frontier'
    BY <1>1, <1>2, <1>4, <1>5, <2>1 DEF Frontier
  <2> QED
    BY <1>1, <1>2, <1>3, <2>2, SessionKeepsT
<1>6. CASE mode' = "refused"
  <2>1. /\ header.next_write_offset \in Nat /\ MaxOffset \in Nat
        /\ scan.next < scan.end /\ scan.end <= MaxOffset /\ scan.end \in Nat
    BY <1>1, <1>2, BlockStoreAssumption DEF SInv, DiskSound, ScanFits, Scan, ScanNextFile, Scanning
  <2>2. Frontier <= Frontier'
    BY <1>1, <1>2, <1>6, <2>1 DEF Frontier, Larger
  <2> QED
    BY <1>1, <1>2, <1>3, <2>2, SessionKeepsT
<1> QED
  BY <1>1, <1>5, <1>6

(* A recovery that begins at the frontier finds no block. *)
LEMMA NothingToRecover == ASSUME TInv PROVE ~RecoverBlock
<1> SUFFICES ASSUME RecoverBlock PROVE FALSE
  OBVIOUS
<1>1. SInv /\ Scanning /\ BlockNext /\ mode = "recovering"
  BY DEF TInv, RecoverBlock, Scanning
<1>2. PICK h \in Heights, b \in Block :
        /\ scan.next \in Offsets /\ HeaderAt(scan.next, h, b)
        /\ scan.next + HeaderSize + b.size <= MaxOffset
  BY <1>1, ScanAccepts
<1>3. PICK c \in Nat : c = scan.next + HeaderSize - 1
  BY <1>2, OffsetFacts
<1>4. c \in Offsets /\ scan.next <= c /\ scan.next \in Nat
  BY <1>2, <1>3, OffsetFacts, BlockFacts, BlockStoreAssumption DEF Offsets
<1>5. data[c] = HeaderPart(h, b, HeaderSize - 1)
  <2>1. HeaderSize - 1 \in 0 .. HeaderSize - 1 /\ c = scan.next + (HeaderSize - 1)
    BY <1>3, <1>4
  <2> QED
    BY <1>2, <2>1 DEF HeaderAt
<1>6. Kept(c, c + 1)
  BY <1>4, <1>5 DEF TInv, HeadersKept, Sealing
<1> QED
  BY <1>1, <1>4, <1>6 DEF Kept, Frontier

(* The end of recovery keeps the content invariant: after a clean stop the scan found nothing
   new. *)
LEMMA FinishRecoveryT == ASSUME Tidy, TInv, FinishRecovery PROVE TInv'
<1>1. /\ mode = "recovering" /\ mode' = "open" /\ data_highwater' = scan.next
      /\ UNCHANGED <<index, header, data, flen, pc, failures, crashes>>
      /\ last' = [h \in Heights |->
                    IF ReadBlock(h) \in loose[h] THEN ReadBlock(h) ELSE last[h]]
      /\ loose' = [h \in Heights |-> {}]
  BY DEF FinishRecovery, FinishAs, disk, local
<1>2. SInv /\ SInv' /\ scan.next \in Nat /\ AllIdle /\ History
  BY <1>1, FinishRecoveryKeeps DEF TInv, SInv, LocalTypes, Closed, Scan
<1>3. last' = last
  <2>1. last' = [h \in Heights |-> last[h]]
    BY <1>1, ReadIsLast
  <2> QED
    BY <1>2, <2>1 DEF History
<1>4. History' /\ AllIdle'
  BY <1>1, <1>2, <1>3 DEF History, AllIdle
<1>5. Frontier <= Frontier'
  BY <1>1, <1>2 DEF Frontier
<1> QED
  BY <1>1, <1>2, <1>3, <1>4, <1>5, SessionKeepsT

(* A stuttering step keeps the content invariant. *)
LEMMA StutterT == TInv /\ UNCHANGED vars => TInv'
<1> SUFFICES ASSUME TInv, UNCHANGED vars PROVE TInv'
  OBVIOUS
<1>1. SInv'
  BY NextSInv DEF TInv
<1>2. UNCHANGED <<mode, reserve, scan, header, index, data, flen, pc, job, last, known>>
  BY DEF vars, disk, session, local, known
<1>3. History'
  BY <1>2, HistorySame DEF TInv
<1>4. \A o, n : Kept(o, n)' <=> Kept(o, n)
  BY <1>2 DEF Kept, Frontier, R!Holds, reserve
<1>5. KeptStays /\ BytesStay /\ FilesGrow
  BY <1>2, <1>4, SameFiles DEF KeptStays, TInv
<1>6. ASSUME NEW v \in Writers PROVE Underway(v)'
  <2>1. Frontier' = Frontier /\ rsv' = rsv
    BY <1>2 DEF Frontier, reserve
  <2>2. Underway(v) /\ UNCHANGED <<pc, job, data, flen>>
    BY <1>2 DEF TInv
  <2> QED
    BY <2>1, <2>2 DEF Underway, Kept, Written, HeaderAt, Intact, Covered, R!Holds
<1> QED
  BY <1>1, <1>2, <1>3, <1>5, <1>6, SparingKeepsT

(* An empty store satisfies the content invariant. *)
LEMMA InitTInv == Init => TInv
<1> SUFFICES ASSUME Init PROVE TInv
  OBVIOUS
<1>1. SInv
  BY InitSInv
<1>2. History
  BY DEF Init, History
<1>3. Content
  BY DEF Init, Content, ContentAt
<1>4. HeadersKept /\ MarkKept
  <2>1. \A o \in Offsets : data[o] = ZeroCell
    BY DEF Init
  <2>2. ~Sealing(ZeroCell)
    BY DEF Sealing, HeaderPart, HeaderCell, RestCell, ZeroCell
  <2>3. header.next_write_offset = 0
    BY DEF Init
  <2> QED
    BY <2>1, <2>2, <2>3 DEF HeadersKept, MarkKept
<1>5. \A w \in Writers : Underway(w)
  BY DEF Init, Underway, Landed
<1> QED
  BY <1>1, <1>2, <1>3, <1>4, <1>5 DEF TInv

(* Every step of a tidy store keeps the content invariant. *)
LEMMA NextTInv == ASSUME Tidy, TInv, [Next]_vars PROVE TInv'
<1>1. ~Crash /\ ~CheckpointProgress
  BY DEF Tidy, TInv, History, Crash, CheckpointProgress
<1>2. ASSUME NEW w \in Writers, WriterStep(w) \/ WriterFault(w) PROVE TInv'
  BY <1>2, ResolveT, PayloadT, WriteHeaderT, HeaderFailsT, ReturningT, PublishT, CheckpointT
     DEF WriterStep, WriterFault
<1> QED
  BY <1>1, <1>2, BeginWriteT, CloseT, OpenT, ScanNextFileT, NothingToRecover, FinishRecoveryT,
     StutterT DEF Next, RecoveryStep

(* In a tidy store, every height always holds the block its last write published. *)
THEOREM TInvAlways == Tidy => (Spec => []TInv)
<1> SUFFICES ASSUME Tidy PROVE Spec => []TInv
  OBVIOUS
<1>1. TInv /\ [Next]_vars => TInv'
  BY NextTInv
<1> QED
  BY InitTInv, <1>1, PTL DEF Spec

(***************************************************************************)
(* Any number of concurrent write_block calls, with I/O errors at any      *)
(* step, checkpoints, shutdowns and reopens: an open store answers every   *)
(* read_block with the block published last at that height.                *)
(***************************************************************************)
THEOREM StoreDurable == Tidy => (Spec => []Durable)
<1> SUFFICES ASSUME Tidy PROVE Spec => []Durable
  OBVIOUS
<1>1. TInv => Durable
  BY ReadIsLast DEF Durable
<1>2. Spec => []TInv
  BY TInvAlways
<1> QED
  BY <1>1, <1>2, PTL

(* Only a writer changes bytes, and only those of the extent it holds. *)
LEMMA NextBytesStay == ASSUME SInv, [Next]_vars PROVE BytesStay
<1>1. CASE data' = data
  BY <1>1 DEF BytesStay
<1>2. CASE data' # data
  <2>1. PICK w \in Writers :
          WritePayload(w) \/ PayloadFails(w) \/ WriteHeader(w) \/ HeaderFails(w)
    <3>1. UNCHANGED vars => data' = data
      BY DEF vars, disk
    <3>2. \A w \in Writers, h \in Heights, b \in Block : BeginWrite(w, h, b) => data' = data
      BY DEF BeginWrite, BeginWriteOf, disk
    <3>3. ASSUME NEW w \in Writers
          PROVE  /\ Resolve(w) \/ ResolveFails(w) \/ Publish(w) => data' = data
                 /\ AdvanceFloor(w) \/ RaiseHighwater(w) => data' = data
                 /\ CheckpointDue(w) \/ CheckpointLoad(w) \/ CheckpointWrite(w) => data' = data
                 /\ NoCheckpointDue(w) \/ CheckpointStore(w) => data' = data
                 /\ ReleaseReservation(w) \/ PublishFails(w) \/ CheckpointFails(w) => data' = data
      BY DEF Resolve, ResolveFails, Publish, AdvanceFloor, RaiseHighwater, CheckpointDue,
             CheckpointLoad, CheckpointWrite, NoCheckpointDue, CheckpointStore,
             ReleaseReservation, PublishFails, CheckpointFails, disk
    <3>4. Close \/ Crash \/ Open \/ RecoveryStep => data' = data
      BY DEF Close, Crash, Open, RecoveryStep, ScanNextFile, RecoverBlock, CheckpointProgress,
             FinishRecovery, FinishAs, disk
    <3> QED
      BY <1>2, <3>1, <3>2, <3>3, <3>4 DEF Next, WriterStep, WriterFault
  <2>2. pc[w] \in {"payload", "header"}
    BY <2>1 DEF WritePayload, PayloadFails, WriteHeader, HeaderFails
  <2>3. PICK o \in Offsets, m \in Nat, k \in Nat :
          /\ o = job[w].offset /\ m = job[w].saved /\ k = job[w].block.size
          /\ m = o + HeaderSize + k /\ o \in Nat
    <3>1. pc[w] # "idle"
      BY <2>2
    <3>2. /\ job[w].offset \in Offsets /\ job[w].offset \in Nat /\ job[w].block.size \in Nat
          /\ job[w].saved = job[w].offset + HeaderSize + job[w].block.size
      BY <3>1, JobSpan
    <3>3. job[w].saved \in Nat
      BY <3>2, BlockStoreAssumption
    <3> QED
      BY <3>2, <3>3, Zenon
  <2>4. ASSUME NEW c \in Offsets, c < job[w].offset \/ job[w].saved <= c
        PROVE  data'[c] = data[c]
    <3>1. c \in Nat /\ ~(o <= c /\ c < m)
      BY <2>3, <2>4, OffsetFacts
    <3>2. CASE WritePayload(w) \/ PayloadFails(w)
      <4>1. PICK n \in 0 .. job[w].block.size : data' = WithPayload(w, n)
        BY <2>3, <3>2 DEF WritePayload, PayloadFails
      <4> QED
        BY <2>2, <2>3, <3>1, <4>1, PayloadWithin
    <3>3. CASE WriteHeader(w) \/ HeaderFails(w)
      <4>1. PICK n \in 0 .. HeaderSize :
              \/ data' = WithHeader(w, n)
              \/ n < HeaderSize /\ data' = [WithHeader(w, n) EXCEPT ![job[w].offset + n] = TornCell]
        BY <3>3, HeaderWrites
      <4>2. \A d \in Offsets : d < job[w].offset \/ job[w].offset + n <= d =>
              data'[d] = data[d] \/ (d = job[w].offset + n /\ n < HeaderSize)
        BY <2>2, <4>1, HeaderCellsAre
      <4>3. c < o \/ (o + n <= c /\ (n < HeaderSize => c # o + n))
        BY <2>3, <3>1
      <4> QED
        BY <2>3, <4>2, <4>3
    <3> QED
      BY <2>1, <3>2, <3>3
  <2> QED
    BY <2>2, <2>4, OwnExtent DEF Holding
<1> QED
  BY <1>1, <1>2

(***************************************************************************)
(* While the store is open no step of any writer, successful or failed,    *)
(* changes a byte that an index entry refers to: a read_block that fetched *)
(* its entry may read the data whenever it gets to it.                     *)
(***************************************************************************)
THEOREM StoreBytesStable == Tidy => (Spec => PublishedBytesStable)
<1> SUFFICES ASSUME Tidy PROVE Spec => PublishedBytesStable
  OBVIOUS
<1>1. Spec => []TInv
  BY TInvAlways
<1>2. TInv /\ [Next]_vars =>
        [mode = "open" /\ mode' = "open" =>
           \A h \in Heights : \A o \in EntryBytes(h) : data'[o] = data[o]]_vars
  <2> SUFFICES ASSUME TInv, [Next]_vars, NEW h \in Heights, NEW c \in EntryBytes(h)
               PROVE  data'[c] = data[c]
    OBVIOUS
  <2>1. SInv /\ BytesStay
    BY NextBytesStay DEF TInv
  <2>2. /\ index[h] # NoEntry
        /\ c \in index[h].offset .. index[h].offset + HeaderSize + index[h].size - 1
    BY DEF EntryBytes
  <2>3. /\ index[h] \in Entry /\ last[h] \in Block /\ index[h].size = last[h].size
        /\ Stored(index[h].offset, h, last[h])
    BY <2>2 DEF TInv, Content, ContentAt
  <2>4. PICK o \in Offsets, b \in Block : o = index[h].offset /\ b = last[h]
    BY <2>3 DEF Entry
  <2>5. b.size \in Nat /\ o \in Nat /\ o + HeaderSize + b.size <= MaxOffset /\ MaxOffset \in Nat
    BY <2>3, <2>4, BlockFacts, OffsetFacts, BlockStoreAssumption DEF Stored, Written
  <2>6. PICK n \in Nat : n = o + HeaderSize + b.size
    BY <2>5
  <2>7. Kept(o, n)
    BY <2>3, <2>4, <2>5, <2>6 DEF Stored
  <2>8. c \in Offsets /\ o <= c /\ c < n
    BY <2>2, <2>3, <2>4, <2>5, <2>6 DEF Offsets
  <2>9. o < n
    BY <2>5, <2>6
  <2> QED
    BY <2>1, <2>5, <2>7, <2>8, <2>9 DEF BytesStay
<1> QED
  BY <1>1, <1>2, PTL DEF Spec, PublishedBytesStable
-----------------------------------------------------------------------------
(* The store implements HeightMap. *)

(* The state of the map, as the instance HM reads it off the store. *)
PhaseOf(p) == IF p = "idle" THEN "idle" ELSE IF p \in Unpublished THEN "pending" ELSE "applied"

MapContent == [h \in Heights |-> IF mode = "open" THEN ReadBlock(h) ELSE last[h]]
MapPhase == [w \in Writers |-> IF pc[w] = "idle" THEN "idle"
                               ELSE IF pc[w] \in Unpublished THEN "pending" ELSE "applied"]
MapOp == [w \in Writers |-> [height |-> job[w].height, block |-> job[w].block,
                             alone |-> job[w].alone]]

(* What a reader of a tidy store finds is what was published last. *)
LEMMA MapContentIsLast == ASSUME Tidy, TInv PROVE MapContent = last
<1>1. last \in [Heights -> Block \union {Nothing}]
  BY DEF TInv, History
<1>2. MapContent = [h \in Heights |-> last[h]]
  BY ReadIsLast DEF MapContent
<1> QED
  BY <1>1, <1>2

(* The map holds what was published last. *)
Mapped == SInv /\ MapContent = last /\ loose \in [Heights -> SUBSET Block]

(* A step of w moves its phase only. *)
LEMMA MapPhaseMoves ==
  ASSUME SInv, NEW w \in Writers, NEW p \in Stages, Goto(w, p)
  PROVE  /\ MapPhase' = [MapPhase EXCEPT ![w] = PhaseOf(p)]
         /\ MapPhase[w] = PhaseOf(pc[w])
         /\ PhaseOf(p) = PhaseOf(pc[w]) => MapPhase' = MapPhase
<1>1. pc \in [Writers -> Stages]
  BY DEF SInv, LocalTypes
<1>2. pc'[w] = p /\ \A v \in Writers \ {w} : pc'[v] = pc[v]
  BY <1>1 DEF Goto
<1> QED
  BY <1>2 DEF MapPhase, PhaseOf

(* No call is no operation. *)
LEMMA NoJobIsNoOp ==
  [height |-> NoJob.height, block |-> NoJob.block, alone |-> NoJob.alone] = HM!NoOp
<1>1. NoJob.height = 0 /\ NoJob.block = Nothing
  BY DEF NoJob
<1>2. NoJob.alone = TRUE
  BY DEF NoJob
<1> QED
  BY <1>1, <1>2, Zenon DEF HM!NoOp

(* The operation of a writer that returns is gone. *)
LEMMA MapOpReturns ==
  ASSUME SInv, NEW w \in Writers, Return(w)
  PROVE  HM!Return(w)
<1>1. job \in [Writers -> Job \union {NoJob}] /\ "idle" \in Stages /\ Goto(w, "idle")
      /\ job' = [job EXCEPT ![w] = NoJob]
  BY DEF SInv, LocalTypes, Stages, Return
<1>2. MapPhase' = [MapPhase EXCEPT ![w] = "idle"]
  BY <1>1, MapPhaseMoves DEF PhaseOf
<1>3. MapOp' = [MapOp EXCEPT ![w] = HM!NoOp]
  <2>1. job'[w] = NoJob /\ \A v \in Writers \ {w} : job'[v] = job[v]
    BY <1>1
  <2>2. [height |-> job'[w].height, block |-> job'[w].block, alone |-> job'[w].alone] = HM!NoOp
    BY <2>1, NoJobIsNoOp
  <2> HIDE DEF HM!NoOp
  <2> QED
    BY <2>1, <2>2 DEF MapOp
<1> QED
  BY <1>2, <1>3 DEF HM!Return, MapPhase, MapOp

(* Entering write_block is the abstract Begin. *)
LEMMA BeginMaps ==
  ASSUME Mapped, Mapped', NEW w \in Writers, NEW h \in Heights, NEW b \in Block,
         BeginWrite(w, h, b)
  PROVE  HM!Begin(w, h, b)
<1>1. /\ mode = "open" /\ pc[w] = "idle" /\ mode' = mode /\ last' = last /\ loose' = loose
      /\ Goto(w, "resolve")
      /\ job' = [v \in Writers |->
               IF v = w
               THEN [height |-> h, block |-> b, offset |-> rsv'[w].offset,
                     saved |-> rsv'[w].end, alone |-> InFlight(h) = {}]
               ELSE [job[v] EXCEPT !.alone = @ /\ v \notin InFlight(h)]]
  BY DEF BeginWrite, BeginWriteOf, session
<1>2. SInv /\ job \in [Writers -> Job \union {NoJob}] /\ "resolve" \in Stages
  BY DEF Mapped, SInv, LocalTypes, Stages
<1>3. MapContent' = MapContent
  BY <1>1 DEF Mapped
<1>4. MapPhase[w] = "idle" /\ MapPhase' = [MapPhase EXCEPT ![w] = "pending"]
  BY <1>1, <1>2, MapPhaseMoves DEF PhaseOf, Unpublished
<1>5. HM!InFlight(h) = InFlight(h)
  BY DEF HM!InFlight, InFlight
<1>6. MapOp'[w] = [height |-> h, block |-> b, alone |-> HM!InFlight(h) = {}]
  <2>1. PICK a : a = (InFlight(h) = {})
    OBVIOUS
  <2>2. job'[w] = [height |-> h, block |-> b, offset |-> rsv'[w].offset,
                   saved |-> rsv'[w].end, alone |-> a]
    BY <1>1, <2>1
  <2>3. MapOp'[w] = [height |-> h, block |-> b, alone |-> a]
    BY <2>2 DEF MapOp
  <2> QED
    BY <1>5, <2>1, <2>3
<1>7. ASSUME NEW v \in Writers \ {w}
      PROVE  MapOp'[v] = [MapOp[v] EXCEPT !.alone = @ /\ v \notin HM!InFlight(h)]
  <2>1. PICK a : a = (job[v].alone /\ v \notin InFlight(h))
    OBVIOUS
  <2>2. job'[v] = [job[v] EXCEPT !.alone = a]
    BY <1>1, <2>1
  <2>3. job'[v].height = job[v].height /\ job'[v].block = job[v].block /\ job'[v].alone = a
    BY <1>2, <2>2 DEF Job, NoJob
  <2>4. MapOp[v] = [height |-> job[v].height, block |-> job[v].block, alone |-> job[v].alone]
    BY DEF MapOp
  <2>5. MapOp'[v] = [height |-> job[v].height, block |-> job[v].block, alone |-> a]
    BY <2>3 DEF MapOp
  <2>6. MapOp'[v] = [MapOp[v] EXCEPT !.alone = a]
    BY <2>4, <2>5
  <2>7. MapOp[v].alone = job[v].alone
    BY <2>4
  <2>8. a = (MapOp[v].alone /\ v \notin HM!InFlight(h))
    BY <1>5, <2>1, <2>7, Zenon
  <2> QED
    BY <2>6, <2>8
<1>8. MapOp' = [v \in Writers |->
                  IF v = w THEN [height |-> h, block |-> b, alone |-> HM!InFlight(h) = {}]
                  ELSE [MapOp[v] EXCEPT !.alone = @ /\ v \notin HM!InFlight(h)]]
  <2>1. MapOp' = [v \in Writers |-> MapOp'[v]]
    BY DEF MapOp
  <2> HIDE DEF HM!InFlight
  <2> QED
    BY <1>6, <1>7, <2>1, Zenon
<1>9. (mode' = "open") = (mode = "open")
  BY <1>1
<1> QED
  BY <1>1, <1>3, <1>4, <1>8, <1>9 DEF HM!Begin, MapContent, MapPhase, MapOp

(* Writing the index entry is the abstract Apply: the write takes effect there and nowhere else.
   *)
LEMMA PublishMaps ==
  ASSUME Mapped, Mapped', NEW w \in Writers, Publish(w)
  PROVE  HM!Apply(w)
<1>1. /\ pc[w] = "publish" /\ Goto(w, "advance") /\ job' = job /\ mode' = mode
      /\ last' = [last EXCEPT ![job[w].height] = job[w].block]
      /\ loose' = [loose EXCEPT ![job[w].height] =
                      IF job[w].alone THEN {} ELSE @ \union {job[w].block}]
  BY DEF Publish, session
<1>2. SInv /\ "advance" \in Stages
  BY DEF Mapped, Stages
<1>3. MapPhase[w] = "pending" /\ MapPhase' = [MapPhase EXCEPT ![w] = "applied"]
  BY <1>1, <1>2, MapPhaseMoves DEF PhaseOf, Unpublished
<1>4. MapOp' = MapOp
  BY <1>1 DEF MapOp
<1>5. MapOp[w].height = job[w].height /\ MapOp[w].block = job[w].block
      /\ MapOp[w].alone = job[w].alone
  BY DEF MapOp
<1>6. MapContent = last /\ MapContent' = last'
  BY DEF Mapped
<1>7. MapContent' = [MapContent EXCEPT ![MapOp[w].height] = MapOp[w].block]
  BY <1>1, <1>5, <1>6
<1>8. loose' = [loose EXCEPT ![MapOp[w].height] =
                  IF MapOp[w].alone THEN {} ELSE @ \union {MapOp[w].block}]
  BY <1>1, <1>5, Zenon
<1>9. (mode' = "open") = (mode = "open")
  BY <1>1
<1> QED
  BY <1>3, <1>4, <1>7, <1>8, <1>9 DEF HM!Apply, MapContent, MapPhase, MapOp

(* Every way out of write_block is a return of the map. *)
LEMMA ReturningMaps ==
  ASSUME Mapped, Mapped', NEW w \in Writers
  PROVE  /\ NoCheckpointDue(w) \/ CheckpointStore(w) \/ CheckpointFails(w) => HM!Finish(w)
         /\ ReleaseReservation(w) \/ PublishFails(w) => HM!Fail(w)
<1> SUFFICES ASSUME \/ ReleaseReservation(w) \/ PublishFails(w) \/ CheckpointFails(w)
                    \/ NoCheckpointDue(w) \/ CheckpointStore(w)
             PROVE  /\ NoCheckpointDue(w) \/ CheckpointStore(w) \/ CheckpointFails(w) => HM!Finish(w)
                    /\ ReleaseReservation(w) \/ PublishFails(w) => HM!Fail(w)
  OBVIOUS
<1>1. Return(w) /\ mode' = mode /\ last' = last
  BY DEF ReleaseReservation, PublishFails, CheckpointFails, NoCheckpointDue, CheckpointStore,
         ReturnErr, ReturnOk, session
<1>2. HM!Return(w)
  BY <1>1, MapOpReturns DEF Mapped
<1>3. MapContent' = MapContent
  BY <1>1 DEF Mapped
<1>4. (mode' = "open") = (mode = "open")
  BY <1>1
<1>5. ASSUME NoCheckpointDue(w) \/ CheckpointStore(w) \/ CheckpointFails(w) PROVE HM!Finish(w)
  <2>1. loose' = loose /\ pc[w] \in {"decide", "store", "write"}
    BY <1>5 DEF CheckpointFails, NoCheckpointDue, CheckpointStore, ReturnOk
  <2>2. MapPhase[w] = "applied"
    BY <2>1 DEF MapPhase, Unpublished
  <2> HIDE DEF HM!Return
  <2> QED
    BY <1>2, <1>3, <1>4, <2>1, <2>2 DEF HM!Finish, MapContent, MapPhase
<1>6. ASSUME ReleaseReservation(w) \/ PublishFails(w) PROVE HM!Fail(w)
  <2>1. /\ loose' = [loose EXCEPT ![job[w].height] = @ \union {job[w].block}]
        /\ pc[w] \in {"release", "publish"}
    BY <1>6 DEF ReleaseReservation, PublishFails, MayReappear
  <2>2. MapPhase[w] = "pending"
    BY <2>1 DEF MapPhase, Unpublished
  <2>3. MapOp[w].height = job[w].height /\ MapOp[w].block = job[w].block
    BY DEF MapOp
  <2>4. loose' = [loose EXCEPT ![MapOp[w].height] = @ \union {MapOp[w].block}]
    BY <2>1, <2>3
  <2> QED
    BY <1>2, <1>3, <1>4, <2>2, <2>4 DEF HM!Fail, MapContent, MapPhase, MapOp
<1> QED
  BY <1>5, <1>6

(* Drop is the abstract Stop. *)
LEMMA CloseMaps == ASSUME Mapped, Mapped', Close PROVE HM!Stop
<1>1. /\ mode = "open" /\ mode' = "down" /\ AllIdle /\ last' = last /\ loose' = loose
      /\ pc' = [w \in Writers |-> "idle"] /\ job' = [w \in Writers |-> NoJob]
  BY DEF Close, MemoryGone, known
<1>2. MapContent' = MapContent
  BY <1>1 DEF Mapped
<1>3. MapPhase' = [w \in Writers |-> "idle"]
  BY <1>1 DEF MapPhase
<1>4. MapOp' = [w \in Writers |-> HM!NoOp]
  <2> HIDE DEF HM!NoOp
  <2> QED
    BY <1>1, NoJobIsNoOp DEF MapOp
<1>5. \A h \in Heights : {v \in HM!InFlight(h) : MapPhase[v] = "pending"} = {}
  BY <1>1 DEF HM!InFlight, AllIdle
<1>6. loose' = [h \in Heights |-> loose[h] \union
                  {MapOp[w].block : w \in {v \in HM!InFlight(h) : MapPhase[v] = "pending"}}]
  <2>1. loose = [h \in Heights |-> loose[h]]
    BY DEF Mapped
  <2>2. ASSUME NEW h \in Heights
        PROVE  loose[h] = loose[h] \union
                 {MapOp[w].block : w \in {v \in HM!InFlight(h) : MapPhase[v] = "pending"}}
    BY <1>5
  <2> HIDE DEF HM!InFlight
  <2> QED
    BY <1>1, <2>1, <2>2
<1>7. (mode' = "open") = FALSE
  BY <1>1
<1> QED
  BY <1>2, <1>3, <1>4, <1>6, <1>7 DEF HM!Stop, MapContent, MapPhase, MapOp

(* So is a crash: what it cuts off before its index entry is left open. *)
LEMMA CrashMaps == ASSUME Mapped, Mapped', Crash PROVE HM!Stop
<1>1. /\ mode' = "down" /\ last' = last
      /\ loose' = [h \in Heights |-> loose[h] \union
                     {job[w].block : w \in {v \in InFlight(h) : pc[v] \in Unpublished}}]
      /\ pc' = [w \in Writers |-> "idle"] /\ job' = [w \in Writers |-> NoJob]
  BY DEF Crash, MemoryGone
<1>2. MapContent' = MapContent
  BY <1>1 DEF Mapped
<1>3. MapPhase' = [w \in Writers |-> "idle"]
  BY <1>1 DEF MapPhase
<1>4. MapOp' = [w \in Writers |-> HM!NoOp]
  <2> HIDE DEF HM!NoOp
  <2> QED
    BY <1>1, NoJobIsNoOp DEF MapOp
<1>5. ASSUME NEW h \in Heights
      PROVE  /\ HM!InFlight(h) = InFlight(h)
             /\ {v \in HM!InFlight(h) : MapPhase[v] = "pending"}
                  = {v \in InFlight(h) : pc[v] \in Unpublished}
  <2>1. HM!InFlight(h) = InFlight(h)
    BY DEF HM!InFlight, InFlight
  <2>2. \A v \in InFlight(h) : MapPhase[v] = "pending" <=> pc[v] \in Unpublished
    BY DEF InFlight, MapPhase, Unpublished
  <2> HIDE DEF HM!InFlight
  <2> QED
    BY <2>1, <2>2
<1>6. ASSUME NEW h \in Heights
      PROVE  {MapOp[w].block : w \in {v \in HM!InFlight(h) : MapPhase[v] = "pending"}}
               = {job[w].block : w \in {v \in InFlight(h) : pc[v] \in Unpublished}}
  <2>1. \A w \in InFlight(h) : MapOp[w].block = job[w].block
    BY DEF InFlight, MapOp
  <2> HIDE DEF HM!InFlight
  <2> QED
    BY <1>5, <2>1
<1>7. loose' = [h \in Heights |-> loose[h] \union
                  {MapOp[w].block : w \in {v \in HM!InFlight(h) : MapPhase[v] = "pending"}}]
  <2> HIDE DEF HM!InFlight
  <2> QED
    BY <1>1, <1>6
<1>8. (mode' = "open") = FALSE
  BY <1>1
<1> QED
  BY <1>2, <1>3, <1>4, <1>7, <1>8 DEF HM!Stop, MapContent, MapPhase, MapOp

(* The end of recovery is the abstract Reopen. *)
LEMMA ReopenMaps == ASSUME Mapped, Mapped', FinishRecovery PROVE HM!Reopen
<1>1. /\ mode = "recovering" /\ mode' = "open" /\ pc' = pc /\ job' = job
      /\ last' = [h \in Heights |->
                    IF ReadBlock(h) \in loose[h] THEN ReadBlock(h) ELSE last[h]]
      /\ loose' = [h \in Heights |-> {}]
  BY DEF FinishRecovery, FinishAs, local
<1>2. MapPhase' = MapPhase /\ MapOp' = MapOp
  BY <1>1 DEF MapPhase, MapOp
<1>3. MapContent = last /\ MapContent' = last'
  BY DEF Mapped
<1>4. \A h \in Heights : MapContent'[h] \in {MapContent[h]} \union loose[h]
  BY <1>1, <1>3
<1>5. (mode' = "open") = TRUE /\ ~(mode = "open")
  BY <1>1
<1> QED
  BY <1>1, <1>2, <1>4, <1>5 DEF HM!Reopen, MapContent, MapPhase, MapOp

(* The other steps are invisible to the callers. *)
LEMMA HiddenSteps ==
  ASSUME Mapped, Mapped', UNCHANGED <<last, loose, job>>,
         (mode' = "open") = (mode = "open"), MapPhase' = MapPhase
  PROVE  UNCHANGED HM!mvars
<1>1. MapContent' = MapContent
  BY DEF Mapped
<1>2. MapOp' = MapOp
  BY DEF MapOp
<1> QED
  BY <1>1, <1>2 DEF HM!mvars, MapContent, MapPhase, MapOp

(* Every other step of write_block is an abstract return or invisible. *)
LEMMA WriterMaps ==
  ASSUME Mapped, Mapped', NEW w \in Writers, WriterStep(w) \/ WriterFault(w)
  PROVE  [HM!Next]_HM!mvars
<1>1. SInv /\ pc \in [Writers -> Stages]
  BY DEF Mapped, SInv, LocalTypes
<1>2. CASE \/ Resolve(w) \/ WritePayload(w) \/ WriteHeader(w)
           \/ ResolveFails(w) \/ PayloadFails(w) \/ HeaderFails(w)
  <2>1. /\ UNCHANGED <<last, loose, job, mode>> /\ pc[w] \in Unpublished
    BY <1>2 DEF Resolve, WritePayload, WriteHeader, ResolveFails, PayloadFails, HeaderFails,
                session, known, Unpublished
  <2>2. PICK p \in Unpublished : Goto(w, p)
    BY <1>2 DEF Resolve, WritePayload, WriteHeader, ResolveFails, PayloadFails, HeaderFails,
                BreakOff, Unpublished
  <2>3. p \in Stages /\ PhaseOf(p) = PhaseOf(pc[w])
    BY <2>1, <2>2 DEF PhaseOf, Unpublished, Stages
  <2>4. MapPhase' = MapPhase /\ (mode' = "open") = (mode = "open")
    BY <1>1, <2>1, <2>2, <2>3, MapPhaseMoves
  <2> QED
    BY <2>1, <2>4, HiddenSteps
<1>3. CASE RaiseHighwater(w) \/ CheckpointDue(w) \/ CheckpointLoad(w) \/ CheckpointWrite(w)
  <2>1. UNCHANGED <<last, loose, job, mode>> /\ pc[w] \in Landed \ {"publish"}
    BY <1>3 DEF RaiseHighwater, CheckpointDue, CheckpointLoad, CheckpointWrite,
                session, known, Landed
  <2>2. PICK p \in Landed \ {"publish"} : Goto(w, p)
    BY <1>3 DEF RaiseHighwater, CheckpointDue, CheckpointLoad, CheckpointWrite, Landed
  <2>3. p \in Stages /\ PhaseOf(p) = PhaseOf(pc[w])
    BY <2>1, <2>2 DEF PhaseOf, Unpublished, Stages, Landed
  <2>4. MapPhase' = MapPhase /\ (mode' = "open") = (mode = "open")
    BY <1>1, <2>1, <2>2, <2>3, MapPhaseMoves
  <2> QED
    BY <2>1, <2>4, HiddenSteps
<1>4. CASE AdvanceFloor(w)
  <2>1. UNCHANGED <<last, loose, job, mode, pc>>
    BY <1>4 DEF AdvanceFloor, session, known, local
  <2>2. MapPhase' = MapPhase /\ (mode' = "open") = (mode = "open")
    BY <2>1 DEF MapPhase
  <2> QED
    BY <2>1, <2>2, HiddenSteps
<1>5. CASE Publish(w)
  BY <1>5, PublishMaps DEF HM!Next
<1>6. CASE \/ ReleaseReservation(w) \/ PublishFails(w) \/ CheckpointFails(w)
           \/ NoCheckpointDue(w) \/ CheckpointStore(w)
  BY <1>6, ReturningMaps DEF HM!Next
<1> QED
  BY <1>2, <1>3, <1>4, <1>5, <1>6 DEF WriterStep, WriterFault

(* Every step is an abstract step or invisible. *)
LEMMA NextMaps == ASSUME Mapped, Mapped', [Next]_vars PROVE [HM!Next]_HM!mvars
<1>1. ASSUME NEW w \in Writers, NEW h \in Heights, NEW b \in Block, BeginWrite(w, h, b)
      PROVE  HM!Next
  BY <1>1, BeginMaps DEF HM!Next
<1>2. ASSUME Close \/ Crash \/ FinishRecovery PROVE HM!Next
  BY <1>2, CloseMaps, CrashMaps, ReopenMaps DEF HM!Next
<1>3. ASSUME \/ Open \/ ScanNextFile \/ RecoverBlock \/ CheckpointProgress
             \/ UNCHANGED vars
      PROVE  UNCHANGED HM!mvars
  <2>1. /\ UNCHANGED <<last, loose, job, pc>>
        /\ mode' = mode \/ (mode # "open" /\ mode' # "open")
    BY <1>3 DEF Open, ScanNextFile, RecoverBlock, CheckpointProgress, Scanning, vars, session,
                known, local
  <2>2. MapPhase' = MapPhase /\ (mode' = "open") = (mode = "open")
    BY <2>1 DEF MapPhase
  <2> QED
    BY <2>1, <2>2, HiddenSteps
<1> QED
  BY <1>1, <1>2, <1>3, WriterMaps DEF Next, RecoveryStep

(* An empty store is an empty map. *)
LEMMA InitMaps == Init => HM!Init
<1> SUFFICES ASSUME Init PROVE HM!Init
  OBVIOUS
<1>1. /\ mode = "open" /\ loose = [h \in Heights |-> {}]
      /\ pc = [w \in Writers |-> "idle"] /\ job = [w \in Writers |-> NoJob]
      /\ index = [h \in Heights |-> NoEntry]
  BY DEF Init
<1>2. MapContent = [h \in Heights |-> Nothing]
  BY <1>1 DEF MapContent, ReadBlock, C!ReadEntry, C!Heights, Heights, NoEntry
<1>3. MapPhase = [w \in Writers |-> "idle"]
  BY <1>1 DEF MapPhase
<1>4. MapOp = [w \in Writers |-> HM!NoOp]
  BY <1>1, NoJobIsNoOp DEF MapOp
<1>5. (mode = "open") = TRUE
  BY <1>1
<1> QED
  BY <1>1, <1>2, <1>3, <1>4, <1>5 DEF HM!Init, MapContent, MapPhase, MapOp

(***************************************************************************)
(* The store is a map with atomic writes: every write_block takes effect   *)
(* at the instant its index entry is written, every read_block returns     *)
(* what took effect last, and a shutdown followed by a reopen changes      *)
(* nothing.                                                                *)
(***************************************************************************)
THEOREM StoreImplementsHeightMap == Tidy => (Spec => ImplementsHeightMap)
<1> SUFFICES ASSUME Tidy PROVE Spec => HM!Spec
  BY DEF ImplementsHeightMap
<1>1. Spec => []TInv
  BY TInvAlways
<1>2. Mapped /\ Mapped' /\ [Next]_vars => [HM!Next]_HM!mvars
  BY NextMaps
<1>3. TInv => Mapped
  BY MapContentIsLast DEF TInv, History, Mapped
<1> QED
  BY InitMaps, <1>1, <1>2, <1>3, PTL DEF Spec, HM!Spec
-----------------------------------------------------------------------------
(* The chunked scan of the index. *)

(* The heights from c on at which scan_contiguous_floor has to stop. *)
Gaps(c) == {h \in Nat : c <= h /\ (h > height_highwater \/ ~C!Present(h))}

ScanDomain == 0 .. MaxHeight + ChunkEntries + 1

(* One chunk of the scan, with the result of the rest. *)
ChunkValue(c, rest) ==
  IF ChunkLast(c) < c THEN c - 1
  ELSE IF Stops(c) # {} THEN Min(Stops(c)) - 1
  ELSE IF ChunkLast(c) < c + ChunkEntries - 1 THEN ChunkLast(c)
  ELSE rest

(* A height is present exactly when its index entry is not empty. *)
LEMMA PresentIs == \A h : C!Present(h) <=> h \in Heights /\ index[h] # NoEntry
BY DEF C!Present, C!ReadEntry, C!Heights, Heights

(* The set of absent heights above c has a least element. *)
LEMMA FirstGap ==
  ASSUME NEW c \in Nat
  PROVE  Min(Gaps(c)) \in Gaps(c) /\ \A h \in Gaps(c) : Min(Gaps(c)) <= h
<1>1. Gaps(c) \subseteq Nat
  BY DEF Gaps
<1>2. PICK h \in Nat : c <= h /\ h > MaxHeight
  <2>1. c + MaxHeight + 1 \in Nat /\ c <= c + MaxHeight + 1 /\ c + MaxHeight + 1 > MaxHeight
    BY BlockStoreAssumption
  <2> QED
    BY <2>1
<1>3. h \in Gaps(c)
  BY <1>2, PresentIs, BlockStoreAssumption DEF Gaps, Heights
<1> QED
  BY <1>1, <1>3, MinOfNats

(* Beyond the end of the index file there is no entry. *)
LEMMA IndexEnds == IndexEnd \in Int /\ \A h : C!Present(h) => h <= IndexEnd
<1> DEFINE S == {MinHeight - 1} \union {h \in Heights : index[h] # NoEntry}
<1>1. S \subseteq Int /\ S # {}
  BY BlockStoreAssumption DEF Heights
<1>2. PICK n \in Int : n = MaxHeight + MinHeight
  BY BlockStoreAssumption
<1>3. \A x \in S : x <= n
  BY <1>2, BlockStoreAssumption DEF Heights
<1>4. \A h : C!Present(h) => h \in S
  BY PresentIs
<1> HIDE DEF S
<1>5. Max(S) \in S /\ \A y \in S : y <= Max(S)
  BY <1>1, <1>2, <1>3, MaxOfBounded
<1>6. IndexEnd = Max(S)
  BY DEF IndexEnd, S
<1> QED
  BY <1>1, <1>4, <1>5, <1>6

(***************************************************************************)
(* A chunk either contains the first gap, or ends where the index ends, or *)
(* is full of entries and leaves the gap to the next chunk.                *)
(***************************************************************************)
LEMMA ChunkFinds ==
  ASSUME NEW c \in ScanDomain
  PROVE  \/ /\ \A rest : ChunkValue(c, rest) = Min(Gaps(c)) - 1
         \/ /\ \A rest : ChunkValue(c, rest) = rest
            /\ NextChunk(c) \in ScanDomain /\ c < NextChunk(c)
            /\ Min(Gaps(NextChunk(c))) = Min(Gaps(c))
<1> DEFINE l == ChunkLast(c)
           k == c + ChunkEntries
           m == Min(Gaps(c))
<1>1. c \in Nat /\ ChunkEntries \in Nat /\ ChunkEntries > 0 /\ k \in Nat /\ c < k
      /\ k - 1 \in Int /\ k - 1 >= c /\ MaxHeight \in Nat /\ c + ChunkEntries - 1 = k - 1
  BY BlockStoreAssumption DEF ScanDomain
<1>2. IndexEnd \in Int /\ \A h : C!Present(h) => h <= IndexEnd
  BY IndexEnds
<1>3. l = IF k - 1 <= IndexEnd THEN k - 1 ELSE IndexEnd
  BY <1>1, <1>2, MinOfTwo DEF ChunkLast
<1>4. m \in Gaps(c) /\ \A h \in Gaps(c) : m <= h
  BY <1>1, FirstGap
<1>5. m \in Nat /\ c <= m
  BY <1>4 DEF Gaps
<1>6. Stops(c) = {h \in c .. l : h \in Gaps(c)}
  BY <1>1, <1>2, <1>3 DEF Stops, Gaps
<1>7. \A h \in Nat : c <= h /\ IndexEnd < h => h \in Gaps(c)
  BY <1>2 DEF Gaps
<1> HIDE DEF l, k, m
<1>8. CASE l < c
  <2>1. IndexEnd < c
    BY <1>1, <1>2, <1>3, <1>8
  <2>2. m = c
    BY <1>1, <1>4, <1>5, <1>7, <2>1
  <2> QED
    BY <1>8, <2>2 DEF ChunkValue, l, m
<1>9. CASE ~(l < c) /\ Stops(c) # {}
  <2>1. l \in Int /\ c <= l
    BY <1>1, <1>2, <1>3, <1>9
  <2>2. PICK h \in c .. l : h \in Gaps(c)
    BY <1>6, <1>9
  <2>3. m \in Stops(c)
    BY <1>1, <1>4, <1>5, <1>6, <2>1, <2>2
  <2>4. Min(Stops(c)) = m
    <3>1. Stops(c) \subseteq Int
      BY <1>1, <1>6, <2>1
    <3>2. \A y \in Stops(c) : m <= y
      BY <1>4, <1>6
    <3> QED
      BY <2>3, <3>1, <3>2, MinIs
  <2> QED
    BY <1>9, <2>4 DEF ChunkValue, l, m
<1>10. CASE ~(l < c) /\ Stops(c) = {} /\ l < k - 1
  <2>1. l = IndexEnd /\ l \in Int /\ c <= l
    BY <1>1, <1>2, <1>3, <1>10
  <2>2. l + 1 \in Nat /\ l + 1 \in Gaps(c)
    BY <1>1, <1>7, <2>1
  <2>3. ~(m <= l)
    BY <1>1, <1>4, <1>5, <1>6, <1>10, <2>1
  <2>4. m = l + 1
    BY <1>4, <1>5, <2>1, <2>2, <2>3
  <2>5. m - 1 = l
    BY <2>1, <2>4
  <2>6. \A rest : ChunkValue(c, rest) = l
    BY <1>1, <1>10, Zenon DEF ChunkValue, l
  <2> QED
    BY <2>5, <2>6 DEF m
<1>11. CASE ~(l < c) /\ Stops(c) = {} /\ ~(l < k - 1)
  <2>1. l = k - 1 /\ l \in Int /\ c <= l
    BY <1>1, <1>2, <1>3, <1>11
  <2>2. \A rest : ChunkValue(c, rest) = rest
    BY <1>1, <1>11, Zenon DEF ChunkValue, l
  <2>3. ASSUME NEW h \in c .. l PROVE h \notin Gaps(c)
    BY <1>6, <1>11, <2>3
  <2>4. Gaps(k) \subseteq Gaps(c) /\ \A h \in Gaps(c) : h \in Gaps(k)
    <3>1. Gaps(k) \subseteq Gaps(c)
      BY <1>1 DEF Gaps
    <3>2. ASSUME NEW h \in Gaps(c) PROVE h \in Gaps(k)
      <4>1. h \in Nat /\ c <= h /\ h \notin c .. l
        BY <2>3, <3>2 DEF Gaps
      <4>2. k <= h
        BY <1>1, <2>1, <4>1
      <4> QED
        BY <4>1, <4>2 DEF Gaps
    <3> QED
      BY <3>1, <3>2
  <2>5. Gaps(k) = Gaps(c)
    BY <2>4
  <2>6. l \in Heights
    <3>1. l \in c .. l /\ l \in Nat
      BY <1>1, <2>1
    <3>2. C!Present(l)
      BY <2>1, <2>3, <3>1 DEF Gaps
    <3> QED
      BY <3>2, PresentIs
  <2>7. k \in ScanDomain
    BY <1>1, <2>1, <2>6 DEF ScanDomain, Heights
  <2>8. NextChunk(c) = k
    BY DEF NextChunk, k
  <2> QED
    BY <1>1, <2>2, <2>5, <2>7, <2>8
<1> QED
  BY <1>8, <1>9, <1>10, <1>11
(* The recursion of the scan is well founded. *)
LEMMA ScanUnfolds ==
  \A c \in ScanDomain : LastBeforeGap[c] = ChunkValue(c, LastBeforeGap[NextChunk(c)])
<1> DEFINE Body(g) == [c \in ScanDomain |-> ChunkValue(c, g[NextChunk(c)])]
           G == [c \in ScanDomain |-> Min(Gaps(c)) - 1]
<1>1. LastBeforeGap = CHOOSE g : g = Body(g)
  BY DEF LastBeforeGap, ScanDomain, ChunkValue
<1>2. \A c \in ScanDomain : G[c] = Min(Gaps(c)) - 1
  OBVIOUS
<1>3. ASSUME NEW c \in ScanDomain PROVE ChunkValue(c, G[NextChunk(c)]) = Min(Gaps(c)) - 1
  <2>1. CASE \A rest : ChunkValue(c, rest) = Min(Gaps(c)) - 1
    BY <2>1, Zenon
  <2>2. CASE /\ \A rest : ChunkValue(c, rest) = rest
             /\ NextChunk(c) \in ScanDomain /\ c < NextChunk(c)
             /\ Min(Gaps(NextChunk(c))) = Min(Gaps(c))
    <3>1. G[NextChunk(c)] = Min(Gaps(c)) - 1
      BY <1>2, <2>2
    <3> HIDE DEF G
    <3> QED
      BY <2>2, <3>1, Zenon
  <2> HIDE DEF G
  <2> QED
    BY <2>1, <2>2, ChunkFinds
<1>4. G = Body(G)
  BY <1>3
<1> HIDE DEF G
<1>5. LastBeforeGap = Body(LastBeforeGap)
  <2> HIDE DEF Body
  <2> QED
    BY <1>1, <1>4, Zenon
<1> QED
  BY <1>5

(***************************************************************************)
(* scan_contiguous_floor, reading the index in chunks of any size, returns *)
(* the height before the first gap at or after the one it begins with: no  *)
(* boundary of a chunk hides a gap or makes one up.                        *)
(***************************************************************************)
THEOREM ScanFindsFirstGap ==
  \A c \in ScanDomain : LastBeforeGap[c] = Min(Gaps(c)) - 1
<1> DEFINE Wrong(c) == LastBeforeGap[c] # Min(Gaps(c)) - 1
           n == MaxHeight + ChunkEntries + 1
           D == {d \in Nat : \E c \in ScanDomain : Wrong(c) /\ d = n - c}
<1>1. n \in Nat /\ ScanDomain = 0 .. n
  BY BlockStoreAssumption DEF ScanDomain
<1> HIDE DEF n, Wrong
<1>2. SUFFICES ASSUME NEW c \in ScanDomain, Wrong(c) PROVE FALSE
  BY DEF Wrong
<1>3. n - c \in D
  BY <1>1, <1>2
<1>4. PICK d \in D : \A e \in D : d <= e
  BY <1>3, HasLeast
<1>5. PICK b \in ScanDomain : Wrong(b) /\ d = n - b
  OBVIOUS
<1>6. LastBeforeGap[b] = ChunkValue(b, LastBeforeGap[NextChunk(b)])
  BY ScanUnfolds
<1>7. CASE \A rest : ChunkValue(b, rest) = Min(Gaps(b)) - 1
  BY <1>5, <1>6, <1>7, Zenon DEF Wrong
<1>8. CASE /\ \A rest : ChunkValue(b, rest) = rest
           /\ NextChunk(b) \in ScanDomain /\ b < NextChunk(b)
           /\ Min(Gaps(NextChunk(b))) = Min(Gaps(b))
  <2>1. LastBeforeGap[b] = LastBeforeGap[NextChunk(b)]
    BY <1>6, <1>8, Zenon
  <2>2. Wrong(NextChunk(b))
    BY <1>5, <1>8, <2>1 DEF Wrong
  <2>3. n - NextChunk(b) \in D
    BY <1>1, <1>8, <2>2
  <2> QED
    BY <1>1, <1>4, <1>5, <1>8, <2>3
<1> QED
  BY <1>7, <1>8, ChunkFinds
-----------------------------------------------------------------------------
(* The floor across sessions. *)

(* What the instances of Contiguity say is the same. *)
LEMMA FloorDefs ==
  /\ CP!FloorIfEmpty = C!FloorIfEmpty /\ CP!Heights = Heights
  /\ \A h : CP!Present(h) <=> C!Present(h)
BY DEF CP!FloorIfEmpty, C!FloorIfEmpty, CP!Pred, C!Pred, CP!Heights, Heights,
       CP!Present, C!Present, CP!ReadEntry, C!ReadEntry, C!Heights

(* Above height 0 the floor of an empty store is the height just below the range. *)
LEMMA LowFacts ==
  ASSUME MinHeight # 0
  PROVE  /\ C!FloorIfEmpty \in Nat /\ C!FloorIfEmpty + 1 = MinHeight
         /\ \A h \in Heights : h \in Nat /\ h > C!FloorIfEmpty /\ h <= MaxHeight
BY BlockStoreAssumption DEF C!FloorIfEmpty, C!Pred, Heights

(* What stands for no height is not above the floor of an empty store. *)
LEMMA NoneFacts ==
  ASSUME MinHeight # 0
  PROVE  \A f \in HeightOrNone :
           /\ f \in Nat
           /\ f > C!FloorIfEmpty => f \in Heights /\ f \in MinHeight .. f
BY LowFacts, BlockStoreAssumption DEF HeightOrNone, Heights

(***************************************************************************)
(* From a floor that can be trusted and a highwater that no entry is       *)
(* above, the scan of the index finds the floor exactly.                   *)
(***************************************************************************)
LEMMA ScanResumes ==
  ASSUME MinHeight # 0, NEW f, Resume(f, height_highwater),
         NEW g, g = ScanContiguousFloor(f)
  PROVE  /\ g \in Heights \union {C!FloorIfEmpty} /\ Trusted(g)
         /\ ~C!Present(g + 1)
<1> DEFINE t == height_highwater
           e == C!FloorIfEmpty
           m == IF f < e THEN e ELSE f
<1>1. /\ f \in HeightOrNone /\ t \in HeightOrNone
      /\ f > e => C!ContiguousTo(f)
      /\ t > e => C!Present(t)
      /\ \A h \in Heights : C!Present(h) => h <= t
  BY DEF Resume, Trusted, Reached
<1>2. /\ f \in Nat /\ t \in Nat /\ e \in Nat /\ e + 1 = MinHeight
      /\ f > e => f \in Heights /\ f \in MinHeight .. f
      /\ t > e => t \in Heights /\ t <= MaxHeight
  BY <1>1, NoneFacts, LowFacts
<1>3. \A h : C!Present(h) => h \in Heights /\ h \in Nat /\ h > e /\ h <= t
  BY <1>1, PresentIs, LowFacts
<1> HIDE DEF t, e
<1>4. CASE t < MinHeight
  <2>1. g = e
    BY <1>4 DEF ScanContiguousFloor, t, e
  <2>2. ~C!Present(g + 1)
    BY <1>2, <1>3, <1>4, <2>1
  <2> QED
    BY <1>2, <2>1, <2>2 DEF Trusted, HeightOrNone, e
<1>5. CASE ~(t < MinHeight)
  <2>1. t > e /\ t \in Heights /\ t <= MaxHeight
    BY <1>2, <1>5
  <2>2. m \in Nat /\ e <= m /\ m <= t /\ (m > e => C!ContiguousTo(m) /\ m \in Heights)
    <3>1. f > e => f <= t
      BY <1>1, <1>2, <1>3 DEF C!ContiguousTo
    <3> QED
      BY <1>1, <1>2, <2>1, <3>1
  <2>3. ScanStart(f) = m
    <3>1. ScanStart(f) = IF m < t THEN m ELSE t
      BY DEF ScanStart, Larger, t, e
    <3> QED
      BY <1>2, <2>2, <3>1
  <2> HIDE DEF m
  <2>4. g = IF m >= t THEN m ELSE LastBeforeGap[m + 1]
    BY <1>5, <2>3 DEF ScanContiguousFloor, ScanIndex, t
  <2>5. CASE m >= t
    <3>1. g = m /\ m = t
      BY <1>2, <2>2, <2>4, <2>5
    <3>2. ~C!Present(g + 1)
      BY <1>2, <1>3, <3>1
    <3> QED
      BY <2>1, <2>2, <3>1, <3>2 DEF Trusted, HeightOrNone, e
  <2>6. CASE ~(m >= t)
    <3>1. PICK c \in ScanDomain : c = m + 1 /\ c \in Nat
      BY <1>2, <2>1, <2>2, <2>6, BlockStoreAssumption DEF ScanDomain
    <3>2. PICK x \in Gaps(c) : x = Min(Gaps(c)) /\ \A h \in Gaps(c) : x <= h
      BY <3>1, FirstGap
    <3>3. g = x - 1
      BY <2>4, <2>6, <3>1, <3>2, ScanFindsFirstGap
    <3>4. x \in Nat /\ m + 1 <= x /\ ~C!Present(x)
      BY <1>2, <1>3, <3>1, <3>2 DEF Gaps, t
    <3>5. x <= t + 1
      <4>1. t + 1 \in Gaps(c)
        BY <1>2, <2>6, <2>2, <3>1 DEF Gaps, t
      <4> QED
        BY <3>2, <4>1
    <3>6. ASSUME NEW h \in m + 1 .. x - 1 PROVE C!Present(h)
      <4>1. h \in Nat /\ ~(x <= h) /\ c <= h
        BY <2>2, <3>1, <3>4, <3>6
      <4>2. h \notin Gaps(c)
        BY <3>2, <4>1
      <4> QED
        BY <4>1, <4>2 DEF Gaps
    <3>7. g \in Nat /\ m <= g /\ g + 1 = x
      BY <2>2, <3>3, <3>4
    <3>8. ASSUME NEW h \in MinHeight .. g PROVE C!Present(h)
      <4>1. CASE h <= m
        <5>1. m > e /\ h \in MinHeight .. m
          BY <1>2, <2>2, <3>7, <3>8, <4>1
        <5> QED
          BY <2>2, <5>1 DEF C!ContiguousTo
      <4>2. CASE ~(h <= m)
        <5>1. h \in m + 1 .. x - 1
          BY <1>2, <2>2, <3>7, <3>8, <4>2
        <5> QED
          BY <3>6, <5>1
      <4> QED
        BY <4>1, <4>2
    <3>9. g = e \/ g \in Heights
      BY <1>2, <2>1, <2>2, <3>5, <3>7, BlockStoreAssumption DEF Heights
    <3> QED
      BY <3>4, <3>7, <3>8, <3>9 DEF Trusted, HeightOrNone, C!ContiguousTo, e
  <2> QED
    BY <2>5, <2>6
<1> QED
  BY <1>4, <1>5

(* The floor's part of the state is as before. *)
LEMMA FloorSame ==
  ASSUME FOpen, UNCHANGED <<index, floor, mode>>, mode = "open",
         \A w \in Writers : pc'[w] = "advance" <=> pc[w] = "advance"
  PROVE  FOpen'
<1>1. CP!CInv /\ UNCHANGED CP!cvars
  BY DEF FOpen, floor, CP!cvars
<1>2. CP!CInv'
  BY <1>1 DEF CP!cvars, CP!CInv, CP!CTypeOK, CP!FloorSound, CP!ContiguousTo, CP!Present,
              CP!ReadEntry, CP!LocalsSound, CP!DutyKept, CP!OnDuty, CP!HighwaterPending
<1> QED
  BY <1>2 DEF FOpen, floor, Reached, C!Present, C!ReadEntry

(* A step of w that has nothing to do with the floor. *)
LEMMA ElsewhereF ==
  ASSUME SInv, FOpen, NEW w \in Writers, NEW p \in Stages \ {"advance"}, Goto(w, p),
         pc[w] # "advance", mode = "open", UNCHANGED <<index, floor, mode>>
  PROVE  FOpen'
<1>1. pc \in [Writers -> Stages]
  BY DEF SInv, LocalTypes
<1>2. \A v \in Writers : pc'[v] = "advance" <=> pc[v] = "advance"
  BY <1>1 DEF Goto
<1> QED
  BY <1>2, FloorSame
(* The steps of a writer on the floor are those of Contiguity. *)
LEMMA FloorStepsAre ==
  ASSUME NEW w \in Writers
  PROVE  /\ \A h \in Heights, e \in Entry : C!PublishEntry(w, h, e) => CP!PublishEntry(w, h, e)
         /\ C!CompareExchange(w) => CP!CompareExchange(w)
         /\ C!CascadeRead(w) => CP!CascadeRead(w)
         /\ C!CascadeExchange(w) => CP!CascadeExchange(w)
         /\ C!UpdateHighwater(w) => CP!UpdateHighwater(w)
<1>1. \A h \in Heights, e \in Entry : C!PublishEntry(w, h, e) => CP!PublishEntry(w, h, e)
  BY DEF C!PublishEntry, CP!PublishEntry
<1>2. C!CompareExchange(w) => CP!CompareExchange(w)
  BY DEF C!CompareExchange, CP!CompareExchange, C!Pred, CP!Pred
<1>3. C!CascadeRead(w) => CP!CascadeRead(w)
  BY DEF C!CascadeRead, CP!CascadeRead, C!Present, CP!Present, C!ReadEntry, CP!ReadEntry,
         C!Heights, CP!Heights
<1>4. C!CascadeExchange(w) => CP!CascadeExchange(w)
  BY DEF C!CascadeExchange, CP!CascadeExchange
<1>5. C!UpdateHighwater(w) => CP!UpdateHighwater(w)
  BY DEF C!UpdateHighwater, CP!UpdateHighwater, C!Leave, CP!Leave
<1> QED
  BY <1>1, <1>2, <1>3, <1>4, <1>5

(* An entry once written stays an entry. *)
LEMMA PresentStays ==
  ASSUME \A h \in Heights : index[h] # NoEntry => index'[h] # NoEntry
  PROVE  \A h : C!Present(h) => C!Present(h)'
BY DEF C!Present, C!ReadEntry, C!Heights, Heights

(* Writing an index entry keeps the floor right. *)
LEMMA PublishF ==
  ASSUME MinHeight # 0, SInv, FOpen, NEW w \in Writers, Publish(w)
  PROVE  FOpen'
<1>1. /\ pc[w] = "publish" /\ Goto(w, "advance") /\ mode' = mode
      /\ C!PublishEntry(w, job[w].height, [offset |-> job[w].offset, size |-> job[w].block.size])
  BY DEF Publish, session
<1>2. pc \in [Writers -> Stages] /\ index \in [Heights -> Entry \union {NoEntry}]
  BY DEF SInv, LocalTypes, DiskSound
<1>3. mode = "open" /\ CP!CInv
  BY <1>1, <1>2, WriterOpen DEF FOpen
<1>4. PICK h \in Heights, e \in Entry :
        h = job[w].height /\ e = [offset |-> job[w].offset, size |-> job[w].block.size]
  <2>1. job[w].height \in Heights /\ job[w].offset \in Offsets /\ job[w].block.size \in Sizes
    BY <1>1, <1>2, JobSpan, BlockFacts
  <2> QED
    BY <2>1 DEF Entry
<1>5. C!PublishEntry(w, h, e)
  BY <1>1, <1>4
<1>6. CP!PublishEntry(w, h, e)
  BY <1>5, FloorStepsAre
<1>7. CP!CInv'
  <2>1. h \in CP!Heights
    BY FloorDefs
  <2> QED
    BY <1>3, <1>6, <2>1, CP!PublishKeepsCInv, FloorAssumption
<1>8. /\ index' = [index EXCEPT ![h] = e] /\ height_highwater' = height_highwater
      /\ at' = [at EXCEPT ![w] = "cas"] /\ at \in [Writers -> CP!Places]
  BY <1>3, <1>5 DEF C!PublishEntry, CP!CInv, CP!CTypeOK
<1>9. \A g : C!Present(g) => C!Present(g)'
  <2>1. \A g \in Heights : index[g] # NoEntry => index'[g] # NoEntry
    BY <1>2, <1>8, FloorAssumption DEF CP!ZeroEntryAssumption
  <2> QED
    BY <2>1, PresentStays
<1>10. Reached(height_highwater)'
  <2>1. PICK t : t = height_highwater /\ t = height_highwater'
    BY <1>8
  <2>2. t \in HeightOrNone /\ (t > C!FloorIfEmpty => C!Present(t)')
    BY <1>3, <1>9, <2>1 DEF FOpen, Reached
  <2> QED
    BY <2>1, <2>2 DEF Reached, C!Present, C!ReadEntry
<1>11. \A v \in Writers : at'[v] # "idle" <=> pc'[v] = "advance"
  BY <1>1, <1>2, <1>8 DEF FOpen, Goto
<1> QED
  BY <1>1, <1>3, <1>7, <1>10, <1>11 DEF FOpen

(* Every step of advance_max_contiguous_height keeps the floor right. *)
LEMMA AdvanceF ==
  ASSUME MinHeight # 0, SInv, FOpen, NEW w \in Writers, AdvanceFloor(w)
  PROVE  FOpen'
<1>1. /\ pc[w] = "advance" /\ pc' = pc /\ mode' = mode
      /\ C!CompareExchange(w) \/ C!CascadeRead(w) \/ C!CascadeExchange(w)
  BY DEF AdvanceFloor, session, local
<1>2. mode = "open" /\ CP!CInv
  BY <1>1, WriterOpen DEF FOpen
<1>3. CP!CInv'
  BY <1>1, <1>2, FloorStepsAre, CP!CompareExchangeKeepsCInv, CP!CascadeReadKeepsCInv,
     CP!CascadeExchangeKeepsCInv, FloorAssumption
<1>4. /\ index' = index /\ height_highwater' = height_highwater /\ at[w] # "idle"
      /\ \E p \in {"read", "cascade", "highwater"} : at' = [at EXCEPT ![w] = p]
      /\ at \in [Writers -> CP!Places]
  BY <1>1, <1>2 DEF C!CompareExchange, C!CascadeRead, C!CascadeExchange, CP!CInv, CP!CTypeOK
<1>5. \A v \in Writers : at'[v] # "idle" <=> at[v] # "idle"
  BY <1>4
<1>6. \A v \in Writers : at'[v] # "idle" <=> pc'[v] = "advance"
  BY <1>1, <1>5 DEF FOpen
<1>7. Reached(height_highwater)'
  BY <1>2, <1>4 DEF FOpen, Reached, C!Present, C!ReadEntry
<1> QED
  BY <1>1, <1>2, <1>3, <1>6, <1>7 DEF FOpen

(* Every step of update_highwater keeps the floor right. *)
LEMMA RaiseF ==
  ASSUME MinHeight # 0, SInv, FOpen, NEW w \in Writers, RaiseHighwater(w)
  PROVE  FOpen'
<1>1. /\ pc[w] = "advance" /\ mode' = mode /\ C!UpdateHighwater(w)
      /\ Goto(w, "load") \/ Goto(w, "decide")
  BY DEF RaiseHighwater, session
<1>2. mode = "open" /\ CP!CInv /\ pc \in [Writers -> Stages]
  BY <1>1, WriterOpen DEF FOpen, SInv, LocalTypes
<1>3. CP!CInv'
  BY <1>1, <1>2, FloorStepsAre, CP!UpdateHighwaterKeepsCInv, FloorAssumption
<1>4. /\ index' = index /\ at[w] = "highwater" /\ at' = [at EXCEPT ![w] = "idle"]
      /\ height_highwater' \in {height[w], height_highwater}
      /\ at \in [Writers -> CP!Places]
  BY <1>1, <1>2 DEF C!UpdateHighwater, C!Leave, CP!CInv, CP!CTypeOK
<1>5. C!Present(height[w])
  BY <1>2, <1>4, FloorDefs DEF CP!CInv, CP!LocalsSound
<1>6. Reached(height_highwater)'
  <2>1. PICK t \in {height[w], height_highwater} : t = height_highwater'
    BY <1>4
  <2>2. t \in HeightOrNone /\ (t > C!FloorIfEmpty => C!Present(t))
    BY <1>2, <1>5, PresentIs DEF FOpen, Reached, HeightOrNone
  <2> QED
    BY <1>4, <2>1, <2>2 DEF Reached, C!Present, C!ReadEntry
<1>7. \A v \in Writers : at'[v] # "idle" <=> pc'[v] = "advance"
  BY <1>1, <1>2, <1>4 DEF FOpen, Goto
<1> QED
  BY <1>1, <1>2, <1>3, <1>6, <1>7 DEF FOpen

(* The other steps of write_block. *)
LEMMA WriterF ==
  ASSUME MinHeight # 0, SInv, FOpen, NEW w \in Writers,
         (\E h \in Heights, b \in Block : BeginWrite(w, h, b)) \/ WriterStep(w) \/ WriterFault(w)
  PROVE  FOpen'
<1>1. CASE Publish(w) \/ AdvanceFloor(w) \/ RaiseHighwater(w)
  BY <1>1, PublishF, AdvanceF, RaiseF
<1>2. ASSUME NEW h \in Heights, NEW b \in Block, BeginWrite(w, h, b) PROVE FOpen'
  <2>1. mode = "open" /\ UNCHANGED <<index, floor, mode>> /\ pc[w] # "advance" /\ Goto(w, "resolve")
    BY <1>2 DEF BeginWrite, BeginWriteOf, disk, session
  <2> QED
    BY <2>1, ElsewhereF DEF Stages
<1>3. CASE \/ Resolve(w) \/ WritePayload(w) \/ WriteHeader(w) \/ ResolveFails(w)
           \/ PayloadFails(w) \/ HeaderFails(w)
  <2>1. pc[w] \in {"resolve", "payload", "header"} /\ UNCHANGED <<index, floor, mode>>
    BY <1>3 DEF Resolve, WritePayload, WriteHeader, ResolveFails, PayloadFails, HeaderFails, session
  <2>2. PICK p \in Stages \ {"advance"} : Goto(w, p)
    BY <1>3 DEF Resolve, WritePayload, WriteHeader, ResolveFails, PayloadFails, HeaderFails,
                BreakOff, Stages
  <2>3. pc[w] # "advance" /\ mode = "open"
    BY <2>1, WriterOpen
  <2> QED
    BY <2>1, <2>2, <2>3, ElsewhereF
<1>4. CASE \/ CheckpointDue(w) \/ CheckpointLoad(w) \/ CheckpointWrite(w) \/ NoCheckpointDue(w)
           \/ CheckpointStore(w) \/ ReleaseReservation(w) \/ PublishFails(w) \/ CheckpointFails(w)
  <2>1. /\ pc[w] \in {"decide", "load", "loadfloor", "write", "store", "release", "publish"}
        /\ UNCHANGED <<index, floor, mode>>
    BY <1>4 DEF CheckpointDue, CheckpointLoad, CheckpointWrite, NoCheckpointDue, CheckpointStore,
                ReleaseReservation, PublishFails, CheckpointFails, disk, session
  <2>2. PICK p \in Stages \ {"advance"} : Goto(w, p)
    BY <1>4 DEF CheckpointDue, CheckpointLoad, CheckpointWrite, NoCheckpointDue, CheckpointStore,
                ReleaseReservation, PublishFails, CheckpointFails, ReturnErr, ReturnOk, Return, Stages
  <2>3. pc[w] # "advance" /\ mode = "open"
    BY <2>1, WriterOpen
  <2> QED
    BY <2>1, <2>2, <2>3, ElsewhereF
<1> QED
  BY <1>1, <1>2, <1>3, <1>4 DEF WriterStep, WriterFault
(* While no writer is on its way from the index entry to the highwater both are exact. *)
LEMMA QuietFloor ==
  ASSUME MinHeight # 0, FOpen, mode = "open", \A w \in Writers : pc[w] # "advance"
  PROVE  /\ Resume(max_contiguous_height, height_highwater)
         /\ max_contiguous_height \in Heights \union {C!FloorIfEmpty}
         /\ ~C!Present(max_contiguous_height + 1)
<1>1. CP!CInv /\ Reached(height_highwater) /\ \A w \in Writers : at[w] = "idle"
  BY DEF FOpen
<1>2. max_contiguous_height \in Heights \union {C!FloorIfEmpty}
  BY <1>1, FloorDefs DEF CP!CInv, CP!CTypeOK
<1>3. max_contiguous_height > C!FloorIfEmpty => C!ContiguousTo(max_contiguous_height)
  BY <1>1, FloorDefs DEF CP!CInv, CP!FloorSound, CP!ContiguousTo, C!ContiguousTo
<1>4. ~C!Present(max_contiguous_height + 1)
  BY <1>1, FloorDefs DEF CP!CInv, CP!DutyKept, CP!OnDuty
<1>5. \A h \in Heights : C!Present(h) => h <= height_highwater
  BY <1>1, FloorDefs DEF CP!CInv, CP!HighwaterPending
<1> QED
  BY <1>1, <1>2, <1>3, <1>4, <1>5 DEF Resume, Trusted, HeightOrNone

(* What is persisted stays true while the index does not change. *)
LEMMA ResumeStays ==
  ASSUME NEW f, NEW t, Resume(f, t), index' = index
  PROVE  Resume(f, t)'
BY DEF Resume, Trusted, Reached, C!ContiguousTo, C!Present, C!ReadEntry

(* The floor and the highwater of the next state, by the names of their values. *)
LEMMA ResumeNext ==
  ASSUME NEW f, NEW t, Resume(f, t)', f = header'.highest_contiguous, t = header'.max_height
  PROVE  Resume(header.highest_contiguous, header.max_height)'
BY DEF Resume, Trusted, Reached, C!ContiguousTo, C!Present, C!ReadEntry

(* The floor of a store without a write in progress. *)
LEMMA QuietComplete == ASSUME MinHeight # 0, FOpen PROVE FloorComplete
<1> SUFFICES ASSUME mode = "open", AllIdle
             PROVE  /\ ~C!Present(max_contiguous_height + 1)
                    /\ max_contiguous_height > C!FloorIfEmpty =>
                         max_contiguous_height <= height_highwater
  BY DEF FloorComplete
<1>1. /\ Resume(max_contiguous_height, height_highwater)
      /\ ~C!Present(max_contiguous_height + 1)
  BY QuietFloor DEF AllIdle
<1>2. ASSUME max_contiguous_height > C!FloorIfEmpty
      PROVE  max_contiguous_height <= height_highwater
  <2>1. /\ C!ContiguousTo(max_contiguous_height) /\ max_contiguous_height \in Heights
        /\ max_contiguous_height \in MinHeight .. max_contiguous_height
    BY <1>1, <1>2, NoneFacts DEF Resume, Trusted
  <2>2. C!Present(max_contiguous_height)
    BY <2>1 DEF C!ContiguousTo
  <2> QED
    BY <1>1, <2>1, <2>2 DEF Resume
<1> QED
  BY <1>1, <1>2

(* Drop keeps the floor right: the header it writes resumes to it. *)
LEMMA CloseF == ASSUME MinHeight # 0, TInv, FInv, Close PROVE FInv'
<1>1. /\ mode = "open" /\ AllIdle /\ index' = index /\ mode' = "down"
      /\ at' = [w \in Writers |-> "idle"] /\ height' = [w \in Writers |-> MinHeight]
      /\ prev' = [w \in Writers |-> 0] /\ pc' = [w \in Writers |-> "idle"]
  BY DEF Close, MemoryGone
<1>2. Resume(max_contiguous_height, height_highwater)
  BY <1>1, QuietFloor DEF FInv, AllIdle
<1>3. ~(data_highwater = 0 /\ height_highwater >= MinHeight)
  <2> SUFFICES ASSUME data_highwater = 0, height_highwater >= MinHeight PROVE FALSE
    OBVIOUS
  <2>1. height_highwater > C!FloorIfEmpty
    BY <1>2, NoneFacts, LowFacts DEF Resume, Reached
  <2>2. PICK h \in Heights : h = height_highwater /\ index[h] # NoEntry
    BY <1>2, <2>1, PresentIs DEF Resume, Reached
  <2>3. index[h] \in Entry /\ last[h] \in Block /\ Stored(index[h].offset, h, last[h])
    BY <2>2 DEF TInv, Content, ContentAt
  <2>4. PICK o \in Nat, n \in Nat :
          o = index[h].offset /\ n = o + HeaderSize + last[h].size /\ n > 0
    <3>1. index[h].offset \in Offsets /\ last[h].size \in Nat
      BY <2>3, BlockFacts DEF Entry
    <3>2. index[h].offset \in Nat
      BY <3>1, OffsetFacts
    <3> QED
      BY <3>1, <3>2
  <2>5. Kept(o, n)
    BY <2>3, <2>4 DEF Stored
  <2> QED
    BY <1>1, <2>4, <2>5 DEF Kept, Frontier
<1>4. PICK f, t : /\ f = max_contiguous_height /\ t = height_highwater
                  /\ header'.highest_contiguous = f /\ header'.max_height = t
  <2>1. header' = [next_write_offset |-> data_highwater, max_height |-> height_highwater,
                   highest_contiguous |-> max_contiguous_height]
    BY <1>3 DEF Close
  <2> QED
    BY <2>1
<1>5. Resume(f, t)'
  BY <1>1, <1>2, <1>4, ResumeStays
<1>6. Resume(header.highest_contiguous, header.max_height)'
  BY <1>4, <1>5, ResumeNext
<1> QED
  BY <1>1, <1>6 DEF FInv, FOpen

(* A step of open or recover before its end. *)
LEMMA RecoveryF ==
  ASSUME FInv, mode # "open", mode' # "open", UNCHANGED <<index, header, at, height, prev, pc>>,
         mode' = "recovering" => height_highwater' = header.max_height
  PROVE  FInv'
<1>1. PICK f, t : f = header.highest_contiguous /\ t = header.max_height
  OBVIOUS
<1>2. Resume(f, t)'
  BY <1>1, ResumeStays DEF FInv
<1>3. Resume(header.highest_contiguous, header.max_height)'
  BY <1>1, <1>2, ResumeNext
<1> QED
  BY <1>3 DEF FInv, FOpen

(***************************************************************************)
(* The end of recovery brings the floor back: the scan finds the first gap *)
(* above the floor in the header.                                          *)
(***************************************************************************)
LEMMA FinishRecoveryF ==
  ASSUME MinHeight # 0, SInv, FOpen, FinishRecovery,
         Resume(header.highest_contiguous, height_highwater)
  PROVE  FOpen'
<1>1. /\ mode = "recovering" /\ mode' = "open" /\ UNCHANGED <<index, at, height, prev, pc>>
      /\ height_highwater' = height_highwater
      /\ max_contiguous_height' = ScanContiguousFloor(header.highest_contiguous)
  BY DEF FinishRecovery, FinishAs, disk, local
<1>2. PICK f, t : f = header.highest_contiguous /\ t = height_highwater
  OBVIOUS
<1>3. Resume(f, t)
  BY <1>2
<1>4. PICK g : g = max_contiguous_height'
  OBVIOUS
<1>5. g \in Heights \union {C!FloorIfEmpty} /\ Trusted(g) /\ ~C!Present(g + 1)
  BY <1>1, <1>2, <1>3, <1>4, ScanResumes
<1>6. height_highwater' = t /\ max_contiguous_height' = g
  BY <1>1, <1>2, <1>4
<1>7. /\ at' = [w \in Writers |-> "idle"] /\ height' = [w \in Writers |-> MinHeight]
      /\ prev' = [w \in Writers |-> 0] /\ index' \in [Heights -> Entry \union {NoEntry}]
      /\ index' = index
  BY <1>1 DEF FOpen, SInv, DiskSound
<1>8. CP!CTypeOK'
  <2>1. t \in HeightOrNone
    BY <1>3 DEF Resume, Reached
  <2>2. /\ max_contiguous_height' \in CP!Heights \union {CP!FloorIfEmpty}
        /\ height_highwater' \in CP!Heights \union {0, CP!FloorIfEmpty}
        /\ index' \in [CP!Heights -> Entry \union {NoEntry}]
    BY <1>5, <1>6, <1>7, <2>1, FloorDefs DEF HeightOrNone
  <2>3. at' \in [Writers -> CP!Places]
    BY <1>7 DEF CP!Places
  <2>4. height' \in [Writers -> Nat] /\ prev' \in [Writers -> Nat]
    BY <1>7, BlockStoreAssumption
  <2> QED
    BY <2>2, <2>3, <2>4 DEF CP!CTypeOK
<1>9. CP!FloorSound'
  BY <1>5, <1>6, <1>7
     DEF Trusted, CP!FloorSound, CP!ContiguousTo, C!ContiguousTo, CP!Present, C!Present,
         CP!ReadEntry, C!ReadEntry, CP!Heights, C!Heights, CP!FloorIfEmpty, C!FloorIfEmpty,
         CP!Pred, C!Pred
<1>10. CP!LocalsSound'
  BY <1>7 DEF CP!LocalsSound
<1>11. CP!DutyKept'
  BY <1>5, <1>6, <1>7
     DEF CP!DutyKept, CP!Present, C!Present, CP!ReadEntry, C!ReadEntry, CP!Heights, C!Heights
<1>12. CP!HighwaterPending'
  BY <1>3, <1>6, <1>7
     DEF Resume, CP!HighwaterPending, CP!Present, C!Present, CP!ReadEntry, C!ReadEntry,
         CP!Heights, C!Heights, Heights
<1>13. CP!CInv'
  BY <1>8, <1>9, <1>10, <1>11, <1>12 DEF CP!CInv
<1>14. Reached(height_highwater)'
  BY <1>3, <1>6, <1>7 DEF Resume, Reached, C!Present, C!ReadEntry
<1>15. \A w \in Writers : at'[w] # "idle" <=> pc'[w] = "advance"
  BY <1>1 DEF FOpen
<1> QED
  BY <1>1, <1>13, <1>14, <1>15 DEF FOpen

(* An empty store has the right floor. *)
LEMMA InitFOpen == ASSUME MinHeight # 0, Init PROVE FOpen
<1>1. /\ mode = "open" /\ index = [h \in Heights |-> NoEntry]
      /\ max_contiguous_height = C!FloorIfEmpty /\ height_highwater = C!FloorIfEmpty
      /\ at = [w \in Writers |-> "idle"] /\ height = [w \in Writers |-> MinHeight]
      /\ prev = [w \in Writers |-> 0] /\ pc = [w \in Writers |-> "idle"]
  BY DEF Init
<1>2. \A h : ~CP!Present(h)
  BY <1>1 DEF CP!Present, CP!ReadEntry, CP!Heights, Heights
<1>3. CP!CTypeOK
  <2>1. /\ max_contiguous_height \in CP!Heights \union {CP!FloorIfEmpty}
        /\ height_highwater \in CP!Heights \union {0, CP!FloorIfEmpty}
        /\ index \in [CP!Heights -> Entry \union {NoEntry}]
    BY <1>1, FloorDefs
  <2>2. at \in [Writers -> CP!Places]
    BY <1>1 DEF CP!Places
  <2>3. height \in [Writers -> Nat] /\ prev \in [Writers -> Nat]
    BY <1>1, BlockStoreAssumption
  <2> QED
    BY <2>1, <2>2, <2>3 DEF CP!CTypeOK
<1>4. max_contiguous_height = CP!FloorIfEmpty /\ C!FloorIfEmpty \in Nat
  BY <1>1, FloorDefs, LowFacts
<1>5. CP!FloorSound /\ CP!LocalsSound /\ CP!DutyKept /\ CP!HighwaterPending
  <2>1. CP!FloorSound
    BY <1>1, <1>4 DEF CP!FloorSound
  <2> QED
    BY <1>1, <1>2, <2>1 DEF CP!LocalsSound, CP!DutyKept, CP!HighwaterPending
<1>6. CP!CInv
  BY <1>3, <1>5 DEF CP!CInv
<1> QED
  BY <1>1, <1>4, <1>6 DEF FOpen, Reached, HeightOrNone

(* A stuttering step keeps the floor right. *)
LEMMA StutterF == ASSUME FInv, UNCHANGED vars PROVE FInv'
<1>1. UNCHANGED <<mode, index, header, floor, pc>>
  BY DEF vars, disk, session, local
<1>2. CASE mode = "open"
  BY <1>1, <1>2, FloorSame DEF FInv
<1>3. CASE mode # "open"
  BY <1>1, <1>3, RecoveryF DEF floor, FInv
<1> QED
  BY <1>2, <1>3

(* Every step of a tidy store keeps the floor right. *)
LEMMA NextFInv ==
  ASSUME Tidy, MinHeight # 0, TInv, FInv, [Next]_vars
  PROVE  FInv'
<1>1. ~Crash /\ ~CheckpointProgress /\ ~RecoverBlock
  BY NothingToRecover DEF Tidy, TInv, History, Crash, CheckpointProgress
<1>2. ASSUME Open PROVE FInv'
  <2>1. /\ mode = "down" /\ UNCHANGED <<index, header, at, height, prev, pc>>
        /\ \/ mode' = "recovering" /\ height_highwater' = header.max_height
           \/ mode' = "refused"
    BY <1>2 DEF Open, disk, local
  <2> QED
    BY <2>1, RecoveryF
<1>3. ASSUME ScanNextFile PROVE FInv'
  <2>1. /\ mode = "recovering" /\ UNCHANGED <<index, header, at, height, prev, pc>>
        /\ mode' \in {"recovering", "refused"} /\ height_highwater' = height_highwater
    BY <1>3 DEF ScanNextFile, Scanning, disk, local, floor
  <2>2. height_highwater = header.max_height
    BY <2>1 DEF FInv
  <2> QED
    BY <2>1, <2>2, RecoveryF
<1>4. ASSUME FinishRecovery PROVE FInv'
  <2>1. mode = "recovering" /\ mode' = "open"
    BY <1>4 DEF FinishRecovery, FinishAs
  <2>2. FOpen'
    BY <1>4, <2>1, FinishRecoveryF DEF FInv, TInv
  <2> QED
    BY <2>1, <2>2 DEF FInv
<1>5. ASSUME NEW w \in Writers,
             (\E h \in Heights, b \in Block : BeginWrite(w, h, b)) \/ WriterStep(w) \/ WriterFault(w)
      PROVE  FInv'
  <2>1. mode = "open" /\ mode' = "open"
    BY <1>5, WriterSession DEF TInv
  <2> QED
    BY <1>5, <2>1, WriterF DEF FInv, TInv
<1> QED
  BY <1>1, <1>2, <1>3, <1>4, <1>5, CloseF, StutterF DEF Next, RecoveryStep

(* In a tidy store the floor's invariant holds whenever the store is open, and the header
   resumes to it whenever it is closed. *)
THEOREM FInvAlways == Tidy /\ MinHeight # 0 => (Spec => [](TInv /\ FInv))
<1> SUFFICES ASSUME Tidy, MinHeight # 0 PROVE Spec => [](TInv /\ FInv)
  OBVIOUS
<1>1. Init => TInv /\ FInv
  BY InitTInv, InitFOpen DEF FInv, Init
<1>2. TInv /\ FInv /\ [Next]_vars => TInv' /\ FInv'
  BY NextTInv, NextFInv
<1> QED
  BY <1>1, <1>2, PTL DEF Spec

(***************************************************************************)
(* Whatever the interleaving of the writers, whichever of them fail, and   *)
(* over any number of shutdowns and reopens: every height from min_height  *)
(* to max_contiguous_height can be read.                                   *)
(***************************************************************************)
THEOREM StoreFloorReadable == Tidy /\ MinHeight # 0 => (Spec => []FloorReadable)
<1> SUFFICES ASSUME Tidy, MinHeight # 0 PROVE Spec => []FloorReadable
  OBVIOUS
<1>1. TInv /\ FInv => FloorReadable
  <2> SUFFICES ASSUME TInv, FInv, mode = "open", max_contiguous_height > C!FloorIfEmpty,
                      NEW h \in MinHeight .. max_contiguous_height
               PROVE  ReadBlock(h) \in Block
    BY DEF FloorReadable
  <2>1. CP!Present(h)
    BY FloorDefs DEF FInv, FOpen, CP!CInv, CP!FloorSound, CP!ContiguousTo
  <2>2. h \in Heights /\ index[h] # NoEntry
    BY <2>1, FloorDefs, PresentIs
  <2>3. last[h] \in Block
    BY <2>2 DEF TInv, Content, ContentAt
  <2> QED
    BY <2>2, <2>3, ReadIsLast
<1>2. Spec => [](TInv /\ FInv)
  BY FInvAlways
<1> QED
  BY <1>1, <1>2, PTL

(***************************************************************************)
(* When no write is in progress the floor is the highest such height, also *)
(* when it comes out of the scan of a recovery, and the highwater is not   *)
(* below it.                                                               *)
(***************************************************************************)
THEOREM StoreFloorComplete == Tidy /\ MinHeight # 0 => (Spec => []FloorComplete)
<1> SUFFICES ASSUME Tidy, MinHeight # 0 PROVE Spec => []FloorComplete
  OBVIOUS
<1>1. TInv /\ FInv => FloorComplete
  BY QuietComplete DEF FInv
<1>2. Spec => [](TInv /\ FInv)
  BY FInvAlways
<1> QED
  BY <1>1, <1>2, PTL

-----------------------------------------------------------------------------
(* The ranges of all variables. *)

(* The header of the index file, and what the next one is made from. *)
HeaderTyped ==
  /\ header \in [next_write_offset : 0 .. MaxOffset, max_height : HeightOrNone,
                 highest_contiguous : HeightOrNone]
  /\ data_highwater <= MaxOffset
  /\ snap \in [Writers -> [max_height : HeightOrNone, highest_contiguous : HeightOrNone]]
  /\ last_checkpoint_offset \in 0 .. MaxOffset

(* The floor, and what the cascade of a writer will raise it to. *)
FloorTyped ==
  /\ max_contiguous_height \in Heights \union {C!FloorIfEmpty}
  /\ height_highwater \in HeightOrNone
  /\ at \in [Writers -> C!Places] /\ height \in [Writers -> Nat] /\ prev \in [Writers -> Nat]
  /\ \A w \in Writers : at[w] # "idle" => height[w] \in Heights
  /\ \A w \in Writers : at[w] = "cascade" => C!Present(prev[w] + 1)

Scans == {"recovering", "progress"}

(* The recovery scan stays within the data files. *)
ScanTyped ==
  /\ mode \in {"open", "down", "refused"} \union Scans
  /\ mode \notin Scans => scan = NoScan
  /\ scan.next <= MaxOffset /\ scan.window.room <= Larger(WindowSize, MaxOffset)
  /\ mode \in Scans => scan.end = LayoutEnd

KnownTyped ==
  /\ last \in [Heights -> Block \union {Nothing}]
  /\ loose \in [Heights -> SUBSET Block]
  /\ acked \subseteq Heights

YInv == SInv /\ HeaderTyped /\ FloorTyped /\ ScanTyped /\ KnownTyped

(* The heights are numbers, and so is what stands for none. *)
LEMMA HeightTypes ==
  /\ C!FloorIfEmpty \in Nat
  /\ \A h \in HeightOrNone : h \in Nat
  /\ Heights \subseteq HeightOrNone /\ C!FloorIfEmpty \in HeightOrNone /\ 0 \in HeightOrNone
  /\ NoSnap \in [max_height : HeightOrNone, highest_contiguous : HeightOrNone]
<1>1. C!FloorIfEmpty \in Nat
  BY BlockStoreAssumption DEF C!FloorIfEmpty, C!Pred
<1>2. Heights \subseteq Nat
  BY BlockStoreAssumption DEF Heights
<1> QED
  BY <1>1, <1>2 DEF HeightOrNone, NoSnap

(***************************************************************************)
(* Whatever the index and the header hold, the floor that the scan of the  *)
(* index returns is a height of the store or the floor of an empty one.    *)
(***************************************************************************)
LEMMA ScanInRange ==
  ASSUME NEW f \in HeightOrNone, height_highwater \in HeightOrNone
  PROVE  ScanContiguousFloor(f) \in Heights \union {C!FloorIfEmpty}
<1> DEFINE t == height_highwater
           e == C!FloorIfEmpty
           m == IF f < e THEN e ELSE f
           g == ScanContiguousFloor(f)
<1>1. f \in Nat /\ t \in Nat /\ e \in Nat /\ (MinHeight = 0 => e = 0)
      /\ (MinHeight # 0 => e + 1 = MinHeight) /\ MinHeight \in Nat /\ MaxHeight \in Nat
  BY HeightTypes, BlockStoreAssumption DEF C!FloorIfEmpty, C!Pred
<1>2. t \in Heights \/ t = 0 \/ t = e
  BY DEF HeightOrNone
<1> HIDE DEF t, e, g
<1>3. CASE t < MinHeight
  BY <1>3 DEF ScanContiguousFloor, t, e, g
<1>4. CASE ~(t < MinHeight)
  <2>1. t \in Heights \/ t = e
    BY <1>1, <1>2, <1>4
  <2>2. ScanStart(f) = IF m < t THEN m ELSE t
    BY DEF ScanStart, Larger, t, e
  <2>3. m \in Nat /\ e <= m
    BY <1>1
  <2> HIDE DEF m
  <2>4. CASE m >= t
    <3>1. ScanStart(f) = t
      BY <1>1, <2>2, <2>3, <2>4
    <3>2. g = t
      BY <1>1, <1>4, <3>1 DEF ScanContiguousFloor, ScanIndex, t, g
    <3> QED
      BY <2>1, <3>2 DEF e, g
  <2>5. CASE ~(m >= t)
    <3>1. ScanStart(f) = m /\ t \in Heights /\ t <= MaxHeight
      BY <1>1, <2>1, <2>2, <2>3, <2>5 DEF Heights
    <3>2. g = LastBeforeGap[m + 1]
      BY <1>4, <2>5, <3>1 DEF ScanContiguousFloor, ScanIndex, t, g
    <3>3. PICK c \in ScanDomain : c = m + 1 /\ c \in Nat
      BY <1>1, <2>3, <2>5, <3>1, BlockStoreAssumption DEF ScanDomain
    <3>4. PICK x \in Gaps(c) : x = Min(Gaps(c)) /\ \A h \in Gaps(c) : x <= h
      BY <3>3, FirstGap
    <3>5. g = x - 1 /\ x \in Nat /\ m + 1 <= x
      BY <3>2, <3>3, <3>4, ScanFindsFirstGap DEF Gaps
    <3>6. x <= t + 1
      <4>1. t + 1 \in Gaps(c)
        BY <1>1, <2>3, <2>5, <3>3 DEF Gaps, t
      <4> QED
        BY <3>4, <4>1
    <3>7. g \in Nat /\ e <= g /\ g <= MaxHeight
      BY <1>1, <2>3, <3>1, <3>5, <3>6
    <3>8. g = e \/ g \in Heights
      BY <1>1, <3>7 DEF Heights
    <3> QED
      BY <3>8 DEF e, g
  <2> QED
    BY <2>4, <2>5
<1> QED
  BY <1>3, <1>4

-----------------------------------------------------------------------------
(* The steps of a writer. *)

(* The highwater of the data never passes the last offset. *)
LEMMA HighwaterMoves ==
  ASSUME SInv, data_highwater <= MaxOffset, NEW w \in Writers,
         \/ \E s \in Sizes : R!ReserveSpace(w, HeaderSize + s)
         \/ R!Land(w) \/ R!ReleaseReservation(w) \/ UNCHANGED reserve
  PROVE  data_highwater' <= MaxOffset
<1>1. RP!RInv /\ MaxOffset \in Nat
  BY BlockStoreAssumption DEF SInv
<1>2. ASSUME NEW s \in Sizes, R!ReserveSpace(w, HeaderSize + s) PROVE data_highwater' <= MaxOffset
  BY <1>1, <1>2, ReserveEffect
<1>3. CASE R!ReleaseReservation(w)
  <2>1. \/ data_highwater = rsv[w].end /\ data_highwater' = rsv[w].prev
        \/ data_highwater' = data_highwater
    BY <1>1, <1>3, ReleaseEffect
  <2>2. /\ rsv[w].prev \in Nat /\ rsv[w].offset \in Nat /\ rsv[w].end \in Nat
        /\ R!Holds(w) => rsv[w].prev <= rsv[w].offset /\ rsv[w].offset < rsv[w].end
    BY HoldFacts
  <2>3. R!Holds(w)
    BY <1>3 DEF R!ReleaseReservation
  <2> QED
    BY <1>1, <2>1, <2>2, <2>3
<1> QED
  BY <1>2, <1>3 DEF reserve, R!Land

(* The header, the locals of the checkpoints and the highwater of the data. *)
LEMMA WriterHeaderTyped ==
  ASSUME YInv, NEW w \in Writers,
         (\E h \in Heights, b \in Block : BeginWrite(w, h, b)) \/ WriterStep(w) \/ WriterFault(w)
  PROVE  HeaderTyped'
<1> DEFINE Snaps == [max_height : HeightOrNone, highest_contiguous : HeightOrNone]
<1>1. /\ SInv /\ snap \in [Writers -> Snaps] /\ last_checkpoint_offset \in 0 .. MaxOffset
      /\ header \in [next_write_offset : 0 .. MaxOffset, max_height : HeightOrNone,
                     highest_contiguous : HeightOrNone]
      /\ max_contiguous_height \in HeightOrNone /\ height_highwater \in HeightOrNone
      /\ NoSnap \in Snaps
  BY HeightTypes DEF YInv, HeaderTyped, FloorTyped
<1>2. data_highwater' <= MaxOffset
  <2>1. \/ \E s \in Sizes : R!ReserveSpace(w, HeaderSize + s)
        \/ R!Land(w) \/ R!ReleaseReservation(w) \/ UNCHANGED reserve
    <3>1. ASSUME NEW h \in Heights, NEW b \in Block, BeginWrite(w, h, b)
          PROVE  \E s \in Sizes : R!ReserveSpace(w, HeaderSize + s)
      BY <3>1, BlockFacts DEF BeginWrite, BeginWriteOf
    <3> QED
      BY <3>1
         DEF WriterStep, WriterFault, Resolve, WritePayload, WriteHeader, Publish, AdvanceFloor,
             RaiseHighwater, NoCheckpointDue, CheckpointDue, CheckpointLoad, CheckpointWrite,
             CheckpointStore, ResolveFails, PayloadFails, HeaderFails, ReleaseReservation,
             PublishFails, CheckpointFails
  <2> QED
    BY <2>1, HighwaterMoves DEF YInv, HeaderTyped
<1>3. pc[w] # "idle" => job[w].saved \in 0 .. MaxOffset
  BY <1>1, WriterOpen, JobFacts DEF Working
<1>4. snap' \in [Writers -> Snaps]
  <2>1. CASE CheckpointLoad(w)
    <3>1. PICK x \in HeightOrNone : \/ snap' = [snap EXCEPT ![w].max_height = x]
                                   \/ snap' = [snap EXCEPT ![w].highest_contiguous = x]
      BY <1>1, <2>1 DEF CheckpointLoad
    <3> QED
      BY <1>1, <3>1
  <2>2. CASE snap' = snap \/ snap' = [snap EXCEPT ![w] = NoSnap]
    BY <1>1, <2>2
  <2> QED
    BY <2>1, <2>2
       DEF BeginWrite, BeginWriteOf, WriterStep, WriterFault, Resolve, WritePayload, WriteHeader,
           Publish, AdvanceFloor, RaiseHighwater, NoCheckpointDue, CheckpointDue,
           CheckpointWrite, CheckpointStore, ResolveFails, PayloadFails, HeaderFails,
           ReleaseReservation, PublishFails, CheckpointFails, ReturnOk, ReturnErr, Return, local
<1>5. last_checkpoint_offset' \in 0 .. MaxOffset
  <2>1. CASE CheckpointStore(w)
    BY <1>3, <2>1 DEF CheckpointStore
  <2>2. CASE last_checkpoint_offset' = last_checkpoint_offset
    BY <1>1, <2>2
  <2> QED
    BY <2>1, <2>2
       DEF BeginWrite, BeginWriteOf, WriterStep, WriterFault, Resolve, WritePayload, WriteHeader,
           Publish, AdvanceFloor, RaiseHighwater, NoCheckpointDue, CheckpointDue, CheckpointLoad,
           CheckpointWrite, ResolveFails, PayloadFails, HeaderFails, ReleaseReservation,
           PublishFails, CheckpointFails
<1>6. header' \in [next_write_offset : 0 .. MaxOffset, max_height : HeightOrNone,
                   highest_contiguous : HeightOrNone]
  <2>1. CASE CheckpointWrite(w)
    <3>1. snap[w].max_height \in HeightOrNone /\ snap[w].highest_contiguous \in HeightOrNone
      BY <1>1
    <3> QED
      BY <1>3, <2>1, <3>1 DEF CheckpointWrite
  <2>2. CASE header' = header
    BY <1>1, <2>2
  <2> QED
    BY <2>1, <2>2
       DEF BeginWrite, BeginWriteOf, WriterStep, WriterFault, Resolve, WritePayload, WriteHeader,
           Publish, AdvanceFloor, RaiseHighwater, NoCheckpointDue, CheckpointDue, CheckpointLoad,
           CheckpointStore, ResolveFails, PayloadFails, HeaderFails, ReleaseReservation,
           PublishFails, CheckpointFails, disk
<1> QED
  BY <1>2, <1>4, <1>5, <1>6 DEF HeaderTyped

(* A step that leaves the floor alone and removes no entry. *)
LEMMA FloorTypedStays ==
  ASSUME FloorTyped, UNCHANGED floor,
         \A h \in Heights : index[h] # NoEntry => index'[h] # NoEntry
  PROVE  FloorTyped'
<1>1. \A h : C!Present(h) => C!Present(h)'
  BY PresentStays
<1>2. ASSUME NEW w \in Writers, at'[w] = "cascade" PROVE C!Present(prev[w] + 1)'
  <2>1. PICK p : p = prev[w] + 1 /\ p = prev'[w] + 1
    BY DEF floor
  <2>2. C!Present(p)'
    BY <1>1, <1>2, <2>1 DEF FloorTyped, floor
  <2> QED
    BY <2>1, <2>2 DEF C!Present, C!ReadEntry
<1> QED
  BY <1>2 DEF FloorTyped, floor

(* The floor and the locals of its cascade. *)
LEMMA WriterFloorTyped ==
  ASSUME YInv, NEW w \in Writers,
         (\E h \in Heights, b \in Block : BeginWrite(w, h, b)) \/ WriterStep(w) \/ WriterFault(w)
  PROVE  FloorTyped'
<1>1. /\ SInv /\ max_contiguous_height \in Heights \union {C!FloorIfEmpty}
      /\ height_highwater \in HeightOrNone
      /\ at \in [Writers -> C!Places] /\ height \in [Writers -> Nat] /\ prev \in [Writers -> Nat]
      /\ \A v \in Writers : at[v] # "idle" => height[v] \in Heights
      /\ \A v \in Writers : at[v] = "cascade" => C!Present(prev[v] + 1)
  BY DEF YInv, FloorTyped
<1>2. CASE Publish(w)
  <2>1. /\ pc[w] = "publish" /\ at' = [at EXCEPT ![w] = "cas"]
        /\ height' = [height EXCEPT ![w] = job[w].height]
        /\ UNCHANGED <<max_contiguous_height, height_highwater, prev>>
        /\ index' = [index EXCEPT ![job[w].height] =
                       [offset |-> job[w].offset, size |-> job[w].block.size]]
    BY <1>2 DEF Publish, C!PublishEntry
  <2>2. PICK h \in Heights, e \in Entry :
          h = job[w].height /\ e = [offset |-> job[w].offset, size |-> job[w].block.size]
    <3>1. job[w].height \in Heights /\ job[w].offset \in Offsets /\ job[w].block.size \in Sizes
      BY <1>1, <2>1, JobSpan, BlockFacts
    <3> QED
      BY <3>1 DEF Entry
  <2>3. \A g : C!Present(g) => C!Present(g)'
    <3>1. index \in [Heights -> Entry \union {NoEntry}] /\ index' = [index EXCEPT ![h] = e]
      BY <1>1, <2>1, <2>2 DEF SInv, DiskSound
    <3>2. \A g \in Heights : index[g] # NoEntry => index'[g] # NoEntry
      BY <3>1, FloorAssumption DEF CP!ZeroEntryAssumption
    <3> QED
      BY <3>2, PresentStays
  <2>4. h \in Nat /\ "cas" \in C!Places
    BY <2>2, HeightTypes DEF C!Places
  <2>5. /\ at' \in [Writers -> C!Places] /\ height' \in [Writers -> Nat]
        /\ \A v \in Writers : at'[v] # "idle" => height'[v] \in Heights
    BY <1>1, <2>1, <2>2, <2>4
  <2>6. ASSUME NEW v \in Writers, at'[v] = "cascade" PROVE C!Present(prev[v] + 1)'
    <3>1. at[v] = "cascade"
      BY <1>1, <2>1, <2>6
    <3>2. PICK p : p = prev[v] + 1 /\ p = prev'[v] + 1
      BY <2>1
    <3>3. C!Present(p)'
      BY <1>1, <2>3, <3>1, <3>2
    <3> QED
      BY <3>2, <3>3 DEF C!Present, C!ReadEntry
  <2> QED
    BY <1>1, <2>1, <2>5, <2>6 DEF FloorTyped
<1>3. CASE AdvanceFloor(w)
  <2>1. index' = index /\ height' = height /\ height_highwater' = height_highwater
    BY <1>3 DEF AdvanceFloor, C!CompareExchange, C!CascadeRead, C!CascadeExchange
  <2>2. \A p : C!Present(p)' <=> C!Present(p)
    BY <2>1 DEF C!Present, C!ReadEntry
  <2>3. CASE C!CompareExchange(w)
    <3>1. at[w] = "cas" /\ height[w] \in Heights /\ height[w] \in Nat
      BY <1>1, <2>3 DEF C!CompareExchange
    <3>2. C!Pred(height[w]) + 1 \in Nat
      BY <3>1 DEF C!Pred
    <3>3. /\ max_contiguous_height' \in Heights \union {C!FloorIfEmpty}
          /\ \/ at' = [at EXCEPT ![w] = "read"] \/ at' = [at EXCEPT ![w] = "highwater"]
          /\ prev' \in [Writers -> Nat] /\ \A v \in Writers \ {w} : prev'[v] = prev[v]
      BY <1>1, <2>3, <3>1, <3>2 DEF C!CompareExchange
    <3>4. at' \in [Writers -> C!Places] /\ \A v \in Writers \ {w} : at'[v] = at[v]
      BY <1>1, <3>3 DEF C!Places
    <3>5. at'[w] # "cascade"
      BY <1>1, <3>3
    <3>6. \A v \in Writers : at'[v] # "idle" => height'[v] \in Heights
      BY <1>1, <2>1, <3>1, <3>4
    <3>7. ASSUME NEW v \in Writers, at'[v] = "cascade" PROVE C!Present(prev[v] + 1)'
      BY <1>1, <2>1, <3>3, <3>4, <3>5, <3>7 DEF C!Present, C!ReadEntry
    <3> QED
      BY <1>1, <2>1, <3>3, <3>4, <3>6, <3>7 DEF FloorTyped
  <2>4. CASE C!CascadeRead(w)
    <3>1. /\ at[w] = "read" /\ prev' = prev /\ max_contiguous_height' = max_contiguous_height
          /\ \/ at' = [at EXCEPT ![w] = "cascade"] /\ C!Present(prev[w] + 1)
             \/ at' = [at EXCEPT ![w] = "highwater"]
      BY <2>4 DEF C!CascadeRead
    <3>2. at' \in [Writers -> C!Places] /\ \A v \in Writers \ {w} : at'[v] = at[v]
      BY <1>1, <3>1 DEF C!Places
    <3>3. \A v \in Writers : at'[v] # "idle" => height'[v] \in Heights
      BY <1>1, <2>1, <3>1, <3>2
    <3>4. \A v \in Writers : at'[v] = "cascade" => C!Present(prev[v] + 1)
      BY <1>1, <3>1, <3>2
    <3>5. ASSUME NEW v \in Writers, at'[v] = "cascade" PROVE C!Present(prev[v] + 1)'
      BY <2>1, <3>1, <3>4, <3>5 DEF C!Present, C!ReadEntry
    <3> QED
      BY <1>1, <2>1, <3>1, <3>2, <3>3, <3>5 DEF FloorTyped
  <2>5. CASE C!CascadeExchange(w)
    <3>1. /\ at[w] = "cascade" /\ C!Present(prev[w] + 1) /\ prev[w] + 1 \in Nat
      BY <1>1, <2>5 DEF C!CascadeExchange
    <3>2. prev[w] + 1 \in Heights
      BY <3>1, PresentIs
    <3>3. /\ max_contiguous_height' \in Heights \union {C!FloorIfEmpty}
          /\ \/ at' = [at EXCEPT ![w] = "read"] \/ at' = [at EXCEPT ![w] = "highwater"]
          /\ prev' \in [Writers -> Nat] /\ \A v \in Writers \ {w} : prev'[v] = prev[v]
      BY <1>1, <2>5, <3>1, <3>2 DEF C!CascadeExchange
    <3>4. at' \in [Writers -> C!Places] /\ \A v \in Writers \ {w} : at'[v] = at[v]
      BY <1>1, <3>3 DEF C!Places
    <3>5. at'[w] # "cascade"
      BY <1>1, <3>3
    <3>6. \A v \in Writers : at'[v] # "idle" => height'[v] \in Heights
      BY <1>1, <2>1, <3>1, <3>4
    <3>7. ASSUME NEW v \in Writers, at'[v] = "cascade" PROVE C!Present(prev[v] + 1)'
      BY <1>1, <2>1, <3>3, <3>4, <3>5, <3>7 DEF C!Present, C!ReadEntry
    <3> QED
      BY <1>1, <2>1, <3>3, <3>4, <3>6, <3>7 DEF FloorTyped
  <2> QED
    BY <1>3, <2>3, <2>4, <2>5 DEF AdvanceFloor
<1>4. CASE RaiseHighwater(w)
  <2>1. /\ at[w] = "highwater" /\ at' = [at EXCEPT ![w] = "idle"]
        /\ height_highwater' \in {height[w], height_highwater}
        /\ height' = [height EXCEPT ![w] = MinHeight] /\ prev' = [prev EXCEPT ![w] = 0]
        /\ UNCHANGED <<index, max_contiguous_height>>
    BY <1>4 DEF RaiseHighwater, C!UpdateHighwater, C!Leave
  <2>2. height_highwater' \in HeightOrNone
    BY <1>1, <2>1, HeightTypes
  <2>3. /\ at' \in [Writers -> C!Places] /\ height' \in [Writers -> Nat]
        /\ prev' \in [Writers -> Nat]
        /\ \A v \in Writers \ {w} : at'[v] = at[v] /\ prev'[v] = prev[v] /\ height'[v] = height[v]
    BY <1>1, <2>1, BlockStoreAssumption DEF C!Places
  <2>4. at'[w] = "idle"
    BY <1>1, <2>1
  <2>5. ASSUME NEW v \in Writers, at'[v] = "cascade" PROVE C!Present(prev[v] + 1)'
    BY <1>1, <2>1, <2>3, <2>4, <2>5 DEF C!Present, C!ReadEntry
  <2>6. \A v \in Writers : at'[v] # "idle" => height'[v] \in Heights
    BY <1>1, <2>3, <2>4
  <2> QED
    BY <1>1, <2>1, <2>2, <2>3, <2>5, <2>6 DEF FloorTyped
<1>5. CASE ~(Publish(w) \/ AdvanceFloor(w) \/ RaiseHighwater(w))
  <2>1. UNCHANGED <<index, floor>>
    BY <1>5
       DEF BeginWrite, BeginWriteOf, WriterStep, WriterFault, Resolve, WritePayload, WriteHeader,
           NoCheckpointDue, CheckpointDue, CheckpointLoad, CheckpointWrite, CheckpointStore,
           ResolveFails, PayloadFails, HeaderFails, ReleaseReservation, PublishFails,
           CheckpointFails, disk
  <2> QED
    BY <2>1, FloorTypedStays DEF YInv
<1> QED
  BY <1>2, <1>3, <1>4, <1>5

(* What the callers know. *)
LEMMA WriterKnownTyped ==
  ASSUME YInv, NEW w \in Writers,
         (\E h \in Heights, b \in Block : BeginWrite(w, h, b)) \/ WriterStep(w) \/ WriterFault(w)
  PROVE  KnownTyped'
<1>1. /\ SInv /\ last \in [Heights -> Block \union {Nothing}]
      /\ loose \in [Heights -> SUBSET Block] /\ acked \subseteq Heights
  BY DEF YInv, KnownTyped
<1>2. pc[w] # "idle" => job[w].height \in Heights /\ job[w].block \in Block
  BY <1>1, JobSpan
<1>3. CASE Publish(w)
  <2>1. PICK h \in Heights, b \in Block, x \in SUBSET Block :
          /\ last' = [last EXCEPT ![h] = b] /\ loose' = [loose EXCEPT ![h] = x]
    <3>1. /\ pc[w] = "publish" /\ last' = [last EXCEPT ![job[w].height] = job[w].block]
          /\ loose' = [loose EXCEPT ![job[w].height] =
                         IF job[w].alone THEN {} ELSE @ \union {job[w].block}]
      BY <1>3 DEF Publish
    <3>2. PICK x : x = IF job[w].alone THEN {} ELSE loose[job[w].height] \union {job[w].block}
      OBVIOUS
    <3>3. x \in SUBSET Block
      BY <1>1, <1>2, <3>1, <3>2
    <3> QED
      BY <1>2, <3>1, <3>2, <3>3
  <2>2. acked' = acked
    BY <1>3 DEF Publish
  <2> QED
    BY <1>1, <2>1, <2>2 DEF KnownTyped
<1>4. CASE ReleaseReservation(w) \/ PublishFails(w)
  <2>1. /\ pc[w] # "idle" /\ UNCHANGED <<last, acked>>
        /\ loose' = [loose EXCEPT ![job[w].height] = @ \union {job[w].block}]
    BY <1>4 DEF ReleaseReservation, PublishFails, ReturnErr, MayReappear
  <2>2. loose' \in [Heights -> SUBSET Block]
    BY <1>1, <1>2, <2>1
  <2> QED
    BY <1>1, <2>1, <2>2 DEF KnownTyped
<1>5. CASE ~(Publish(w) \/ ReleaseReservation(w) \/ PublishFails(w))
  <2>1. /\ UNCHANGED <<last, loose>>
        /\ acked' = acked \/ (pc[w] # "idle" /\ acked' = acked \union {job[w].height})
    BY <1>5
       DEF BeginWrite, BeginWriteOf, WriterStep, WriterFault, Resolve, WritePayload, WriteHeader,
           AdvanceFloor, RaiseHighwater, NoCheckpointDue, CheckpointDue, CheckpointLoad,
           CheckpointWrite, CheckpointStore, ResolveFails, PayloadFails, HeaderFails,
           CheckpointFails, ReturnOk, ReturnErr, known
  <2> QED
    BY <1>1, <1>2, <2>1 DEF KnownTyped
<1> QED
  BY <1>3, <1>4, <1>5

(* Every step of write_block keeps the types. *)
LEMMA WriterTyped ==
  ASSUME YInv, NEW w \in Writers,
         (\E h \in Heights, b \in Block : BeginWrite(w, h, b)) \/ WriterStep(w) \/ WriterFault(w)
  PROVE  YInv'
<1>1. SInv' /\ mode = "open" /\ mode' = "open" /\ scan' = scan
  BY WriterInv, WriterSession DEF YInv
<1>2. ScanTyped'
  BY <1>1 DEF YInv, ScanTyped, Scans
<1> QED
  BY <1>1, <1>2, WriterHeaderTyped, WriterFloorTyped, WriterKnownTyped DEF YInv
-----------------------------------------------------------------------------
(* The steps that close and open a store. *)

(* The memory of a new process. *)
LEMMA MemoryGoneTyped ==
  ASSUME SInv', MemoryGone, KnownTyped',
         header' \in [next_write_offset : 0 .. MaxOffset, max_height : HeightOrNone,
                      highest_contiguous : HeightOrNone]
  PROVE  YInv'
<1>1. MaxOffset \in Nat /\ 0 \in 0 .. MaxOffset /\ WindowSize \in Nat /\ MinHeight \in Nat
  BY BlockStoreAssumption
<1>2. HeaderTyped'
  BY <1>1, HeightTypes DEF HeaderTyped, MemoryGone
<1>3. FloorTyped'
  BY <1>1, HeightTypes DEF FloorTyped, MemoryGone, C!Places
<1>4. ScanTyped'
  <2>1. scan' = NoScan /\ mode' = "down"
    BY DEF MemoryGone
  <2>2. scan'.next = 0 /\ scan'.window.room = WindowSize
    BY <2>1 DEF NoScan, W!EmptyWindow
  <2> QED
    BY <1>1, <2>1, <2>2 DEF ScanTyped, Scans, Larger
<1> QED
  BY <1>2, <1>3, <1>4 DEF YInv

(* Drop keeps the types. *)
LEMMA CloseTyped == ASSUME YInv, Close PROVE YInv'
<1>1. SInv' /\ MemoryGone /\ UNCHANGED known
  BY CloseKeeps DEF YInv, Close
<1>2. KnownTyped'
  BY <1>1 DEF YInv, KnownTyped, known
<1>3. header' \in [next_write_offset : 0 .. MaxOffset, max_height : HeightOrNone,
                   highest_contiguous : HeightOrNone]
  <2>1. /\ data_highwater \in 0 .. MaxOffset /\ height_highwater \in HeightOrNone
        /\ max_contiguous_height \in HeightOrNone
    BY HeightTypes, BlockStoreAssumption DEF YInv, HeaderTyped, FloorTyped, SInv, RP!RInv, RP!RTypeOK
  <2> QED
    BY <2>1 DEF Close, YInv, HeaderTyped
<1> QED
  BY <1>1, <1>2, <1>3, MemoryGoneTyped

(* A crash keeps the types: what becomes loose are blocks. *)
LEMMA CrashTyped == ASSUME YInv, Crash PROVE YInv'
<1>1. SInv /\ SInv' /\ MemoryGone /\ UNCHANGED <<header, last, acked>>
  BY CrashKeeps DEF YInv, Crash, disk
<1>2. KnownTyped'
  <2>1. \A w \in Writers : pc[w] # "idle" => job[w].block \in Block
    BY <1>1, JobSpan
  <2>2. \A h \in Heights : \A w \in InFlight(h) : job[w].block \in Block
    BY <2>1 DEF InFlight
  <2>3. loose' \in [Heights -> SUBSET Block]
    BY <2>2 DEF Crash, YInv, KnownTyped
  <2> QED
    BY <1>1, <2>3 DEF YInv, KnownTyped
<1> QED
  BY <1>1, <1>2, MemoryGoneTyped DEF YInv, HeaderTyped

(* Opening keeps the types. *)
LEMMA OpenTyped == ASSUME YInv, Open PROVE YInv'
<1>1. SInv' /\ UNCHANGED <<disk, max_contiguous_height, at, height, prev, snap, last, loose, acked>>
  BY OpenKeeps DEF YInv, Open, local, known
<1>2. /\ header.next_write_offset \in 0 .. MaxOffset /\ header.max_height \in HeightOrNone
      /\ data_highwater <= MaxOffset /\ last_checkpoint_offset \in 0 .. MaxOffset
      /\ height_highwater \in HeightOrNone /\ WindowSize \in Nat /\ MaxOffset \in Nat
  BY BlockStoreAssumption DEF YInv, HeaderTyped, FloorTyped
<1>3. /\ data_highwater' <= MaxOffset /\ last_checkpoint_offset' \in 0 .. MaxOffset
      /\ height_highwater' \in HeightOrNone
  BY <1>2 DEF Open
<1>4. ScanTyped'
  <2>1. CASE LayoutValid /\ LayoutEnd >= header.next_write_offset
    <3>1. mode' = "recovering" /\ scan'.next = header.next_write_offset /\ scan'.end = LayoutEnd
          /\ scan'.window.room = WindowSize
      BY <2>1 DEF Open, W!EmptyWindow
    <3>2. LayoutEnd' = LayoutEnd
      BY <1>1 DEF LayoutEnd, LastFile, OnDisk, disk
    <3> QED
      BY <1>2, <3>1, <3>2 DEF ScanTyped, Scans, Larger
  <2>2. CASE ~(LayoutValid /\ LayoutEnd >= header.next_write_offset)
    <3>1. mode = "down" /\ mode' = "refused" /\ scan' = scan
      BY <2>2 DEF Open
    <3> QED
      BY <3>1 DEF YInv, ScanTyped, Scans
  <2> QED
    BY <2>1, <2>2
<1>5. \A p : C!Present(p)' <=> C!Present(p)
  BY <1>1 DEF C!Present, C!ReadEntry, disk
<1>6. FloorTyped'
  <2>1. ASSUME NEW w \in Writers, at'[w] = "cascade" PROVE C!Present(prev[w] + 1)'
    BY <1>1, <1>5, <2>1 DEF YInv, FloorTyped, C!Present, C!ReadEntry, disk
  <2> QED
    BY <1>1, <1>3, <2>1 DEF YInv, FloorTyped
<1> QED
  BY <1>1, <1>3, <1>4, <1>6 DEF YInv, HeaderTyped, KnownTyped, disk

-----------------------------------------------------------------------------
(* The recovery scan. *)

(* A step of the recovery scan that leaves the files, the writers and the callers alone. *)
LEMMA RecoveryTypedFrame ==
  ASSUME YInv, SInv', mode \in Scans, mode' \in Scans \union {"refused"},
         UNCHANGED <<flen, data_highwater, at, height, prev, snap, last, loose, acked>>,
         header' \in [next_write_offset : 0 .. MaxOffset, max_height : HeightOrNone,
                      highest_contiguous : HeightOrNone],
         last_checkpoint_offset' \in 0 .. MaxOffset,
         max_contiguous_height' \in Heights \union {C!FloorIfEmpty},
         height_highwater' \in HeightOrNone,
         scan'.next <= MaxOffset, mode' \in Scans => scan'.end = scan.end,
         mode' = "refused" => scan' = NoScan,
         scan'.window.room <= Larger(WindowSize, MaxOffset),
         \A p : C!Present(p) => C!Present(p)'
  PROVE  YInv'
<1>1. LayoutEnd' = LayoutEnd
  BY DEF LayoutEnd, LastFile, OnDisk
<1>2. ScanTyped'
  BY <1>1 DEF YInv, ScanTyped, Scans
<1>3. ASSUME NEW w \in Writers, at'[w] = "cascade" PROVE C!Present(prev[w] + 1)'
  <2>1. PICK p : p = prev[w] + 1 /\ p = prev'[w] + 1
    OBVIOUS
  <2>2. C!Present(p)'
    BY <1>3, <2>1 DEF YInv, FloorTyped
  <2> QED
    BY <2>1, <2>2 DEF C!Present, C!ReadEntry
<1>4. FloorTyped'
  BY <1>3 DEF YInv, FloorTyped
<1> QED
  BY <1>2, <1>4 DEF YInv, HeaderTyped, KnownTyped

(* Moving on to the next file keeps the types. *)
LEMMA ScanNextFileTyped == ASSUME YInv, ScanNextFile PROVE YInv'
<1>1. /\ mode = "recovering"
      /\ \/ /\ R!NextFileStart(scan.next) <= MaxOffset
            /\ scan' = [scan EXCEPT !.next = R!NextFileStart(@)] /\ mode' = mode
         \/ scan' = NoScan /\ mode' = "refused"
      /\ UNCHANGED <<disk, data_highwater, at, height, prev, snap, last, loose, acked,
                     last_checkpoint_offset, max_contiguous_height, height_highwater>>
  BY DEF ScanNextFile, Scanning, reserve, local, floor, known
<1>2. SInv'
  BY ScanNextFileKeeps DEF YInv
<1>3. scan \in Scan /\ MaxOffset \in Nat /\ WindowSize \in Nat
  BY BlockStoreAssumption DEF YInv, SInv, LocalTypes
<1>4. \A p : C!Present(p) => C!Present(p)'
  BY <1>1 DEF C!Present, C!ReadEntry, disk
<1>5. /\ mode \in Scans /\ mode' \in Scans \union {"refused"}
      /\ header' = header /\ flen' = flen /\ "refused" \notin Scans
  BY <1>1 DEF Scans, disk
<1>6. /\ header' \in [next_write_offset : 0 .. MaxOffset, max_height : HeightOrNone,
                      highest_contiguous : HeightOrNone]
      /\ last_checkpoint_offset' \in 0 .. MaxOffset
      /\ max_contiguous_height' \in Heights \union {C!FloorIfEmpty}
      /\ height_highwater' \in HeightOrNone
  BY <1>1, <1>5 DEF YInv, HeaderTyped, FloorTyped
<1>7. CASE mode' = mode
  <2>1. /\ scan'.next <= MaxOffset /\ scan'.end = scan.end
        /\ scan'.window.room <= Larger(WindowSize, MaxOffset)
    BY <1>1, <1>3, <1>7 DEF Scan, YInv, ScanTyped
  <2> QED
    BY <1>1, <1>2, <1>4, <1>5, <1>6, <1>7, <2>1, RecoveryTypedFrame
<1>8. CASE mode' = "refused" /\ scan' = NoScan
  <2>1. scan'.next <= MaxOffset /\ scan'.window.room <= Larger(WindowSize, MaxOffset)
    BY <1>3, <1>8 DEF NoScan, W!EmptyWindow, Larger
  <2> QED
    BY <1>1, <1>2, <1>4, <1>5, <1>6, <1>8, <2>1, RecoveryTypedFrame
<1> QED
  BY <1>1, <1>7, <1>8

(* The window never has more room than its default or what a block needed. *)
LEMMA RoomBounded ==
  ASSUME NEW v \in Window, NEW f, NEW o, NEW n \in Nat, NEW cells, n <= MaxOffset,
         v.room <= Larger(WindowSize, MaxOffset)
  PROVE  W!After(v, f, o, n, cells).room <= Larger(WindowSize, MaxOffset)
<1>1. v.room \in Nat /\ WindowSize \in Nat /\ MaxOffset \in Nat
  BY BlockStoreAssumption DEF Window
<1>2. n <= Larger(WindowSize, MaxOffset)
  BY <1>1 DEF Larger
<1>3. W!Refill(v, f, o, n, cells).room = IF n > v.room THEN n ELSE v.room
  BY DEF W!Refill
<1> QED
  BY <1>2, <1>3 DEF W!After

(* Indexing a block found by the scan keeps the types. *)
LEMMA RecoverBlockTyped == ASSUME YInv, RecoverBlock PROVE YInv'
<1>1. /\ mode = "recovering" /\ Scanning /\ BlockNext /\ mode' \in Scans
      /\ UNCHANGED <<header, flen, data_highwater, at, height, prev, snap, last, loose, acked,
                     last_checkpoint_offset>>
  BY DEF RecoverBlock, Scanning, reserve, local, known, Scans
<1>2. SInv /\ SInv' /\ scan \in Scan /\ index \in [Heights -> Entry \union {NoEntry}]
  BY RecoverBlockKeeps DEF YInv, SInv, LocalTypes, DiskSound
<1>3. PICK h \in Heights, b \in Block :
        /\ HeaderRead.height = h /\ HeaderRead.block = b /\ scan.next \in Offsets
        /\ scan.next + HeaderSize + b.size <= MaxOffset
  BY <1>1, <1>2, ScanAccepts
<1>4. b.size \in Nat /\ b.size \in Sizes /\ scan.next \in Nat /\ MaxOffset \in Nat
  BY <1>3, BlockFacts, OffsetFacts, BlockStoreAssumption
<1>5. /\ index' = [index EXCEPT ![h] = [offset |-> scan.next, size |-> b.size]]
      /\ scan' = [scan EXCEPT !.next = scan.next + HeaderSize + b.size,
                              !.window = AfterPayload(b.size)]
      /\ height_highwater' = Larger(height_highwater, h)
      /\ max_contiguous_height' = Larger(max_contiguous_height, h)
  BY <1>3 DEF RecoverBlock
<1>6. /\ scan'.next = scan.next + HeaderSize + b.size /\ scan'.end = scan.end
      /\ scan'.window = AfterPayload(b.size)
  BY <1>2, <1>5 DEF Scan
<1>7. AfterPayload(b.size).room <= Larger(WindowSize, MaxOffset)
  <2>1. scan.window \in Window /\ scan.window.room <= Larger(WindowSize, MaxOffset)
    BY <1>2 DEF Scan, YInv, ScanTyped
  <2>2. AfterHeader \in Window
    BY <1>1, <1>2, ScanReads DEF BlockNext
  <2>3. HeaderSize \in Nat /\ HeaderSize <= MaxOffset /\ b.size <= MaxOffset
    BY <1>3, <1>4
  <2>4. AfterHeader.room <= Larger(WindowSize, MaxOffset)
    BY <2>1, <2>3, RoomBounded DEF AfterHeader, ReadThrough
  <2> QED
    BY <1>4, <2>2, <2>3, <2>4, RoomBounded DEF AfterPayload, ReadThrough
<1>8. \A p : C!Present(p) => C!Present(p)'
  <2>1. PICK e \in Entry : index' = [index EXCEPT ![h] = e]
    BY <1>3, <1>4, <1>5 DEF Entry
  <2>2. \A g \in Heights : index[g] # NoEntry => index'[g] # NoEntry
    BY <1>2, <2>1, FloorAssumption DEF CP!ZeroEntryAssumption
  <2> QED
    BY <2>2, PresentStays
<1>9. /\ height_highwater' \in HeightOrNone
      /\ max_contiguous_height' \in Heights \union {C!FloorIfEmpty}
  BY <1>5, HeightTypes DEF Larger, YInv, FloorTyped
<1>10. mode \in Scans /\ mode' # "refused"
  BY <1>1 DEF Scans
<1>11. /\ header' \in [next_write_offset : 0 .. MaxOffset, max_height : HeightOrNone,
                       highest_contiguous : HeightOrNone]
       /\ last_checkpoint_offset' \in 0 .. MaxOffset
  BY <1>1 DEF YInv, HeaderTyped
<1> QED
  BY <1>1, <1>2, <1>3, <1>6, <1>7, <1>8, <1>9, <1>10, <1>11, RecoveryTypedFrame

(* The checkpoint of the recovery's progress keeps the types. *)
LEMMA CheckpointProgressTyped == ASSUME YInv, CheckpointProgress PROVE YInv'
<1>1. /\ mode = "progress" /\ mode' = "recovering" /\ scan' = [scan EXCEPT !.progress = scan.next]
      /\ UNCHANGED <<index, flen, data_highwater, at, height, prev, snap, last, loose, acked,
                     max_contiguous_height, height_highwater>>
      /\ header' = [header EXCEPT !.next_write_offset = scan.next, !.max_height = height_highwater]
      /\ last_checkpoint_offset' = scan.next
  BY DEF CheckpointProgress, reserve, local, floor, known
<1>2. SInv' /\ scan \in Scan
  BY CheckpointProgressKeeps DEF YInv, SInv, LocalTypes
<1>3. scan.next \in 0 .. MaxOffset
  BY <1>2, BlockStoreAssumption DEF YInv, ScanTyped, Scan
<1>4. scan'.next = scan.next /\ scan'.end = scan.end /\ scan'.window = scan.window
  BY <1>1, <1>2 DEF Scan
<1>5. \A p : C!Present(p) => C!Present(p)'
  BY <1>1 DEF C!Present, C!ReadEntry
<1>6. header' \in [next_write_offset : 0 .. MaxOffset, max_height : HeightOrNone,
                   highest_contiguous : HeightOrNone]
  <2>1. header \in [next_write_offset : 0 .. MaxOffset, max_height : HeightOrNone,
                    highest_contiguous : HeightOrNone] /\ height_highwater \in HeightOrNone
    BY DEF YInv, HeaderTyped, FloorTyped
  <2> QED
    BY <1>1, <1>3, <2>1
<1>7. mode \in Scans /\ mode' \in Scans
  BY <1>1 DEF Scans
<1> QED
  BY <1>1, <1>2, <1>3, <1>4, <1>5, <1>6, <1>7, RecoveryTypedFrame
     DEF YInv, FloorTyped, ScanTyped

(* The end of recovery keeps the types: the floor is found in the index. *)
LEMMA FinishRecoveryTyped == ASSUME YInv, FinishRecovery PROVE YInv'
<1>1. /\ mode = "recovering" /\ mode' = "open" /\ scan' = NoScan /\ data_highwater' = scan.next
      /\ max_contiguous_height' = ScanContiguousFloor(header.highest_contiguous)
      /\ UNCHANGED <<disk, at, height, prev, snap, acked, last_checkpoint_offset, height_highwater>>
      /\ last' = [h \in Heights |-> IF ReadBlock(h) \in loose[h] THEN ReadBlock(h) ELSE last[h]]
      /\ loose' = [h \in Heights |-> {}]
  BY DEF FinishRecovery, FinishAs, local
<1>2. SInv' /\ scan.next <= MaxOffset /\ header.highest_contiguous \in HeightOrNone
      /\ height_highwater \in HeightOrNone
  BY FinishRecoveryKeeps DEF YInv, ScanTyped, HeaderTyped, FloorTyped
<1>3. max_contiguous_height' \in Heights \union {C!FloorIfEmpty}
  BY <1>1, <1>2, ScanInRange
<1>4. KnownTyped'
  <2>1. \A h \in Heights : loose[h] \subseteq Block /\ last[h] \in Block \union {Nothing}
    BY DEF YInv, KnownTyped
  <2> HIDE DEF ReadBlock
  <2> QED
    BY <1>1, <2>1 DEF YInv, KnownTyped
<1>5. HeaderTyped'
  BY <1>1, <1>2 DEF YInv, HeaderTyped, disk
<1>6. ScanTyped'
  <2>1. scan'.next = 0 /\ scan'.window.room = WindowSize
    BY <1>1 DEF NoScan, W!EmptyWindow
  <2> QED
    BY <1>1, <2>1, BlockStoreAssumption DEF ScanTyped, Scans, Larger
<1>7. \A p : C!Present(p) => C!Present(p)'
  BY <1>1 DEF C!Present, C!ReadEntry, disk
<1>8. ASSUME NEW w \in Writers, at'[w] = "cascade" PROVE C!Present(prev[w] + 1)'
  <2>1. PICK p : p = prev[w] + 1 /\ p = prev'[w] + 1
    BY <1>1
  <2>2. C!Present(p)'
    BY <1>1, <1>7, <1>8, <2>1 DEF YInv, FloorTyped
  <2> QED
    BY <2>1, <2>2 DEF C!Present, C!ReadEntry
<1>9. FloorTyped'
  BY <1>1, <1>2, <1>3, <1>8 DEF YInv, FloorTyped
<1> QED
  BY <1>2, <1>4, <1>5, <1>6, <1>9 DEF YInv

-----------------------------------------------------------------------------
(* A fresh store has the types. *)
LEMMA InitYInv == Init => YInv
<1> SUFFICES ASSUME Init PROVE YInv
  OBVIOUS
<1>1. SInv /\ MaxOffset \in Nat /\ 0 \in 0 .. MaxOffset /\ WindowSize \in Nat /\ MinHeight \in Nat
  BY InitSInv, BlockStoreAssumption
<1>2. HeaderTyped
  BY <1>1, HeightTypes DEF HeaderTyped, Init
<1>3. FloorTyped
  BY <1>1, HeightTypes DEF FloorTyped, Init, C!Places
<1>4. ScanTyped
  <2>1. scan = NoScan /\ mode = "open"
    BY DEF Init
  <2>2. scan.next = 0 /\ scan.window.room = WindowSize
    BY <2>1 DEF NoScan, W!EmptyWindow
  <2> QED
    BY <1>1, <2>1, <2>2 DEF ScanTyped, Scans, Larger
<1>5. KnownTyped
  BY DEF KnownTyped, Init
<1> QED
  BY <1>1, <1>2, <1>3, <1>4, <1>5 DEF YInv

(* A step that changes nothing keeps the types. *)
LEMMA StutterTyped == ASSUME YInv, UNCHANGED vars PROVE YInv'
<1>1. SInv'
  BY NextSInv DEF YInv
<1>2. HeaderTyped' /\ KnownTyped'
  BY DEF YInv, HeaderTyped, KnownTyped, vars, disk, reserve, local, known
<1>3. FloorTyped'
  BY FloorTypedStays DEF YInv, vars, disk
<1>4. ScanTyped'
  <2>1. UNCHANGED <<mode, scan, flen>>
    BY DEF vars, session, disk
  <2>2. LayoutEnd' = LayoutEnd
    BY <2>1 DEF LayoutEnd, LastFile, OnDisk
  <2> QED
    BY <2>1, <2>2 DEF YInv, ScanTyped
<1> QED
  BY <1>1, <1>2, <1>3, <1>4 DEF YInv

(* Every step of the store keeps the types. *)
LEMMA NextYInv == YInv /\ [Next]_vars => YInv'
<1> SUFFICES ASSUME YInv, [Next]_vars PROVE YInv'
  OBVIOUS
<1> QED
  BY StutterTyped, WriterTyped, CloseTyped, CrashTyped, OpenTyped, ScanNextFileTyped,
     RecoverBlockTyped, CheckpointProgressTyped, FinishRecoveryTyped DEF Next, RecoveryStep

(* The inductive invariant gives the ranges of the type invariant. *)
LEMMA YInvTypeOK == YInv => TypeOK
<1> SUFFICES ASSUME YInv PROVE TypeOK
  OBVIOUS
<1>1. /\ SInv /\ DiskSound /\ flen \in [Files -> Int] /\ FilesFit /\ scan \in Scan
      /\ MaxOffset \in Nat
  BY BlockStoreAssumption DEF YInv, SInv, DiskSound, LocalTypes
<1>2. flen \in [Files -> Absent .. MaxOffset]
  <2>1. ASSUME NEW f \in Files PROVE flen[f] \in Absent .. MaxOffset
    <3>1. f * Cap \in Nat /\ flen[f] \in Int /\ Absent <= flen[f] /\ f * Cap + flen[f] <= MaxOffset
      BY <1>1, FilesFacts DEF FilesFit
    <3> DEFINE P == f * Cap
    <3>2. P \in Nat /\ P + flen[f] <= MaxOffset
      BY <3>1
    <3> HIDE DEF P
    <3> QED
      BY <1>1, <3>1, <3>2 DEF Absent
  <2> QED
    BY <1>1, <2>1
<1>3. R!RTypeOK
  BY <1>1 DEF SInv, RP!RInv, RP!RTypeOK, RP!Extent, R!RTypeOK, R!Extent
<1>4. Len(scan.window.buf) <= MaxOffset
  <2> DEFINE v == scan.window
  <2>1. v \in Window /\ v.buf \in Seq(Cell) /\ Len(v.buf) \in Nat /\ v.start \in Nat
    BY <1>1 DEF Scan, Window
  <2>2. CASE mode \notin Scans
    <3>1. v.buf = <<>>
      BY <2>2 DEF YInv, ScanTyped, NoScan, W!EmptyWindow
    <3> QED
      BY <1>1, <3>1
  <2>3. CASE mode \in Scans /\ v.buf = <<>>
    BY <1>1, <2>3
  <2>4. CASE mode \in Scans /\ v.buf # <<>>
    <3>1. v.file \in Files /\ v.start + Len(v.buf) <= flen[v.file]
      BY <1>1, <2>4 DEF SInv, ScanFits, Scans, WindowExact
    <3>2. flen[v.file] \in Int /\ flen[v.file] <= MaxOffset
      BY <1>2, <3>1 DEF Absent
    <3> QED
      BY <1>1, <2>1, <3>1, <3>2
  <2> QED
    BY <2>2, <2>3, <2>4
<1>5. scan.next \in 0 .. MaxOffset
  BY <1>1 DEF YInv, ScanTyped, Scan
<1>6. mode \in {"open", "down", "recovering", "progress", "refused"}
  BY DEF YInv, ScanTyped, Scans
<1> QED
  BY <1>1, <1>2, <1>3, <1>4, <1>5, <1>6
     DEF TypeOK, YInv, DiskSound, HeaderTyped, FloorTyped, ScanTyped, KnownTyped

(***************************************************************************)
(* The types of the files, of the writers and of the recovery scan hold    *)
(* in every state, with any crashes: no file and no offset ever passes the *)
(* last offset, the scan stays within the data, its window never grows     *)
(* past the largest block, and no height outside the store's range gets    *)
(* into the header, the floor or the highwater.                            *)
(***************************************************************************)
THEOREM StoreTyped == Spec => []TypeOK
<1>1. Spec => []YInv
  BY InitYInv, NextYInv, PTL DEF Spec
<1> QED
  BY <1>1, YInvTypeOK, PTL

-----------------------------------------------------------------------------
(* One writer and one data file, with any crashes and I/O errors. *)

(***************************************************************************)
(* What a crash costs with several writers, or with files of limited size, *)
(* is shown in the README, section 4; one writer into one file is without. *)
(***************************************************************************)
Solo ==
  /\ \A v, w \in Writers : v = w
  /\ Cap = 0
  /\ \A s \in Sizes : s <= MaxBlockSize

(***************************************************************************)
(* What lies past the persisted offset, while no I/O error occurred: less  *)
(* than CheckpointBytes, except between the landing of a block and the     *)
(* checkpoint that it triggers.                                            *)
(***************************************************************************)
GapInv ==
  /\ failures \in Nat
  /\ mode \in Scans => /\ header.next_write_offset = scan.progress
                       /\ last_checkpoint_offset = scan.progress
  /\ mode = "recovering" => scan.next - scan.progress < CheckpointBytes
  /\ mode = "open" /\ failures = 0 =>
       /\ AllIdle => /\ data_highwater - header.next_write_offset < CheckpointBytes
                     /\ last_checkpoint_offset = header.next_write_offset
       /\ \A w \in Writers : pc[w] # "idle" =>
            /\ data_highwater = job[w].saved
            /\ header.next_write_offset =
                 IF pc[w] = "store" THEN job[w].saved ELSE last_checkpoint_offset

(* A step of write_block that neither begins it, returns from it nor writes a checkpoint. *)
LEMMA WithinGap ==
  ASSUME Solo, SInv, GapInv, mode = "open", mode' = "open", NEW w \in Writers, pc[w] \notin {"idle", "store"},
         NEW p \in Stages \ {"idle", "store"}, Goto(w, p),
         UNCHANGED <<header, data_highwater, last_checkpoint_offset, job, failures>>
  PROVE  GapInv'
<1>1. pc'[w] = p /\ \A v \in Writers : v = w
  BY DEF Goto, SInv, LocalTypes, Solo
<1>2. ~AllIdle /\ ~AllIdle'
  BY <1>1 DEF AllIdle
<1> QED
  BY <1>1, <1>2 DEF GapInv, Scans

(* Every step of write_block keeps the bound. *)
LEMMA WriterGap ==
  ASSUME Solo, SInv, GapInv, NEW w \in Writers,
         (\E h \in Heights, b \in Block : BeginWrite(w, h, b)) \/ WriterStep(w) \/ WriterFault(w)
  PROVE  GapInv'
<1>1. mode = "open" /\ mode' = "open" /\ pc \in [Writers -> Stages]
      /\ job \in [Writers -> Job \union {NoJob}]
  BY WriterSession DEF SInv, LocalTypes
<1>2. \A v \in Writers : v = w
  BY DEF Solo
<1>3. failures \in Nat
  BY DEF GapInv
<1>4. ASSUME NEW h \in Heights, NEW b \in Block, BeginWrite(w, h, b) PROVE GapInv'
  <2>1. /\ pc[w] = "idle" /\ R!ReserveSpace(w, HeaderSize + b.size) /\ Goto(w, "resolve")
        /\ UNCHANGED <<header, last_checkpoint_offset, failures>>
        /\ job' = [v \in Writers |->
               IF v = w
               THEN [height |-> h, block |-> b, offset |-> rsv'[w].offset,
                     saved |-> rsv'[w].end, alone |-> InFlight(h) = {}]
               ELSE [job[v] EXCEPT !.alone = @ /\ v \notin InFlight(h)]]
    BY <1>4 DEF BeginWrite, BeginWriteOf, disk
  <2>2. data_highwater' = rsv'[w].end
    BY <2>1, BlockFacts, ReserveEffect DEF SInv
  <2>3. job'[w].saved = rsv'[w].end /\ pc'[w] = "resolve"
    BY <1>1, <2>1 DEF Goto
  <2>4. AllIdle /\ ~AllIdle'
    BY <1>2, <2>1, <2>3 DEF AllIdle
  <2> QED
    BY <1>1, <1>2, <2>1, <2>2, <2>3, <2>4 DEF GapInv, Scans
<1>5. CASE \/ ReleaseReservation(w) \/ PublishFails(w) \/ CheckpointFails(w)
  <2>1. failures' = failures + 1
    BY <1>5 DEF ReleaseReservation, PublishFails, CheckpointFails, ReturnErr
  <2> QED
    BY <1>1, <1>3, <2>1 DEF GapInv, Scans
<1>6. CASE NoCheckpointDue(w) \/ CheckpointStore(w)
  <2>1. /\ pc[w] \in {"decide", "store"} /\ Return(w)
        /\ UNCHANGED <<header, data_highwater, failures>>
    BY <1>6 DEF NoCheckpointDue, CheckpointStore, ReturnOk, disk, reserve
  <2>2. pc'[w] = "idle" /\ AllIdle'
    BY <1>1, <1>2, <2>1 DEF Return, Goto, AllIdle
  <2>3. job[w].saved \in Nat
    BY <2>1, WriterOpen, JobFacts
  <2>4. ASSUME failures = 0
        PROVE  /\ data_highwater - header.next_write_offset < CheckpointBytes
               /\ last_checkpoint_offset' = header.next_write_offset
    <3>1. data_highwater = job[w].saved
          /\ header.next_write_offset =
                 IF pc[w] = "store" THEN job[w].saved ELSE last_checkpoint_offset
      BY <1>1, <2>1, <2>4 DEF GapInv
    <3>2. CASE NoCheckpointDue(w)
      <4>1. /\ pc[w] = "decide" /\ last_checkpoint_offset' = last_checkpoint_offset
            /\ ~(job[w].saved - last_checkpoint_offset >= CheckpointBytes)
        BY <3>2 DEF NoCheckpointDue, ByteTrigger
      <4>2. last_checkpoint_offset \in Nat
        BY <3>1, <4>1 DEF SInv, DiskSound
      <4> QED
        BY <2>3, <3>1, <4>1, <4>2, BlockStoreAssumption
    <3>3. CASE CheckpointStore(w)
      <4>1. pc[w] = "store" /\ last_checkpoint_offset' = job[w].saved
        BY <3>3 DEF CheckpointStore
      <4> QED
        BY <2>3, <3>1, <4>1, BlockStoreAssumption
    <3> QED
      BY <1>6, <3>2, <3>3
  <2> QED
    BY <1>1, <1>2, <1>3, <2>1, <2>2, <2>4 DEF GapInv, Scans
<1>7. CASE CheckpointWrite(w)
  <2>1. /\ pc[w] = "write" /\ header'.next_write_offset = job[w].saved /\ Goto(w, "store")
        /\ UNCHANGED <<data_highwater, job, failures>>
    BY <1>7 DEF CheckpointWrite, reserve, known
  <2>2. pc'[w] = "store" /\ ~AllIdle'
    BY <1>1, <2>1 DEF Goto, AllIdle
  <2> QED
    BY <1>1, <1>2, <2>1, <2>2 DEF GapInv, Scans
<1>8. CASE AdvanceFloor(w)
  <2>1. pc[w] = "advance" /\ UNCHANGED <<header, data_highwater, last_checkpoint_offset, job, failures, pc>>
    BY <1>8 DEF AdvanceFloor, disk, reserve, known, local
  <2>2. Goto(w, "advance")
    BY <1>1, <2>1 DEF Goto
  <2> QED
    BY <1>1, <2>1, <2>2, WithinGap DEF Stages
<1>9. CASE \/ Resolve(w) \/ WritePayload(w) \/ WriteHeader(w) \/ Publish(w) \/ RaiseHighwater(w)
           \/ CheckpointDue(w) \/ CheckpointLoad(w)
           \/ ResolveFails(w) \/ PayloadFails(w) \/ HeaderFails(w)
  <2>1. pc[w] \notin {"idle", "store"}
    BY <1>9 DEF Resolve, WritePayload, WriteHeader, Publish, RaiseHighwater, CheckpointDue,
                CheckpointLoad, ResolveFails, PayloadFails, HeaderFails
  <2>2. UNCHANGED <<header, data_highwater, last_checkpoint_offset, job, failures>>
    BY <1>9 DEF Resolve, WritePayload, WriteHeader, Publish, RaiseHighwater, CheckpointDue,
                CheckpointLoad, ResolveFails, PayloadFails, HeaderFails, R!Land, disk, reserve,
                known
  <2>3. PICK p \in Stages \ {"idle", "store"} : Goto(w, p)
    BY <1>9 DEF Resolve, WritePayload, WriteHeader, Publish, RaiseHighwater, CheckpointDue,
                CheckpointLoad, ResolveFails, PayloadFails, HeaderFails, BreakOff, Stages
  <2> QED
    BY <1>1, <2>1, <2>2, <2>3, WithinGap
<1> QED
  BY <1>4, <1>5, <1>6, <1>7, <1>8, <1>9 DEF WriterStep, WriterFault

(* The steps that close and open the store, and those of the recovery. *)
LEMMA SessionGap ==
  ASSUME Solo, SInv, GapInv, Close \/ Crash \/ Open \/ RecoveryStep
  PROVE  GapInv'
<1>1. /\ header.next_write_offset \in Nat /\ scan \in Scan /\ CheckpointBytes \in Nat \ {0}
      /\ DOMAIN header = {"next_write_offset", "max_height", "highest_contiguous"}
  BY BlockStoreAssumption DEF SInv, DiskSound, LocalTypes
<1>2. CASE Close \/ Crash
  <2>1. mode' = "down" /\ failures' = failures
    BY <1>2 DEF Close, Crash, MemoryGone, known
  <2> QED
    BY <2>1 DEF GapInv, Scans
<1>3. CASE Open
  <2>1. failures' = failures /\ header' = header
    BY <1>3 DEF Open, known, disk
  <2>2. CASE mode' = "refused"
    BY <2>1, <2>2 DEF GapInv, Scans
  <2>3. CASE mode' # "refused"
    <3>1. /\ mode' = "recovering" /\ last_checkpoint_offset' = header.next_write_offset
          /\ scan'.next = header.next_write_offset /\ scan'.progress = header.next_write_offset
      BY <1>3, <2>3 DEF Open
    <3> QED
      BY <1>1, <2>1, <3>1 DEF GapInv
  <2> QED
    BY <2>2, <2>3
<1>4. ~ScanNextFile
  BY DEF ScanNextFile, Solo
<1>5. CASE RecoverBlock
  <2> DEFINE m == scan.next + HeaderSize + HeaderRead.block.size
  <2>1. /\ mode = "recovering" /\ UNCHANGED <<header, last_checkpoint_offset, failures>>
        /\ scan' = [scan EXCEPT !.next = m, !.window = AfterPayload(HeaderRead.block.size)]
        /\ mode' = IF m - scan.progress >= CheckpointBytes THEN "progress" ELSE "recovering"
    BY <1>5 DEF RecoverBlock, Scanning, known
  <2>2. PICK n \in Nat :
          /\ scan'.next = n /\ scan'.progress = scan.progress
          /\ mode' = IF n - scan.progress >= CheckpointBytes THEN "progress" ELSE "recovering"
    <3>1. PICK b \in Block : HeaderRead.block = b /\ scan.next \in Offsets
      BY <1>5, ScanAccepts DEF RecoverBlock
    <3>2. scan.next + HeaderSize + b.size \in Nat
      BY <3>1, BlockFacts, OffsetFacts
    <3> QED
      BY <1>1, <2>1, <3>1, <3>2 DEF Scan
  <2>3. scan.progress \in Nat
    BY <1>1 DEF Scan
  <2> QED
    BY <1>1, <2>1, <2>2, <2>3 DEF GapInv, Scans
<1>6. CASE CheckpointProgress
  <2>1. /\ mode' = "recovering" /\ header'.next_write_offset = scan.next
        /\ last_checkpoint_offset' = scan.next /\ failures' = failures
        /\ scan'.next = scan.next /\ scan'.progress = scan.next
    BY <1>1, <1>6 DEF CheckpointProgress, known, Scan
  <2>2. scan.next \in Nat
    BY <1>1 DEF Scan
  <2> QED
    BY <1>1, <2>1, <2>2 DEF GapInv
<1>7. CASE FinishRecovery
  <2>1. /\ mode = "recovering" /\ mode' = "open" /\ data_highwater' = scan.next
        /\ UNCHANGED <<header, last_checkpoint_offset, failures, pc>>
    BY <1>7 DEF FinishRecovery, FinishAs, disk, local
  <2>2. AllIdle'
    BY <2>1 DEF SInv, Closed, AllIdle
  <2> QED
    BY <2>1, <2>2 DEF GapInv, Scans, AllIdle
<1> QED
  BY <1>2, <1>3, <1>4, <1>5, <1>6, <1>7 DEF RecoveryStep

(* Every step of a store with one writer keeps the bound. *)
LEMMA NextGap == ASSUME Solo, SInv, GapInv, [Next]_vars PROVE GapInv'
<1>1. CASE UNCHANGED vars
  BY <1>1 DEF GapInv, AllIdle, vars, disk, reserve, local, session, known
<1> QED
  BY <1>1, WriterGap, SessionGap DEF Next

(***************************************************************************)
(* One writer, one file, any number of crashes, also in the middle of a    *)
(* checkpoint or of a recovery: between writes less than CheckpointBytes   *)
(* of data lie past the persisted offset as long as no I/O error occurred, *)
(* so the next recovery walks no more than that.                           *)
(***************************************************************************)
THEOREM StoreGapBounded == Solo => (Spec => []GapBounded)
<1> SUFFICES ASSUME Solo PROVE Spec => []GapBounded
  OBVIOUS
<1>1. Init => SInv /\ GapInv
  <2> SUFFICES ASSUME Init PROVE SInv /\ GapInv
    OBVIOUS
  <2>1. SInv /\ AllIdle /\ CheckpointBytes \in Nat \ {0}
    BY InitSInv, BlockStoreAssumption DEF Init, AllIdle
  <2> QED
    BY <2>1 DEF Init, GapInv, AllIdle, Scans
<1>2. SInv /\ GapInv /\ [Next]_vars => SInv' /\ GapInv'
  BY NextGap, NextSInv
<1>3. GapInv => GapBounded
  BY DEF GapInv, GapBounded
<1> QED
  BY <1>1, <1>2, <1>3, PTL DEF Spec

-----------------------------------------------------------------------------
(* The data file of a single writer is a log. *)

(* A record of the log: S are the places where one begins, and E its end. *)
Rec(S, E, s, h, b) == s \in S /\ s < E /\ Written(s, h, b)

(***************************************************************************)
(* The records follow one another without a gap, nothing that looks like a *)
(* header lies past their end, and the file holds them all.                *)
(***************************************************************************)
Log(S, E) ==
  /\ E \in S /\ \A s \in S : s <= E
  /\ \A s \in S : s < E =>
       \E h \in Heights, b \in Block :
         /\ Written(s, h, b) /\ s + HeaderSize + b.size \in S
         /\ \A t \in S : t <= s \/ s + HeaderSize + b.size <= t
  /\ \A o \in Offsets : data[o].kind = "header" => o <= E
  /\ E <= LayoutEnd

(* The writer works at the end of the log, and its block becomes the last record. *)
AtWork(S, E, w) ==
  /\ pc[w] \in Holding => rsv[w].prev = E /\ job[w].offset = E /\ data_highwater = rsv[w].end
  /\ pc[w] = "header" => /\ Intact(E, job[w].height, job[w].block)
                         /\ Covered(E, HeaderSize + job[w].block.size)
  /\ pc[w] \in Landed => /\ job[w].saved = E
                         /\ Rec(S, E, job[w].offset, job[w].height, job[w].block)
                         /\ \A o \in Offsets : data[o].kind = "header" => o < E

Quiet == mode = "open" /\ \A w \in Writers : pc[w] \notin Holding

(* The persisted offset and the scan are at the beginning of a record. *)
Marks(S, E) ==
  /\ header.next_write_offset \in S
  /\ Quiet => data_highwater = E
  /\ mode \in Scans => scan.next \in S /\ header.next_write_offset <= scan.next

(***************************************************************************)
(* A whole block at the end of the log, which a recovery would take for a  *)
(* record, is one whose write did not succeed.                             *)
(***************************************************************************)
Remnant(E) ==
  \A h \in Heights, b \in Block : Written(E, h, b) =>
    \/ b \in loose[h]
    \/ \E w \in Writers :
         pc[w] \in {"header", "release"} /\ job[w].height = h /\ job[w].block = b

(* The entry of h leads to x. *)
Indexed(S, E, h, x) ==
  \/ x = Nothing /\ index[h] = NoEntry
  \/ /\ x \in Block /\ index[h] \in Entry /\ index[h].size = x.size
     /\ Rec(S, E, index[h].offset, h, x)

Latest(S, E, s, h, b) ==
  Rec(S, E, s, h, b) /\ \A t \in S, c \in Block : Rec(S, E, t, h, c) => t <= s

(* A scan that a recovery has begun, or will begin, is here. *)
ScanFrom == IF mode \in Scans THEN scan.next ELSE header.next_write_offset

(* The caller may find b at h after a crash. *)
Allowed(h, b) ==
  \/ b = last[h] \/ b \in loose[h]
  \/ \E w \in Writers : pc[w] = "publish" /\ job[w].height = h /\ job[w].block = b

(***************************************************************************)
(* The entry of h is right, or a record that the scan has yet to reach     *)
(* will put it right: the last record past the persisted offset holds what *)
(* the caller may find, and no entry is older than what the scan has       *)
(* passed.                                                                 *)
(***************************************************************************)
Restored(S, E, h) ==
  /\ \A s \in S, b \in Block :
       Latest(S, E, s, h, b) /\ header.next_write_offset <= s => Allowed(h, b)
  /\ mode = "open" => Indexed(S, E, h, last[h])
  /\ mode # "open" =>
       \/ \E t \in S, c \in Block : Rec(S, E, t, h, c) /\ ScanFrom <= t
       \/ \E x \in {last[h]} \union loose[h] : Indexed(S, E, h, x)
  /\ mode \in Scans =>
       \A s \in S, b \in Block :
         Rec(S, E, s, h, b) /\ header.next_write_offset <= s /\ s < scan.next =>
           index[h] # NoEntry /\ s <= index[h].offset

LogAt(S, E) ==
  /\ Log(S, E) /\ Marks(S, E) /\ Remnant(E)
  /\ \A w \in Writers : AtWork(S, E, w)
  /\ \A h \in Heights : Restored(S, E, h)

LInv == YInv /\ mode # "refused" /\ \E S \in SUBSET Nat : \E E \in Nat : LogAt(S, E)

(* With one file an offset is the place in it. *)
LEMMA OneFile ==
  ASSUME Solo, DiskSound
  PROVE  /\ \A o \in Nat : FileOf(o) = 0 /\ LocalOffset(o) = o
         /\ 0 \in Files /\ \A f \in Files : f = 0
         /\ flen[0] \in Int /\ -1 <= flen[0] /\ flen[0] <= MaxOffset
         /\ LayoutEnd = (IF flen[0] < 0 THEN 0 ELSE flen[0]) /\ LayoutValid
<1>1. Cap = 0 /\ \A o \in Nat : FileOf(o) = 0 /\ LocalOffset(o) = o
  BY DEF Solo, FileOf, LocalOffset, R!SplitOffset
<1>2. 0 \in Files /\ \A f \in Files : f = 0
  <2>1. 0 \in Offsets
    BY BlockStoreAssumption DEF Offsets
  <2> QED
    BY <1>1, <2>1, FilesFacts
<1>3. flen[0] \in Int /\ -1 <= flen[0] /\ flen[0] <= MaxOffset
  <2>1. flen[0] \in Int /\ Absent <= flen[0] /\ 0 * Cap + flen[0] <= MaxOffset
    BY <1>2 DEF DiskSound, FilesFit
  <2> QED
    BY <1>1, <2>1 DEF Absent
<1>4. LayoutValid
  BY <1>2 DEF LayoutValid, OnDisk
<1>5. CASE flen[0] = Absent
  <2>1. OnDisk = {}
    BY <1>2, <1>5 DEF OnDisk
  <2> QED
    BY <1>1, <1>2, <1>3, <1>4, <1>5, <2>1 DEF LayoutEnd, Absent
<1>6. CASE flen[0] # Absent
  <2>1. OnDisk = {0}
    BY <1>2, <1>6 DEF OnDisk
  <2>2. LastFile = 0
    BY <2>1 DEF LastFile
  <2>3. LayoutEnd = flen[0]
    BY <1>1, <1>3, <2>1, <2>2 DEF LayoutEnd
  <2> QED
    BY <1>1, <1>2, <1>3, <1>4, <1>6, <2>3 DEF Absent
<1> QED
  BY <1>5, <1>6

(* The same of the next state. *)
LEMMA OneFileNext ==
  (Solo /\ DiskSound =>
     /\ flen[0] \in Int /\ -1 <= flen[0] /\ flen[0] <= MaxOffset
     /\ LayoutEnd = (IF flen[0] < 0 THEN 0 ELSE flen[0]))'
<1>1. Solo /\ DiskSound =>
        /\ flen[0] \in Int /\ -1 <= flen[0] /\ flen[0] <= MaxOffset
        /\ LayoutEnd = (IF flen[0] < 0 THEN 0 ELSE flen[0])
  BY OneFile
<1> QED
  BY <1>1, PTL

(* A header cell tells the block. *)
LEMMA HeaderTells ==
  ASSUME NEW h, NEW b, NEW g, NEW c, HeaderCell(h, b) = HeaderCell(g, c)
  PROVE  h = g /\ b = c
BY DEF HeaderCell

(* So does each payload cell. *)
LEMMA PayloadTells ==
  ASSUME NEW h, NEW b, NEW i, NEW g, NEW c, NEW j, PayloadCell(h, b, i) = PayloadCell(g, c, j)
  PROVE  h = g /\ b = c
BY DEF PayloadCell

(* The blocks of a log end within it. *)
LEMMA RecEnds ==
  ASSUME NEW S \in SUBSET Nat, NEW E \in Nat, Log(S, E),
         NEW s, NEW h, NEW b, Rec(S, E, s, h, b)
  PROVE  /\ s \in Nat /\ s \in Offsets /\ h \in Heights /\ b \in Block /\ b.size \in Nat /\ b.size > 0
         /\ s + HeaderSize + b.size \in S /\ s + HeaderSize + b.size <= E
         /\ \A t \in S : t <= s \/ s + HeaderSize + b.size <= t
<1>1. s \in S /\ s < E /\ Written(s, h, b)
  BY DEF Rec
<1>2. PICK g \in Heights, c \in Block :
         /\ Written(s, g, c) /\ s + HeaderSize + c.size \in S
         /\ \A t \in S : t <= s \/ s + HeaderSize + c.size <= t
  BY <1>1 DEF Log
<1>3. h = g /\ b = c
  BY <1>1, <1>2, HeaderTells DEF Written
<1>4. s + HeaderSize + b.size <= E
  BY <1>2, <1>3 DEF Log
<1> QED
  BY <1>1, <1>2, <1>3, <1>4, BlockFacts DEF Written

(* What is written past the end of a log changes none of its records. *)
LEMMA RecStays ==
  ASSUME SInv, DiskSound', FilesGrow, NEW S \in SUBSET Nat, NEW E \in Nat, Log(S, E),
         \A c \in Offsets : c < E => data'[c] = data[c]
  PROVE  \A s, h, b : Rec(S, E, s, h, b)' <=> Rec(S, E, s, h, b)
<1>1. ASSUME NEW s, NEW h, NEW b, Rec(S, E, s, h, b) PROVE Rec(S, E, s, h, b)'
  <2>1. /\ s \in Nat /\ s \in Offsets /\ h \in Heights /\ b \in Block /\ b.size \in Nat /\ b.size > 0
        /\ s + HeaderSize + b.size <= E
    BY <1>1, RecEnds
  <2>2. /\ s \in S /\ s < E /\ s + HeaderSize + b.size <= MaxOffset
        /\ data[s] = HeaderCell(h, b) /\ HeaderAt(s, h, b) /\ Intact(s, h, b)
        /\ Covered(s, HeaderSize + b.size)
    BY <1>1 DEF Rec, Written
  <2>3. Covered(s, HeaderSize + b.size)'
    <3>1. HeaderSize + b.size \in Nat
      BY <2>1
    <3> QED
      BY <2>1, <2>2, <3>1, CoveredStays DEF SInv
  <2>4. \A c \in Offsets : s <= c /\ c < s + HeaderSize + b.size => data'[c] = data[c]
    BY <2>1, OffsetFacts
  <2>5. HeaderAt(s, h, b)' /\ Intact(s, h, b)'
    BY <2>1, <2>2, <2>4, BytesTell
  <2> QED
    BY <2>1, <2>2, <2>3, <2>5 DEF Rec, Written
<1>2. ASSUME NEW s, NEW h, NEW b, Rec(S, E, s, h, b)' PROVE Rec(S, E, s, h, b)
  <2>1. s \in S /\ s < E /\ s \in Offsets /\ data'[s] = HeaderCell(h, b)
    BY <1>2 DEF Rec, Written
  <2>2. PICK g \in Heights, c \in Block : Written(s, g, c)
    BY <2>1 DEF Log
  <2>3. HeaderCell(g, c) = HeaderCell(h, b)
    BY <2>1, <2>2 DEF Written
  <2> QED
    BY <2>1, <2>2, <2>3, HeaderTells DEF Rec
<1> QED
  BY <1>1, <1>2

(* The log stays when its records do and no header is written past it. *)
LEMMA LogStays ==
  ASSUME Solo, DiskSound, DiskSound', FilesGrow,
         NEW S \in SUBSET Nat, NEW E \in Nat, Log(S, E),
         \A s, h, b : Rec(S, E, s, h, b)' <=> Rec(S, E, s, h, b),
         \A o \in Offsets : data'[o].kind = "header" => o <= E
  PROVE  Log(S, E)'
<1>1. E <= LayoutEnd'
  <2>1. flen[0] <= flen'[0]
    BY OneFile DEF FilesGrow
  <2>2. E <= LayoutEnd
    BY DEF Log
  <2> QED
    BY <2>1, <2>2, OneFile, OneFileNext
<1>2. ASSUME NEW s \in S, s < E
      PROVE  \E h \in Heights, b \in Block :
               /\ Written(s, h, b)' /\ s + HeaderSize + b.size \in S
               /\ \A t \in S : t <= s \/ s + HeaderSize + b.size <= t
  <2>1. PICK h \in Heights, b \in Block :
               /\ Written(s, h, b) /\ s + HeaderSize + b.size \in S
               /\ \A t \in S : t <= s \/ s + HeaderSize + b.size <= t
    BY <1>2 DEF Log
  <2>2. Written(s, h, b)'
    BY <1>2, <2>1 DEF Rec
  <2> QED
    BY <2>1, <2>2
<1> QED
  BY <1>1, <1>2 DEF Log

(* What the caller may find stays, when its write goes on or becomes loose. *)
LEMMA RestoredStays ==
  ASSUME NEW S \in SUBSET Nat, NEW E \in Nat, Log(S, E), NEW h \in Heights, Restored(S, E, h),
         \A s, g, b : Rec(S, E, s, g, b)' <=> Rec(S, E, s, g, b),
         mode = "open", mode' = "open", index' = index, last' = last,
         header' = header \/ E <= header'.next_write_offset, header'.next_write_offset \in Nat,
         \A b \in Block : Allowed(h, b) => Allowed(h, b)'
  PROVE  Restored(S, E, h)'
<1>1. ASSUME NEW s \in S, NEW b \in Block, Latest(S, E, s, h, b)', header'.next_write_offset <= s
      PROVE  Allowed(h, b)'
  <2>1. Latest(S, E, s, h, b)
    BY <1>1 DEF Latest
  <2>2. s < E
    BY <2>1 DEF Latest, Rec
  <2>3. header' = header
    BY <1>1, <2>2
  <2> QED
    BY <1>1, <2>1, <2>3 DEF Restored
<1>2. Indexed(S, E, h, last[h])'
  <2>1. PICK x : x = last[h] /\ x = last'[h]
    OBVIOUS
  <2>2. PICK o : o = index[h].offset /\ o = index'[h].offset
    OBVIOUS
  <2>3. Indexed(S, E, h, x)
    BY <2>1 DEF Restored
  <2>4. Rec(S, E, o, h, x)' <=> Rec(S, E, o, h, x)
    OBVIOUS
  <2> QED
    BY <2>1, <2>2, <2>3, <2>4 DEF Indexed, Rec, Written, HeaderAt, Intact, Covered
<1> QED
  BY <1>1, <1>2 DEF Restored, Scans
-----------------------------------------------------------------------------
(* The steps of the writer. *)

(* A step that leaves the records and the end of the log alone. *)
LEMMA WriterLog ==
  ASSUME Solo, SInv, SInv', mode = "open", mode' = "open",
         NEW S \in SUBSET Nat, NEW E \in Nat, LogAt(S, E), NEW w \in Writers,
         \A c \in Offsets : c < E => data'[c] = data[c], FilesGrow,
         \A o \in Offsets : data'[o].kind = "header" => o <= E,
         UNCHANGED <<index, last>>,
         header' = header \/ header'.next_write_offset = E,
         \A h \in Heights, b \in Block : Allowed(h, b) => Allowed(h, b)',
         Quiet' => data_highwater' = E, Remnant(E)', AtWork(S, E, w)'
  PROVE  LogAt(S, E)'
<1>1. Log(S, E) /\ DiskSound /\ DiskSound' /\ E \in S
  BY DEF LogAt, Log, SInv
<1>2. \A s, h, b : Rec(S, E, s, h, b)' <=> Rec(S, E, s, h, b)
  BY <1>1, RecStays
<1>3. Log(S, E)'
  BY <1>1, <1>2, LogStays
<1>4. Marks(S, E)'
  BY <1>1 DEF LogAt, Marks, Scans
<1>5. \A v \in Writers : AtWork(S, E, v)'
  BY DEF Solo
<1>6. \A h \in Heights : Restored(S, E, h)'
  <2>1. header' = header \/ E <= header'.next_write_offset
    OBVIOUS
  <2>2. header'.next_write_offset \in Nat
    BY <1>1 DEF DiskSound
  <2> QED
    BY <1>1, <1>2, <2>1, <2>2, RestoredStays DEF LogAt
<1> QED
  BY <1>3, <1>4, <1>5, <1>6 DEF LogAt

(* What is allowed stays so while the write goes on or becomes loose. *)
LEMMA AllowedStays ==
  ASSUME Solo, NEW w \in Writers, last' = last, \A h \in Heights : loose[h] \subseteq loose'[h],
         pc[w] = "publish" =>
           \/ pc'[w] = "publish" /\ job'[w] = job[w]
           \/ job[w].block \in loose'[job[w].height]
  PROVE  \A h \in Heights, b \in Block : Allowed(h, b) => Allowed(h, b)'
<1> SUFFICES ASSUME NEW h \in Heights, NEW b \in Block, Allowed(h, b) PROVE Allowed(h, b)'
  OBVIOUS
<1>1. CASE b = last[h] \/ b \in loose[h]
  BY <1>1 DEF Allowed
<1>2. CASE \E v \in Writers : pc[v] = "publish" /\ job[v].height = h /\ job[v].block = b
  <2>1. pc[w] = "publish" /\ job[w].height = h /\ job[w].block = b
    BY <1>2 DEF Solo
  <2> QED
    BY <2>1 DEF Allowed
<1> QED
  BY <1>1, <1>2 DEF Allowed

(* The steps after the block has landed, but for the index entry. *)
LEMMA LandedLog ==
  ASSUME Solo, SInv, SInv', mode = "open", mode' = "open",
         NEW S \in SUBSET Nat, NEW E \in Nat, LogAt(S, E), NEW w \in Writers, pc[w] \in Landed,
         UNCHANGED <<index, data, flen, data_highwater, last>>,
         header' = header \/ header'.next_write_offset = job[w].saved,
         pc'[w] = "idle" \/ (pc'[w] \in Landed /\ job' = job),
         \A h \in Heights : loose[h] \subseteq loose'[h],
         pc[w] = "publish" => job[w].block \in loose'[job[w].height]
  PROVE  LogAt(S, E)'
<1>1. /\ job[w].saved = E /\ Rec(S, E, job[w].offset, job[w].height, job[w].block)
      /\ \A o \in Offsets : data[o].kind = "header" => o < E
      /\ Log(S, E) /\ DiskSound /\ DiskSound'
  BY DEF LogAt, AtWork, SInv
<1>2. FilesGrow
  BY SameFiles
<1>3. \A c \in Offsets : c < E => data'[c] = data[c]
  OBVIOUS
<1>4. \A s, h, b : Rec(S, E, s, h, b)' <=> Rec(S, E, s, h, b)
  BY <1>1, <1>2, <1>3, RecStays
<1>5. Remnant(E)'
  <2> SUFFICES ASSUME NEW h \in Heights, NEW b \in Block, Written(E, h, b)' PROVE FALSE
    BY DEF Remnant
  <2>1. E \in Offsets /\ data[E].kind = "header"
    BY CellsDiffer DEF Written
  <2> QED
    BY <1>1, <2>1
<1>6. AtWork(S, E, w)'
  <2>1. CASE pc'[w] = "idle"
    BY <2>1 DEF AtWork, Holding, Landed
  <2>2. CASE pc'[w] \in Landed /\ job' = job
    <3>1. PICK o, h, b : o = job[w].offset /\ h = job[w].height /\ b = job[w].block
                         /\ o = job'[w].offset /\ h = job'[w].height /\ b = job'[w].block
      BY <2>2
    <3>2. Rec(S, E, o, h, b)'
      BY <1>1, <1>4, <3>1
    <3>3. Rec(S, E, job[w].offset, job[w].height, job[w].block)'
      BY <3>1, <3>2
    <3> QED
      BY <1>1, <2>2, <3>3 DEF AtWork, Holding, Landed
  <2> QED
    BY <2>1, <2>2
<1>7. \A h \in Heights, b \in Block : Allowed(h, b) => Allowed(h, b)'
  BY AllowedStays
<1>8. data_highwater' = E
  <2>1. Quiet
    BY DEF Quiet, Solo, Holding, Landed
  <2> QED
    BY <2>1 DEF LogAt, Marks
<1>9. \A o \in Offsets : data'[o].kind = "header" => o <= E
  BY <1>1 DEF Log
<1>10. header' = header \/ header'.next_write_offset = E
  BY <1>1
<1> QED
  BY <1>2, <1>3, <1>5, <1>6, <1>7, <1>8, <1>9, <1>10, WriterLog

(* The floor, the highwater and the checkpoint, and every way out of write_block after the block
   has landed, leave the log alone. *)
LEMMA FinishLog ==
  ASSUME Solo, SInv, SInv', NEW S \in SUBSET Nat, NEW E \in Nat, LogAt(S, E), NEW w \in Writers,
         KnownTyped,
         \/ AdvanceFloor(w) \/ RaiseHighwater(w) \/ NoCheckpointDue(w) \/ CheckpointDue(w)
         \/ CheckpointLoad(w) \/ CheckpointWrite(w) \/ CheckpointStore(w)
         \/ PublishFails(w) \/ CheckpointFails(w)
  PROVE  LogAt(S, E)'
<1>1. mode = "open" /\ mode' = "open" /\ pc \in [Writers -> Stages]
      /\ loose \in [Heights -> SUBSET Block]
  BY WriterSession DEF SInv, LocalTypes, WriterStep, WriterFault, KnownTyped
<1>2. pc[w] \in Landed /\ UNCHANGED <<index, data, flen, data_highwater, last>>
  BY DEF AdvanceFloor, RaiseHighwater, NoCheckpointDue, CheckpointDue, CheckpointLoad,
         CheckpointWrite, CheckpointStore, PublishFails, CheckpointFails, ReturnOk, ReturnErr,
         C!CompareExchange, C!CascadeRead, C!CascadeExchange, C!UpdateHighwater, disk, reserve,
         known, Landed
<1>3. header' = header \/ header'.next_write_offset = job[w].saved
  BY DEF AdvanceFloor, RaiseHighwater, NoCheckpointDue, CheckpointDue, CheckpointLoad,
         CheckpointWrite, CheckpointStore, PublishFails, CheckpointFails, disk
<1>4. pc'[w] = "idle" \/ (pc'[w] \in Landed /\ job' = job)
  <2>1. CASE AdvanceFloor(w)
    BY <1>2, <2>1 DEF AdvanceFloor, local
  <2>2. CASE RaiseHighwater(w) \/ CheckpointDue(w) \/ CheckpointLoad(w) \/ CheckpointWrite(w)
    <3>1. PICK p \in Landed : Goto(w, p) /\ job' = job
      BY <2>2 DEF RaiseHighwater, CheckpointDue, CheckpointLoad, CheckpointWrite, Landed
    <3> QED
      BY <1>1, <3>1 DEF Goto
  <2>3. CASE \/ PublishFails(w) \/ CheckpointFails(w) \/ NoCheckpointDue(w) \/ CheckpointStore(w)
    <3>1. Goto(w, "idle")
      BY <2>3 DEF PublishFails, CheckpointFails, NoCheckpointDue, CheckpointStore, ReturnOk,
                  ReturnErr, Return
    <3> QED
      BY <1>1, <3>1 DEF Goto
  <2> QED
    BY <2>1, <2>2, <2>3
<1>5. /\ \A h \in Heights : loose[h] \subseteq loose'[h]
      /\ pc[w] = "publish" => job[w].block \in loose'[job[w].height]
  <2>1. CASE PublishFails(w)
    <3>1. loose' = [loose EXCEPT ![job[w].height] = @ \union {job[w].block}]
          /\ job[w].height \in Heights
      BY <1>2, <2>1, JobSpan DEF PublishFails, MayReappear, Landed
    <3> QED
      BY <1>1, <3>1
  <2>2. CASE ~PublishFails(w)
    <3>1. loose' = loose /\ pc[w] # "publish"
      BY <2>2 DEF AdvanceFloor, RaiseHighwater, NoCheckpointDue, CheckpointDue, CheckpointLoad,
             CheckpointWrite, CheckpointStore, CheckpointFails, ReturnOk, known
    <3> QED
      BY <3>1
  <2> QED
    BY <2>1, <2>2
<1> QED
  BY <1>1, <1>2, <1>3, <1>4, <1>5, LandedLog
(* Entering write_block: the space is reserved where the log ends. *)
LEMMA BeginLog ==
  ASSUME Solo, SInv, SInv', NEW S \in SUBSET Nat, NEW E \in Nat, LogAt(S, E), NEW w \in Writers,
         NEW h \in Heights, NEW b \in Block, BeginWrite(w, h, b)
  PROVE  LogAt(S, E)'
<1>1. /\ mode = "open" /\ mode' = "open" /\ pc[w] = "idle" /\ pc \in [Writers -> Stages]
      /\ R!ReserveSpace(w, HeaderSize + b.size) /\ Goto(w, "resolve")
      /\ UNCHANGED <<disk, last, loose>>
      /\ job' = [v \in Writers |->
               IF v = w
               THEN [height |-> h, block |-> b, offset |-> rsv'[w].offset,
                     saved |-> rsv'[w].end, alone |-> InFlight(h) = {}]
               ELSE [job[v] EXCEPT !.alone = @ /\ v \notin InFlight(h)]]
  BY DEF BeginWrite, BeginWriteOf, session, SInv, LocalTypes
<1>2. data_highwater = E
  <2>1. Quiet
    BY <1>1 DEF Quiet, Solo, Holding
  <2> QED
    BY <2>1 DEF LogAt, Marks
<1>3. rsv'[w].prev = E /\ rsv'[w].offset = E /\ data_highwater' = rsv'[w].end
  <2>1. rsv'[w].prev = data_highwater /\ data_highwater' = rsv'[w].end
    BY <1>1, BlockFacts, ReserveEffect DEF SInv
  <2>2. R!WriteOffset(data_highwater, HeaderSize + b.size) = data_highwater
    BY DEF Solo, R!WriteOffset, R!FitsInFile
  <2>3. rsv \in [Writers -> RP!Extent]
    BY DEF SInv, RP!RInv, RP!RTypeOK
  <2>4. rsv'[w].offset = data_highwater
    BY <1>1, <2>2, <2>3 DEF R!ReserveSpace
  <2> QED
    BY <1>2, <2>1, <2>4
<1>4. pc'[w] = "resolve" /\ job'[w].offset = E
  BY <1>1, <1>3 DEF Goto
<1>5. AtWork(S, E, w)'
  BY <1>3, <1>4 DEF AtWork, Holding, Landed
<1>6. Remnant(E)'
  <2> SUFFICES ASSUME NEW g \in Heights, NEW c \in Block, Written(E, g, c)' PROVE c \in loose'[g]
    BY DEF Remnant
  <2>1. Written(E, g, c)
    BY <1>1 DEF Written, HeaderAt, Intact, Covered, disk
  <2>2. \A v \in Writers : pc[v] = "idle"
    BY <1>1 DEF Solo
  <2> QED
    BY <1>1, <2>1, <2>2 DEF LogAt, Remnant
<1>7. ~Quiet'
  BY <1>4 DEF Quiet, Holding
<1>8. UNCHANGED <<index, header, data, flen>>
  BY <1>1 DEF disk
<1>9. \A g \in Heights, c \in Block : Allowed(g, c) => Allowed(g, c)'
  BY <1>1, AllowedStays
<1>10. /\ \A c \in Offsets : c < E => data'[c] = data[c]
       /\ \A o \in Offsets : data'[o].kind = "header" => o <= E
       /\ FilesGrow
  BY <1>8, SameFiles DEF LogAt, Log
<1> QED
  BY <1>1, <1>5, <1>6, <1>7, <1>8, <1>9, <1>10, WriterLog

(* A step of the writer in its extent, past the end of the log. *)
LEMMA HoldingLog ==
  ASSUME Solo, SInv, SInv', NEW S \in SUBSET Nat, NEW E \in Nat, LogAt(S, E), NEW w \in Writers,
         pc[w] \in Holding, NEW p \in Holding, Goto(w, p),
         UNCHANGED <<index, header, reserve, mode, job, last, loose>>,
         \A c \in Offsets : c < E => data'[c] = data[c], FilesGrow,
         \A o \in Offsets : data'[o].kind = "header" => o <= E,
         p = "header" => /\ Intact(E, job[w].height, job[w].block)'
                         /\ Covered(E, HeaderSize + job[w].block.size)',
         Remnant(E)'
  PROVE  LogAt(S, E)'
<1>1. mode = "open" /\ mode' = "open" /\ pc'[w] = p
  <2>1. pc[w] # "idle" /\ pc \in [Writers -> Stages]
    BY DEF Holding, SInv, LocalTypes
  <2> QED
    BY <2>1, WriterOpen DEF Goto
<1>2. AtWork(S, E, w)'
  <2>1. rsv'[w].prev = E /\ job'[w].offset = E /\ data_highwater' = rsv'[w].end
    BY DEF LogAt, AtWork, reserve
  <2>2. p \notin Landed
    BY DEF Holding, Landed
  <2> QED
    BY <1>1, <2>1, <2>2 DEF AtWork
<1>3. ~Quiet'
  BY <1>1 DEF Quiet
<1>4. \A g \in Heights, c \in Block : Allowed(g, c) => Allowed(g, c)'
  <2>1. pc[w] # "publish"
    BY DEF Holding
  <2> QED
    BY <2>1, AllowedStays
<1> QED
  BY <1>1, <1>2, <1>3, <1>4, WriterLog

(* Opening or creating the file. *)
LEMMA ResolveLog ==
  ASSUME Solo, SInv, SInv', NEW S \in SUBSET Nat, NEW E \in Nat, LogAt(S, E), NEW w \in Writers,
         Resolve(w) \/ ResolveFails(w)
  PROVE  LogAt(S, E)'
<1>1. /\ pc[w] = "resolve"
      /\ UNCHANGED <<index, header, data, reserve, mode, job, last, loose>>
      /\ flen' = [flen EXCEPT ![FileOf(job[w].offset)] = Larger(@, 0)] \/ flen' = flen
  BY DEF Resolve, ResolveFails, BreakOff, session, known
<1>2. PICK p \in {"payload", "release"} : Goto(w, p)
  BY DEF Resolve, ResolveFails, BreakOff
<1>3. job[w].offset \in Offsets /\ E = job[w].offset /\ E \in Nat
  BY <1>1, JobSpan DEF LogAt, AtWork, Holding
<1>4. FilesGrow
  BY <1>1, <1>3, GrownGrows
<1>5. flen'[0] = flen[0] \/ flen'[0] = 0
  <2>1. FileOf(job[w].offset) = 0 /\ flen \in [Files -> Int] /\ 0 \in Files
    BY <1>3, OneFile DEF SInv, DiskSound
  <2> QED
    BY <1>1, <2>1 DEF Larger
<1>6. Remnant(E)'
  <2> SUFFICES ASSUME NEW g \in Heights, NEW c \in Block, Written(E, g, c)' PROVE c \in loose'[g]
    BY DEF Remnant
  <2>1. c.size \in Nat
    BY BlockFacts
  <2>2. Covered(E, HeaderSize + c.size)' /\ FileOf(E) = 0 /\ LocalOffset(E) = E
    BY OneFile DEF Written, SInv
  <2>3. E + (HeaderSize + c.size) <= flen'[0]
    BY <2>2 DEF Covered
  <2>4. flen'[0] = flen[0]
    BY <1>5, <2>1, <2>3
  <2>5. Covered(E, HeaderSize + c.size)
    BY <2>2, <2>3, <2>4 DEF Covered
  <2>6. Written(E, g, c)
    BY <1>1, <2>5 DEF Written, HeaderAt, Intact
  <2>7. \A v \in Writers : pc[v] = "resolve"
    BY <1>1 DEF Solo
  <2> QED
    BY <1>1, <2>6, <2>7 DEF LogAt, Remnant
<1>7. \A o \in Offsets : data'[o].kind = "header" => o <= E
  BY <1>1 DEF LogAt, Log
<1> QED
  BY <1>1, <1>2, <1>4, <1>6, <1>7, HoldingLog DEF Holding

(* Writing the payload, or a part of it. *)
LEMMA PayloadLog ==
  ASSUME Solo, SInv, SInv', NEW S \in SUBSET Nat, NEW E \in Nat, LogAt(S, E), NEW w \in Writers,
         WritePayload(w) \/ PayloadFails(w)
  PROVE  LogAt(S, E)'
<1>1. /\ pc[w] = "payload" /\ UNCHANGED <<index, header, reserve, mode, job, last, loose>>
      /\ pc \in [Writers -> Stages]
  BY DEF WritePayload, PayloadFails, session, known, SInv, LocalTypes
<1>2. PICK h \in Heights, b \in Block :
        /\ E = job[w].offset /\ E \in Offsets /\ h = job[w].height /\ b = job[w].block
        /\ b.size \in Nat /\ b.size > 0 /\ E + (HeaderSize + b.size) <= MaxOffset
        /\ job[w].saved = E + HeaderSize + b.size
  BY <1>1, JobSpan DEF LogAt, AtWork, Holding
<1>3. PICK n \in 0 .. b.size :
        /\ data' = WithPayload(w, n)
        /\ \/ n = b.size /\ flen' = Grown(E, HeaderSize + n) /\ Goto(w, "header")
           \/ /\ flen' = flen \/ flen' = Grown(E, HeaderSize + n)
              /\ n = 0 => flen' = flen
              /\ Goto(w, "release")
  <2>1. CASE WritePayload(w)
    BY <1>2, <2>1 DEF WritePayload
  <2>2. CASE PayloadFails(w)
    <3>1. PICK n \in 0 .. b.size - 1 :
            /\ data' = WithPayload(w, n)
            /\ flen' = IF n = 0 THEN flen ELSE Grown(E, HeaderSize + n)
      BY <1>2, <2>2 DEF PayloadFails
    <3>2. n \in 0 .. b.size /\ Goto(w, "release")
      BY <1>2, <2>2 DEF PayloadFails, BreakOff
    <3> QED
      BY <3>1, <3>2
  <2> QED
    BY <2>1, <2>2
<1>4. n \in Nat /\ n <= b.size /\ HeaderSize + n \in Nat /\ HeaderSize + n # 0
  BY <1>2
<1>5. FilesGrow /\ (flen' = Grown(E, HeaderSize + n) => Covered(E, HeaderSize + n)')
  BY <1>2, <1>3, <1>4, GrownGrows
<1>6. \A c \in Offsets : \/ data'[c] = data[c]
                         \/ E <= c /\ data'[c].kind # "header"
  <2>1. n \in 0 .. job[w].block.size /\ pc[w] # "idle"
    BY <1>1, <1>2
  <2> QED
    BY <1>2, <1>3, <2>1, PayloadWithin
<1>7. \A i \in 1 .. n : data'[E + HeaderSize - 1 + i] = PayloadCell(h, b, i)
  <2> SUFFICES ASSUME NEW i \in 1 .. n PROVE data'[E + HeaderSize - 1 + i] = PayloadCell(h, b, i)
    OBVIOUS
  <2>1. PICK c \in Offsets : c = E + HeaderSize - 1 + i /\ c - (E + HeaderSize - 1) = i
    BY <1>2, <1>4, BlockStoreAssumption DEF Offsets
  <2>2. data'[c] = PayloadCell(job[w].height, job[w].block, i)
    BY <1>2, <1>3, <2>1 DEF WithPayload
  <2> QED
    BY <1>2, <2>1, <2>2
<1>8. PICK p \in {"header", "release"} :
        Goto(w, p) /\ (p = "header" => n = b.size /\ Covered(E, HeaderSize + b.size)')
  BY <1>3, <1>5
<1>9. pc'[w] = p
  BY <1>1, <1>8 DEF Goto
<1>10. Remnant(E)'
  <2> SUFFICES ASSUME NEW g \in Heights, NEW c \in Block, Written(E, g, c)'
               PROVE  c \in loose'[g] \/ (g = h /\ c = b)
    BY <1>1, <1>2, <1>9 DEF Remnant
  <2>1. CASE n = 0
    <3>1. data' = data
      <4>1. \A k \in Offsets : data'[k] = data[k]
        <5> SUFFICES ASSUME NEW k \in Offsets PROVE data'[k] = data[k]
          OBVIOUS
        <5>1. k - (E + HeaderSize - 1) \notin 1 .. n
          BY <1>2, <2>1, OffsetFacts
        <5> QED
          BY <1>2, <1>3, <5>1 DEF WithPayload
      <4>2. data \in [Offsets -> Cell] /\ data' \in [Offsets -> Cell]
        BY DEF SInv, DiskSound
      <4> QED
        BY <4>1, <4>2
    <3>2. flen' = flen
      BY <1>2, <1>3, <2>1
    <3>3. Written(E, g, c)
      BY <3>1, <3>2 DEF Written, HeaderAt, Intact, Covered
    <3>4. \A v \in Writers : pc[v] = "payload"
      BY <1>1 DEF Solo
    <3> QED
      BY <1>1, <3>3, <3>4 DEF LogAt, Remnant
  <2>2. CASE n # 0
    <3>1. 1 \in 1 .. n /\ 1 \in 1 .. c.size
      BY <1>4, <2>2, BlockFacts
    <3>2. /\ data'[E + HeaderSize - 1 + 1] = PayloadCell(h, b, 1)
          /\ data'[E + HeaderSize - 1 + 1] = PayloadCell(g, c, 1)
      BY <1>7, <3>1 DEF Written, Intact
    <3> QED
      BY <3>2, PayloadTells
  <2> QED
    BY <2>1, <2>2
<1>11. /\ \A c \in Offsets : c < E => data'[c] = data[c]
       /\ \A o \in Offsets : data'[o].kind = "header" => o <= E
  <2>1. \A c \in Offsets : c \in Nat
    BY OffsetFacts
  <2> QED
    BY <1>6, <2>1 DEF LogAt, Log
<1>12. p = "header" => /\ Intact(E, job[w].height, job[w].block)'
                       /\ Covered(E, HeaderSize + job[w].block.size)'
  BY <1>1, <1>2, <1>7, <1>8 DEF Intact, Covered
<1> QED
  BY <1>1, <1>5, <1>8, <1>10, <1>11, <1>12, HoldingLog DEF Holding

(* The first n cells of a header have been written at E, and the next one may be torn. *)
HeaderPut(E, h, b, n) ==
  /\ n # 0 => data'[E] = HeaderCell(h, b)
  /\ n = 0 => data' = data \/ data'[E] = TornCell
  /\ n = HeaderSize => HeaderAt(E, h, b)'
  /\ \A o \in Offsets : o < E \/ E + HeaderSize <= o => data'[o] = data[o]
  /\ \A o \in Offsets : data'[o].kind = "header" => o = E \/ data'[o] = data[o]

(* What writing a block header does to the cells. *)
LEMMA HeaderPutIs ==
  ASSUME SInv, NEW w \in Writers, pc[w] # "idle", NEW E \in Nat, NEW h, NEW b,
         E = job[w].offset, h = job[w].height, b = job[w].block, NEW n \in 0 .. HeaderSize,
         \/ data' = WithHeader(w, n)
         \/ n < HeaderSize /\ data' = [WithHeader(w, n) EXCEPT ![job[w].offset + n] = TornCell]
  PROVE  HeaderPut(E, h, b, n)
<1>1. /\ \A i \in 0 .. n - 1 : data'[E + i] = HeaderPart(h, b, i)
      /\ data \in [Offsets -> Cell] /\ data' \in [Offsets -> Cell]
      /\ \A c \in Offsets : c < E \/ E + n <= c =>
           data'[c] = data[c] \/ (c = E + n /\ n < HeaderSize /\ data'[c] = TornCell)
  BY HeaderCellsAre DEF SInv, DiskSound
<1>2. n \in Nat /\ n <= HeaderSize /\ \A o \in Offsets : o \in Nat
  BY OffsetFacts
<1>3. n # 0 => data'[E] = HeaderCell(h, b)
  <2>1. n # 0 => 0 \in 0 .. n - 1 /\ E + 0 = E
    BY <1>2
  <2> QED
    BY <1>1, <2>1 DEF HeaderPart
<1>4. n = 0 => data' = data \/ data'[E] = TornCell
  <2> SUFFICES ASSUME n = 0, data'[E] # TornCell PROVE data' = data
    OBVIOUS
  <2>1. \A c \in Offsets : data'[c] = data[c]
    BY <1>1, <1>2
  <2> QED
    BY <1>1, <2>1
<1>5. n = HeaderSize => HeaderAt(E, h, b)'
  BY <1>1 DEF HeaderAt, HeaderPart
<1>6. ASSUME NEW o \in Offsets, o < E \/ E + HeaderSize <= o PROVE data'[o] = data[o]
  BY <1>1, <1>2, <1>6
<1>7. ASSUME NEW o \in Offsets, data'[o].kind = "header", o # E PROVE data'[o] = data[o]
  <2>1. CASE o < E \/ E + n <= o
    BY <1>1, <1>7, <2>1 DEF TornCell
  <2>2. CASE ~(o < E \/ E + n <= o)
    <3>1. PICK i \in 0 .. n - 1 : o = E + i /\ i # 0
      <4>1. o - E \in 0 .. n - 1 /\ o = E + (o - E) /\ o - E # 0
        BY <1>2, <1>7, <2>2
      <4> QED
        BY <4>1
    <3>2. data'[o] = RestCell(h, b, i)
      BY <1>1, <3>1 DEF HeaderPart
    <3> QED
      BY <1>7, <3>2 DEF RestCell
  <2> QED
    BY <2>1, <2>2
<1> QED
  BY <1>3, <1>4, <1>5, <1>6, <1>7 DEF HeaderPut

(* A block header that is torn, or not written, or written before the sync failed. *)
LEMMA HeaderFailsLog ==
  ASSUME Solo, SInv, SInv', NEW S \in SUBSET Nat, NEW E \in Nat, LogAt(S, E), NEW w \in Writers,
         HeaderFails(w)
  PROVE  LogAt(S, E)'
<1>1. /\ pc[w] = "header" /\ UNCHANGED <<index, header, flen, reserve, mode, job, last, loose>>
      /\ Goto(w, "release") /\ pc \in [Writers -> Stages] /\ data \in [Offsets -> Cell]
  BY DEF HeaderFails, BreakOff, session, known, SInv, LocalTypes, DiskSound
<1>2. PICK h \in Heights, b \in Block :
        E = job[w].offset /\ E \in Offsets /\ h = job[w].height /\ b = job[w].block
  BY <1>1, JobSpan DEF LogAt, AtWork, Holding
<1>3. PICK n \in 0 .. HeaderSize :
        \/ data' = WithHeader(w, n)
        \/ n < HeaderSize /\ data' = [WithHeader(w, n) EXCEPT ![job[w].offset + n] = TornCell]
  BY HeaderWrites
<1>4. HeaderPut(E, h, b, n)
  BY <1>1, <1>2, <1>3, HeaderPutIs
<1>5. pc'[w] = "release"
  BY <1>1 DEF Goto
<1>6. Remnant(E)'
  <2> SUFFICES ASSUME NEW g \in Heights, NEW d \in Block, Written(E, g, d)'
               PROVE  d \in loose'[g] \/ (g = h /\ d = b)
    BY <1>1, <1>2, <1>5 DEF Remnant
  <2>1. data'[E] = HeaderCell(g, d)
    BY DEF Written
  <2>2. CASE n = 0
    <3>1. data' = data
      BY <1>4, <2>1, <2>2, CellsDiffer DEF HeaderPut
    <3>2. Written(E, g, d)
      BY <1>1, <3>1 DEF Written, HeaderAt, Intact, Covered
    <3>3. \A v \in Writers : v = w
      BY DEF Solo
    <3> QED
      BY <1>1, <1>2, <3>2, <3>3 DEF LogAt, Remnant
  <2>3. CASE n # 0
    <3>1. HeaderCell(g, d) = HeaderCell(h, b)
      BY <1>4, <2>1, <2>3 DEF HeaderPut
    <3> QED
      BY <3>1, HeaderTells
  <2> QED
    BY <2>2, <2>3
<1>7. /\ \A o \in Offsets : o < E => data'[o] = data[o]
      /\ \A o \in Offsets : data'[o].kind = "header" => o <= E
  BY <1>4 DEF HeaderPut, LogAt, Log
<1>8. FilesGrow
  <2>1. \A f \in Files : flen[f] \in Int
    BY DEF SInv, DiskSound
  <2> QED
    BY <1>1, <2>1 DEF FilesGrow
<1> QED
  BY <1>1, <1>6, <1>7, <1>8, HoldingLog DEF Holding

(* A failed write gives its space back, and what it left there is loose. *)
LEMMA ReleaseLog ==
  ASSUME Solo, SInv, SInv', KnownTyped, NEW S \in SUBSET Nat, NEW E \in Nat, LogAt(S, E),
         NEW w \in Writers, ReleaseReservation(w)
  PROVE  LogAt(S, E)'
<1>1. /\ pc[w] = "release" /\ R!ReleaseReservation(w) /\ Goto(w, "idle")
      /\ UNCHANGED <<disk, last>>
      /\ loose' = [loose EXCEPT ![job[w].height] = @ \union {job[w].block}]
      /\ pc \in [Writers -> Stages] /\ loose \in [Heights -> SUBSET Block]
  BY DEF ReleaseReservation, ReturnErr, Return, MayReappear, SInv, LocalTypes, KnownTyped
<1>2. mode = "open" /\ mode' = "open" /\ job[w].height \in Heights /\ pc'[w] = "idle"
  BY <1>1, WriterOpen, JobSpan DEF ReleaseReservation, session, Goto
<1>3. data_highwater' = E
  <2>1. rsv[w].prev = E /\ data_highwater = rsv[w].end
    BY <1>1 DEF LogAt, AtWork, Holding
  <2> QED
    BY <1>1, <2>1 DEF R!ReleaseReservation
<1>4. \A h \in Heights : loose[h] \subseteq loose'[h]
  BY <1>1, <1>2
<1>5. Remnant(E)'
  <2> SUFFICES ASSUME NEW g \in Heights, NEW c \in Block, Written(E, g, c)' PROVE c \in loose'[g]
    BY DEF Remnant
  <2>1. Written(E, g, c)
    BY <1>1 DEF Written, HeaderAt, Intact, Covered, disk
  <2>2. c \in loose[g] \/ (job[w].height = g /\ job[w].block = c)
    BY <2>1 DEF LogAt, Remnant, Solo
  <2> QED
    BY <1>1, <1>2, <1>4, <2>2
<1>6. AtWork(S, E, w)'
  BY <1>2 DEF AtWork, Holding, Landed
<1>7. \A g \in Heights, c \in Block : Allowed(g, c) => Allowed(g, c)'
  BY <1>1, <1>4, AllowedStays
<1>8. /\ \A c \in Offsets : c < E => data'[c] = data[c]
      /\ \A o \in Offsets : data'[o].kind = "header" => o <= E
      /\ FilesGrow /\ UNCHANGED <<index, header>>
  BY <1>1, SameFiles DEF LogAt, Log, disk
<1> QED
  BY <1>1, <1>2, <1>3, <1>5, <1>6, <1>7, <1>8, WriterLog

(* One block begins at one place. *)
LEMMA OneRec ==
  ASSUME NEW S, NEW E, NEW s, NEW h, NEW b, NEW g, NEW c, Rec(S, E, s, h, b), Rec(S, E, s, g, c)
  PROVE  h = g /\ b = c
<1>1. HeaderCell(h, b) = HeaderCell(g, c)
  BY DEF Rec, Written
<1> QED
  BY <1>1, HeaderTells

(* The record that ends where the log ends is the last one. *)
LEMMA LastRec ==
  ASSUME NEW S \in SUBSET Nat, NEW E \in Nat, Log(S, E),
         NEW o, NEW h, NEW b, Rec(S, E, o, h, b), E <= o + HeaderSize + b.size,
         NEW s, NEW g, NEW c, Rec(S, E, s, g, c)
  PROVE  s <= o
<1>1. o \in Nat /\ b.size \in Nat /\ \A t \in S : t <= o \/ o + HeaderSize + b.size <= t
  BY RecEnds
<1>2. s \in S /\ s < E
  BY DEF Rec
<1> QED
  BY <1>1, <1>2

(* The index entry leads to the last record of the log. *)
LEMMA PublishLog ==
  ASSUME Solo, SInv, SInv', KnownTyped, NEW S \in SUBSET Nat, NEW E \in Nat, LogAt(S, E),
         NEW w \in Writers, Publish(w)
  PROVE  LogAt(S, E)'
<1>1. /\ pc[w] = "publish" /\ Goto(w, "advance")
      /\ index' = [index EXCEPT ![job[w].height] =
                     [offset |-> job[w].offset, size |-> job[w].block.size]]
      /\ last' = [last EXCEPT ![job[w].height] = job[w].block]
      /\ loose' = [loose EXCEPT ![job[w].height] =
                      IF job[w].alone THEN {} ELSE @ \union {job[w].block}]
      /\ UNCHANGED <<header, data, flen, reserve, session, job>>
  BY DEF Publish, C!PublishEntry
<1>2. /\ pc \in [Writers -> Stages] /\ index \in [Heights -> Entry \union {NoEntry}]
      /\ last \in [Heights -> Block \union {Nothing}] /\ loose \in [Heights -> SUBSET Block]
      /\ DiskSound /\ DiskSound'
  BY DEF SInv, LocalTypes, DiskSound, KnownTyped
<1>3. mode = "open" /\ mode' = "open"
  BY <1>1, WriterOpen DEF session
<1>4. PICK o \in Offsets, h \in Heights, b \in Block :
        /\ o = job[w].offset /\ h = job[w].height /\ b = job[w].block /\ job[w].saved = o + HeaderSize + b.size
  BY <1>1, JobSpan
<1>5. Rec(S, E, o, h, b) /\ E = o + HeaderSize + b.size
      /\ \A k \in Offsets : data[k].kind = "header" => k < E
  BY <1>1, <1>4 DEF LogAt, AtWork, Landed
<1>6. Log(S, E) /\ E \in S
  BY DEF LogAt, Log
<1>7. FilesGrow
  BY <1>1, SameFiles
<1>8. \A c \in Offsets : c < E => data'[c] = data[c]
  BY <1>1
<1>9. \A s, g, c : Rec(S, E, s, g, c)' <=> Rec(S, E, s, g, c)
  BY <1>2, <1>6, <1>7, <1>8, RecStays
<1>10. Log(S, E)'
  <2>1. \A k \in Offsets : data'[k].kind = "header" => k <= E
    BY <1>1, <1>6 DEF Log
  <2> QED
    BY <1>2, <1>6, <1>7, <1>9, <2>1, LogStays
<1>11. pc'[w] = "advance" /\ job'[w] = job[w]
  BY <1>1, <1>2 DEF Goto
<1>12. Marks(S, E)'
  <2>1. Quiet
    BY <1>1, <1>3 DEF Quiet, Solo, Holding
  <2> QED
    BY <1>1, <1>3, <2>1 DEF LogAt, Marks, Scans, reserve
<1>13. Remnant(E)'
  <2> SUFFICES ASSUME NEW g \in Heights, NEW c \in Block, Written(E, g, c)' PROVE FALSE
    BY DEF Remnant
  <2>1. E \in Offsets /\ data[E].kind = "header"
    BY <1>1, CellsDiffer DEF Written
  <2> QED
    BY <1>5, <2>1
<1>14. \A v \in Writers : AtWork(S, E, v)'
  <2>1. Rec(S, E, job[w].offset, job[w].height, job[w].block)'
    <3>1. Rec(S, E, o, h, b)'
      BY <1>5, <1>9
    <3>2. job'[w].offset = o /\ job'[w].height = h /\ job'[w].block = b
      BY <1>4, <1>11
    <3> QED
      BY <3>1, <3>2 DEF Rec, Written, HeaderAt, Intact, Covered
  <2>2. AtWork(S, E, w)'
    BY <1>1, <1>4, <1>5, <1>11, <2>1 DEF AtWork, Holding, Landed
  <2> QED
    BY <2>2 DEF Solo
<1>15. ASSUME NEW g \in Heights PROVE Restored(S, E, g)'
  <2>1. CASE g = h
    <3>1. PICK e : e = [offset |-> o, size |-> b.size]
      OBVIOUS
    <3>2. e \in Entry /\ e.offset = o /\ e.size = b.size
      BY <3>1, BlockFacts DEF Entry
    <3>3. index'[h] = e /\ last'[h] = b
      BY <1>1, <1>2, <1>4, <3>1
    <3>4. Indexed(S, E, g, last[g])'
      <4>1. Rec(S, E, o, h, b)'
        BY <1>5, <1>9
      <4>2. Rec(S, E, index[g].offset, g, last[g])'
        BY <2>1, <3>2, <3>3, <4>1 DEF Rec, Written, HeaderAt, Intact, Covered
      <4> QED
        BY <2>1, <3>2, <3>3, <4>2 DEF Indexed
    <3>5. ASSUME NEW s \in S, NEW c \in Block, Latest(S, E, s, g, c)' PROVE Allowed(g, c)'
      <4>1. Latest(S, E, s, g, c)
        BY <1>9, <3>5 DEF Latest
      <4>2. Rec(S, E, s, g, c) /\ o <= s /\ o \in S
        BY <1>5, <2>1, <4>1 DEF Latest, Rec
      <4>3. s <= o
        BY <1>5, <1>6, <4>2, LastRec
      <4>4. s = o
        BY <4>2, <4>3
      <4>5. c = b
        BY <1>5, <4>2, <4>4, OneRec
      <4> QED
        BY <2>1, <3>3, <4>5 DEF Allowed
    <3> QED
      BY <1>3, <3>4, <3>5 DEF Restored, Scans
  <2>2. CASE g # h
    <3>1. index'[g] = index[g] /\ last'[g] = last[g] /\ loose'[g] = loose[g]
      BY <1>1, <1>2, <1>4, <2>2
    <3>2. \A c \in Block : Allowed(g, c) => Allowed(g, c)'
      <4>1. \A v \in Writers : job[v].height = h
        BY <1>4 DEF Solo
      <4> QED
        BY <2>2, <3>1, <4>1 DEF Allowed
    <3>3. Indexed(S, E, g, last[g])'
      <4>1. PICK x : x = last[g] /\ x = last'[g]
        BY <3>1
      <4>2. PICK k : k = index[g].offset /\ k = index'[g].offset
        BY <3>1
      <4>3. Indexed(S, E, g, x)
        BY <1>3, <4>1 DEF LogAt, Restored
      <4>4. Rec(S, E, k, g, x)' <=> Rec(S, E, k, g, x)
        BY <1>9
      <4> QED
        BY <3>1, <4>1, <4>2, <4>3, <4>4 DEF Indexed, Rec, Written, HeaderAt, Intact, Covered
    <3>4. ASSUME NEW s \in S, NEW c \in Block, Latest(S, E, s, g, c)', header.next_write_offset <= s
          PROVE  Allowed(g, c)'
      <4>1. Latest(S, E, s, g, c)
        BY <1>9, <3>4 DEF Latest
      <4> QED
        BY <3>2, <3>4, <4>1 DEF LogAt, Restored
    <3> QED
      BY <1>1, <1>3, <3>3, <3>4 DEF Restored, Scans
  <2> QED
    BY <2>1, <2>2
<1> QED
  BY <1>10, <1>12, <1>13, <1>14, <1>15 DEF LogAt

(* The header completes the record, and the log ends behind it. *)
LEMMA WriteHeaderLog ==
  ASSUME Solo, SInv, SInv', NEW S \in SUBSET Nat, NEW E \in Nat, LogAt(S, E),
         NEW w \in Writers, WriteHeader(w)
  PROVE  \E T \in SUBSET Nat, F \in Nat : LogAt(T, F)'
<1>1. /\ pc[w] = "header" /\ UNCHANGED <<index, header, session, job, last, loose>>
      /\ Goto(w, "publish")
      /\ data' = WithHeader(w, HeaderSize) /\ flen' = Grown(job[w].offset, HeaderSize) /\ R!Land(w)
      /\ pc \in [Writers -> Stages] /\ data \in [Offsets -> Cell] /\ DiskSound /\ DiskSound'
  BY DEF WriteHeader, known, SInv, LocalTypes, DiskSound
<1>2. mode = "open" /\ mode' = "open" /\ pc'[w] = "publish"
  BY <1>1, WriterOpen DEF session, Goto
<1>3. PICK h \in Heights, b \in Block, F \in Nat :
        /\ E = job[w].offset /\ E \in Offsets /\ h = job[w].height /\ b = job[w].block
        /\ F = job[w].saved /\ F = E + HeaderSize + b.size /\ b.size \in Nat /\ b.size > 0
        /\ F <= MaxOffset /\ data_highwater = F
  <2>1. pc[w] \in Holding
    BY <1>1 DEF Holding
  <2>2. job[w].offset = E /\ data_highwater = rsv[w].end /\ rsv[w].end = job[w].saved
    BY <1>1, <2>1, WriterOpen DEF LogAt, AtWork, Working
  <2> QED
    BY <1>1, <2>2, JobSpan
<1>4. data_highwater' = F
  BY <1>1, <1>3 DEF R!Land
<1>5. Log(S, E) /\ E \in S /\ \A s \in S : s <= E
  BY DEF LogAt, Log
<1>6. /\ data'[E] = HeaderCell(h, b) /\ HeaderAt(E, h, b)'
      /\ \A c \in Offsets : c < E \/ E + HeaderSize <= c => data'[c] = data[c]
      /\ \A c \in Offsets : data'[c].kind = "header" => c = E \/ data'[c] = data[c]
  <2>1. HeaderSize \in 0 .. HeaderSize /\ HeaderSize # 0
    OBVIOUS
  <2>2. HeaderPut(E, h, b, HeaderSize)
    BY <1>1, <1>3, <2>1, HeaderPutIs
  <2> QED
    BY <2>1, <2>2 DEF HeaderPut
<1>7. FilesGrow
  BY <1>1, <1>3, GrownGrows
<1>8. \A c \in Offsets : c < E => data'[c] = data[c]
  BY <1>6
<1>9. \A s, g, c : Rec(S, E, s, g, c)' <=> Rec(S, E, s, g, c)
  BY <1>1, <1>5, <1>7, <1>8, RecStays
<1>10. Written(E, h, b)'
  <2>1. Intact(E, h, b) /\ Covered(E, HeaderSize + b.size) /\ HeaderSize + b.size \in Nat
    BY <1>1, <1>3 DEF LogAt, AtWork
  <2>2. ASSUME NEW i \in 1 .. b.size PROVE data'[E + HeaderSize - 1 + i] = PayloadCell(h, b, i)
    <3>1. PICK c \in Offsets : c = E + HeaderSize - 1 + i /\ E + HeaderSize <= c
      BY <1>3, BlockStoreAssumption DEF Offsets
    <3>2. data[c] = PayloadCell(h, b, i)
      BY <2>1, <3>1 DEF Intact
    <3> QED
      BY <1>6, <3>1, <3>2
  <2>3. Covered(E, HeaderSize + b.size)'
    BY <1>1, <1>3, <1>7, <2>1, CoveredStays
  <2> QED
    BY <1>3, <1>6, <2>2, <2>3 DEF Written, Intact
<1> DEFINE T == S \union {F}
<1>11. T \in SUBSET Nat /\ F \in T /\ \A t \in T : t \in S \/ t = F
  BY <1>3
<1>12. S \subseteq T
  OBVIOUS
<1>13. E < F
  BY <1>3
<1> HIDE DEF T
<1>14. \A s, g, c : Rec(T, F, s, g, c)' <=> Rec(S, E, s, g, c) \/ (s = E /\ g = h /\ c = b)
  <2>1. ASSUME NEW s, NEW g, NEW c, Rec(T, F, s, g, c)', s # E PROVE Rec(S, E, s, g, c)
    <3>1. s \in T /\ s < F /\ Written(s, g, c)'
      BY <2>1 DEF Rec
    <3>2. s \in S /\ s \in Nat /\ s < E
      BY <1>5, <1>11, <2>1, <3>1
    <3> QED
      BY <1>9, <3>1, <3>2 DEF Rec
  <2>2. ASSUME NEW g, NEW c, Rec(T, F, E, g, c)' PROVE g = h /\ c = b
    <3>1. HeaderCell(g, c) = HeaderCell(h, b)
      BY <1>6, <2>2 DEF Rec, Written
    <3> QED
      BY <3>1, HeaderTells
  <2>3. ASSUME NEW s, NEW g, NEW c, Rec(S, E, s, g, c) PROVE Rec(T, F, s, g, c)'
    <3>1. s \in S /\ s < E /\ Written(s, g, c)' /\ s \in Nat
      BY <1>9, <2>3 DEF Rec
    <3>2. s \in T /\ s < F
      BY <1>12, <1>13, <3>1
    <3> QED
      BY <3>1, <3>2 DEF Rec
  <2>4. Rec(T, F, E, h, b)'
    BY <1>5, <1>10, <1>12, <1>13 DEF Rec
  <2> QED
    BY <2>1, <2>2, <2>3, <2>4
<1>15. Log(T, F)'
  <2>1. \A t \in T : t <= F
    BY <1>5, <1>11, <1>13
  <2>2. ASSUME NEW s \in T, s < F
        PROVE  \E g \in Heights, c \in Block :
                 /\ Written(s, g, c)' /\ s + HeaderSize + c.size \in T
                 /\ \A t \in T : t <= s \/ s + HeaderSize + c.size <= t
    <3>1. CASE s = E
      BY <1>3, <1>5, <1>10, <1>11, <3>1
    <3>2. CASE s # E
      <4>1. s \in S /\ s < E
        BY <1>5, <1>11, <2>2, <3>2
      <4>2. PICK g \in Heights, c \in Block :
                 /\ Written(s, g, c) /\ s + HeaderSize + c.size \in S
                 /\ \A t \in S : t <= s \/ s + HeaderSize + c.size <= t
        BY <1>5, <4>1 DEF Log
      <4>3. Written(s, g, c)'
        BY <1>9, <4>1, <4>2 DEF Rec
      <4>4. s + HeaderSize + c.size <= F
        <5>1. PICK k \in Nat : k = s + HeaderSize + c.size /\ k <= E
          BY <1>5, <4>2
        <5> QED
          BY <1>13, <5>1
      <4> QED
        BY <1>11, <1>12, <4>2, <4>3, <4>4
    <3> QED
      BY <3>1, <3>2
  <2>3. \A k \in Offsets : data'[k].kind = "header" => k <= F
    BY <1>5, <1>6, <1>13, OffsetFacts DEF Log
  <2>4. F <= LayoutEnd'
    <3>1. FileOf(E) = 0 /\ LocalOffset(E) = E
      BY <1>1, OneFile
    <3>2. Covered(E, HeaderSize + b.size)'
      BY <1>10 DEF Written
    <3>3. E + (HeaderSize + b.size) <= flen'[0]
      BY <3>1, <3>2 DEF Covered
    <3>4. flen'[0] \in Int /\ LayoutEnd' = (IF flen'[0] < 0 THEN 0 ELSE flen'[0])
      BY <1>1, OneFileNext DEF Solo
    <3> QED
      BY <1>3, <3>3, <3>4
  <2> QED
    BY <1>11, <2>1, <2>2, <2>3, <2>4 DEF Log
<1>16. Marks(T, F)'
  BY <1>1, <1>2, <1>4, <1>12 DEF LogAt, Marks, Scans
<1>17. \A k \in Offsets : data'[k].kind = "header" => k < F
  BY <1>5, <1>6, <1>13, OffsetFacts DEF Log
<1>18. Remnant(F)'
  <2> SUFFICES ASSUME NEW g \in Heights, NEW c \in Block, Written(F, g, c)' PROVE FALSE
    BY DEF Remnant
  <2>1. F \in Offsets /\ data'[F].kind = "header"
    BY CellsDiffer DEF Written
  <2> QED
    BY <1>17, <2>1
<1>19. \A v \in Writers : AtWork(T, F, v)'
  <2>1. Rec(T, F, E, h, b)'
    BY <1>14
  <2>2. Rec(T, F, job[w].offset, job[w].height, job[w].block)'
    BY <1>1, <1>3, <2>1 DEF Rec, Written, HeaderAt, Intact, Covered
  <2>3. AtWork(T, F, w)'
    BY <1>1, <1>2, <1>3, <1>17, <2>2 DEF AtWork, Holding, Landed
  <2> QED
    BY <2>3 DEF Solo
<1>20. ASSUME NEW g \in Heights PROVE Restored(T, F, g)'
  <2>1. ASSUME NEW s \in T, NEW c \in Block, Latest(T, F, s, g, c)', header.next_write_offset <= s
        PROVE  Allowed(g, c)'
    <3>1. Rec(T, F, s, g, c)'
      BY <2>1 DEF Latest
    <3>2. CASE s = E /\ g = h /\ c = b
      BY <1>1, <1>2, <1>3, <3>2 DEF Allowed
    <3>3. CASE Rec(S, E, s, g, c)
      <4>1. s \in S
        BY <3>3 DEF Rec
      <4>2. ASSUME NEW t \in S, NEW d \in Block, Rec(S, E, t, g, d) PROVE t <= s
        BY <1>12, <1>14, <2>1, <4>2 DEF Latest
      <4>3. Latest(S, E, s, g, c)
        BY <3>3, <4>2 DEF Latest
      <4>4. Allowed(g, c)
        BY <2>1, <4>1, <4>3 DEF LogAt, Restored
      <4>5. \A v \in Writers : pc[v] # "publish"
        BY <1>1 DEF Solo
      <4> QED
        BY <1>1, <4>4, <4>5 DEF Allowed
    <3> QED
      BY <1>14, <3>1, <3>2, <3>3
  <2>2. Indexed(T, F, g, last[g])'
    <3>1. PICK x, k : x = last[g] /\ x = last'[g] /\ k = index[g].offset /\ k = index'[g].offset
      BY <1>1
    <3>2. Indexed(S, E, g, x)
      BY <1>2, <3>1 DEF LogAt, Restored
    <3>3. Rec(S, E, k, g, x) => Rec(T, F, k, g, x)'
      BY <1>14
    <3> QED
      BY <1>1, <3>1, <3>2, <3>3 DEF Indexed, Rec, Written, HeaderAt, Intact, Covered
  <2> QED
    BY <1>1, <1>2, <2>1, <2>2 DEF Restored, Scans
<1>21. LogAt(T, F)'
  BY <1>15, <1>16, <1>18, <1>19, <1>20 DEF LogAt
<1> QED
  BY <1>3, <1>11, <1>21

-----------------------------------------------------------------------------
(* Sessions end and begin. *)

(* The records of a file that does not change. *)
LEMMA SameRecs ==
  ASSUME UNCHANGED <<data, flen>>
  PROVE  /\ \A S, E, s, h, b : Rec(S, E, s, h, b)' <=> Rec(S, E, s, h, b)
         /\ \A o, h, b : Written(o, h, b)' <=> Written(o, h, b)
BY DEF Rec, Written, HeaderAt, Intact, Covered

(* So does the log. *)
LEMMA SameLog ==
  ASSUME UNCHANGED <<data, flen>>, NEW S, NEW E, Log(S, E)
  PROVE  Log(S, E)'
<1>1. LayoutEnd' = LayoutEnd
  BY DEF LayoutEnd, OnDisk, LastFile
<1> QED
  BY <1>1 DEF Log, Written, HeaderAt, Intact, Covered

(* The entry of h, when neither it nor the file changes. *)
LEMMA SameIndexed ==
  ASSUME UNCHANGED <<data, flen>>, NEW h, index'[h] = index[h]
  PROVE  \A S, E, x : Indexed(S, E, h, x)' <=> Indexed(S, E, h, x)
BY DEF Indexed, Rec, Written, HeaderAt, Intact, Covered

(* The process ends, cleanly or not. *)
LEMMA DownLog ==
  ASSUME NEW S \in SUBSET Nat, NEW E \in Nat, LogAt(S, E), mode # "refused",
         mode' = "down", UNCHANGED <<index, data, flen, last>>, AllIdle',
         \A h \in Heights : loose[h] \subseteq loose'[h],
         header' = header \/ (mode = "open" /\ header'.next_write_offset = E),
         Remnant(E)', \A h \in Heights, b \in Block : Allowed(h, b) => Allowed(h, b)'
  PROVE  LogAt(S, E)'
<1>1. \A s, h, b : Rec(S, E, s, h, b)' <=> Rec(S, E, s, h, b)
  BY SameRecs
<1>2. Log(S, E) /\ Log(S, E)' /\ E \in S
  BY SameLog DEF LogAt, Log
<1>3. Marks(S, E)'
  BY <1>2 DEF LogAt, Marks, Quiet, Scans
<1>4. \A v \in Writers : AtWork(S, E, v)'
  BY DEF AllIdle, AtWork, Holding, Landed
<1>5. ASSUME NEW g \in Heights PROVE Restored(S, E, g)'
  <2>1. ASSUME NEW s \in S, NEW c \in Block, Latest(S, E, s, g, c)', header'.next_write_offset <= s
        PROVE  Allowed(g, c)'
    <3>1. Latest(S, E, s, g, c)
      BY <1>1, <2>1 DEF Latest
    <3>2. s < E /\ s \in Nat
      BY <3>1 DEF Latest, Rec
    <3>3. header' = header
      BY <2>1, <3>2
    <3> QED
      BY <2>1, <3>1, <3>3 DEF LogAt, Restored
  <2>2. \/ \E t \in S, c \in Block : Rec(S, E, t, g, c)' /\ header'.next_write_offset <= t
        \/ \E x \in {last[g]} \union loose'[g] : Indexed(S, E, g, x)'
    <3>1. CASE mode = "open"
      <4>1. Indexed(S, E, g, last[g])
        BY <3>1 DEF LogAt, Restored
      <4>2. PICK x : x = last[g] /\ Indexed(S, E, g, x)
        BY <4>1
      <4>3. Indexed(S, E, g, x)'
        BY <4>2, SameIndexed
      <4> QED
        BY <4>2, <4>3
    <3>2. CASE mode # "open"
      <4>1. header' = header /\ header.next_write_offset \in Nat
            /\ (mode \in Scans => header.next_write_offset <= scan.next /\ scan.next \in Nat)
        BY <3>2 DEF LogAt, Marks
      <4>2. CASE \E t \in S, c \in Block : Rec(S, E, t, g, c) /\ ScanFrom <= t
        <5>1. PICK t \in S, c \in Block : Rec(S, E, t, g, c) /\ ScanFrom <= t
          BY <4>2
        <5>2. header.next_write_offset <= t
          BY <4>1, <5>1 DEF ScanFrom
        <5> QED
          BY <1>1, <4>1, <5>1, <5>2
      <4>3. CASE \E x \in {last[g]} \union loose[g] : Indexed(S, E, g, x)
        <5>1. PICK x \in {last[g]} \union loose[g] : Indexed(S, E, g, x)
          BY <4>3
        <5>2. Indexed(S, E, g, x)'
          BY <5>1, SameIndexed
        <5> QED
          BY <5>2
      <4> QED
        BY <3>2, <4>2, <4>3 DEF LogAt, Restored
    <3> QED
      BY <3>1, <3>2
  <2>3. ScanFrom' = header'.next_write_offset
    BY DEF ScanFrom, Scans
  <2> QED
    BY <2>1, <2>2, <2>3 DEF Restored, Scans
<1> QED
  BY <1>2, <1>3, <1>4, <1>5 DEF LogAt

(* Drop writes where the log ends. *)
LEMMA CloseLog ==
  ASSUME NEW S \in SUBSET Nat, NEW E \in Nat, LogAt(S, E), Close
  PROVE  LogAt(S, E)'
<1>1. /\ mode = "open" /\ mode' = "down" /\ UNCHANGED <<index, data, flen, last, loose>>
      /\ AllIdle /\ AllIdle' /\ Quiet
  BY DEF Close, MemoryGone, known, AllIdle, Quiet, Holding
<1>2. data_highwater = E
  BY <1>1 DEF LogAt, Marks
<1>3. header' = header \/ header'.next_write_offset = E
  BY <1>2 DEF Close
<1>4. Remnant(E)'
  BY <1>1, SameRecs DEF LogAt, Remnant, AllIdle
<1>5. \A h \in Heights, b \in Block : Allowed(h, b) => Allowed(h, b)'
  BY <1>1 DEF Allowed, AllIdle
<1> QED
  BY <1>1, <1>3, <1>4, <1>5, DownLog

(* A crash makes loose what the write in progress may have left behind. *)
LEMMA CrashLog ==
  ASSUME NEW S \in SUBSET Nat, NEW E \in Nat, LogAt(S, E), Crash
  PROVE  LogAt(S, E)'
<1>1. /\ mode # "refused" /\ mode' = "down" /\ UNCHANGED <<index, header, data, flen, last>>
      /\ AllIdle'
  BY DEF Crash, MemoryGone, disk, AllIdle
<1>2. \A h \in Heights : loose'[h] = loose[h] \union
                 {job[w].block : w \in {v \in InFlight(h) : pc[v] \in Unpublished}}
  BY DEF Crash
<1>3. ASSUME NEW v \in Writers, NEW h \in Heights, pc[v] \in Unpublished, job[v].height = h
      PROVE  job[v].block \in loose'[h]
  <2>1. v \in InFlight(h)
    BY <1>3 DEF InFlight, Unpublished
  <2> QED
    BY <1>2, <1>3, <2>1
<1>4. Remnant(E)'
  <2> SUFFICES ASSUME NEW g \in Heights, NEW c \in Block, Written(E, g, c)' PROVE c \in loose'[g]
    BY DEF Remnant
  <2>1. Written(E, g, c)
    BY <1>1, SameRecs
  <2>2. CASE c \in loose[g]
    BY <1>2, <2>2
  <2>3. CASE \E w \in Writers :
               pc[w] \in {"header", "release"} /\ job[w].height = g /\ job[w].block = c
    <3>1. PICK v \in Writers :
               pc[v] \in {"header", "release"} /\ job[v].height = g /\ job[v].block = c
      BY <2>3
    <3> QED
      BY <1>3, <3>1 DEF Unpublished
  <2> QED
    BY <2>1, <2>2, <2>3 DEF LogAt, Remnant
<1>5. ASSUME NEW h \in Heights, NEW b \in Block, Allowed(h, b) PROVE Allowed(h, b)'
  <2>1. CASE b = last[h] \/ b \in loose[h]
    BY <1>1, <1>2, <2>1 DEF Allowed
  <2>2. CASE \E w \in Writers : pc[w] = "publish" /\ job[w].height = h /\ job[w].block = b
    <3>1. PICK v \in Writers : pc[v] = "publish" /\ job[v].height = h /\ job[v].block = b
      BY <2>2
    <3>2. b \in loose'[h]
      BY <1>3, <3>1 DEF Unpublished
    <3> QED
      BY <3>2 DEF Allowed
  <2> QED
    BY <1>5, <2>1, <2>2 DEF Allowed
<1>6. \A h \in Heights : loose[h] \subseteq loose'[h]
  BY <1>2
<1> QED
  BY <1>1, <1>4, <1>5, <1>6, DownLog

(* The layout check accepts a log. *)
LEMMA OpenLog ==
  ASSUME Solo, SInv, NEW S \in SUBSET Nat, NEW E \in Nat, LogAt(S, E), Open
  PROVE  mode' # "refused" /\ LogAt(S, E)'
<1>1. header.next_write_offset \in S /\ header.next_write_offset <= E /\ E <= LayoutEnd
      /\ header.next_write_offset \in Nat /\ LayoutEnd \in Int
  BY OneFile DEF LogAt, Marks, Log, SInv
<1>2. LayoutValid /\ LayoutEnd >= header.next_write_offset
  BY <1>1, OneFile DEF SInv
<1>3. /\ mode = "down" /\ mode' = "recovering" /\ scan'.next = header.next_write_offset
      /\ UNCHANGED <<index, header, data, flen, last, loose, pc, job>>
  BY <1>2 DEF Open, disk, local, known
<1>4. AllIdle /\ AllIdle'
  BY <1>3 DEF SInv, Closed, AllIdle
<1>5. Log(S, E)' /\ \A s, h, b : Rec(S, E, s, h, b)' <=> Rec(S, E, s, h, b)
  BY <1>3, SameLog, SameRecs DEF LogAt
<1>6. Marks(S, E)'
  BY <1>1, <1>3 DEF Marks, Quiet
<1>7. Remnant(E)'
  BY <1>3, SameRecs DEF LogAt, Remnant
<1>8. \A v \in Writers : AtWork(S, E, v)'
  BY <1>4 DEF AllIdle, AtWork, Holding, Landed
<1>9. ASSUME NEW g \in Heights PROVE Restored(S, E, g)'
  <2>1. \A c \in Block : Allowed(g, c) => Allowed(g, c)'
    BY <1>3 DEF Allowed
  <2>2. ASSUME NEW s \in S, NEW c \in Block, Latest(S, E, s, g, c)', header.next_write_offset <= s
        PROVE  Allowed(g, c)'
    <3>1. Latest(S, E, s, g, c)
      BY <1>5, <2>2 DEF Latest
    <3> QED
      BY <2>1, <2>2, <3>1 DEF LogAt, Restored
  <2>3. ScanFrom = header.next_write_offset /\ ScanFrom' = header.next_write_offset
    BY <1>3 DEF ScanFrom, Scans
  <2>4. \/ \E t \in S, c \in Block : Rec(S, E, t, g, c)' /\ ScanFrom' <= t
        \/ \E x \in {last[g]} \union loose[g] : Indexed(S, E, g, x)'
    <3>1. \/ \E t \in S, c \in Block : Rec(S, E, t, g, c) /\ ScanFrom <= t
          \/ \E x \in {last[g]} \union loose[g] : Indexed(S, E, g, x)
      BY <1>3 DEF LogAt, Restored
    <3>2. \A x : Indexed(S, E, g, x)' <=> Indexed(S, E, g, x)
      BY <1>3, SameIndexed
    <3> QED
      BY <1>5, <2>3, <3>1, <3>2
  <2>5. ~\E s \in S : header.next_write_offset <= s /\ s < header.next_write_offset
    BY <1>1
  <2> QED
    BY <1>3, <2>2, <2>4, <2>5 DEF Restored
<1> QED
  BY <1>3, <1>5, <1>6, <1>7, <1>8, <1>9 DEF LogAt

(* A progress checkpoint moves the persisted offset to where the scan is. *)
LEMMA CheckpointProgressLog ==
  ASSUME SInv, SInv', NEW S \in SUBSET Nat, NEW E \in Nat, LogAt(S, E), CheckpointProgress
  PROVE  LogAt(S, E)'
<1>1. scan \in Scan /\ DOMAIN header = {"next_write_offset", "max_height", "highest_contiguous"}
  BY DEF SInv, LocalTypes, DiskSound
<1>2. /\ mode = "progress" /\ mode' = "recovering" /\ scan'.next = scan.next
      /\ header'.next_write_offset = scan.next
      /\ UNCHANGED <<index, data, flen, last, loose, pc, job>>
  BY <1>1 DEF CheckpointProgress, Scan, local, known
<1>3. AllIdle'
  BY <1>2 DEF SInv, Closed, AllIdle
<1>4. Log(S, E)' /\ \A s, h, b : Rec(S, E, s, h, b)' <=> Rec(S, E, s, h, b)
  BY <1>2, SameLog, SameRecs DEF LogAt
<1>5. /\ scan.next \in S /\ scan.next \in Nat /\ header.next_write_offset \in Nat
      /\ header.next_write_offset <= scan.next
  BY <1>2 DEF LogAt, Marks, Scans
<1>6. Marks(S, E)'
  BY <1>2, <1>5 DEF Marks, Quiet
<1>7. Remnant(E)'
  BY <1>2, SameRecs DEF LogAt, Remnant
<1>8. \A v \in Writers : AtWork(S, E, v)'
  BY <1>3 DEF AllIdle, AtWork, Holding, Landed
<1>9. ASSUME NEW g \in Heights PROVE Restored(S, E, g)'
  <2>1. \A c \in Block : Allowed(g, c) => Allowed(g, c)'
    BY <1>2 DEF Allowed
  <2>2. ASSUME NEW s \in S, NEW c \in Block, Latest(S, E, s, g, c)', scan.next <= s
        PROVE  Allowed(g, c)'
    <3>1. Latest(S, E, s, g, c)
      BY <1>4, <2>2 DEF Latest
    <3>2. header.next_write_offset <= s
      BY <1>5, <2>2
    <3> QED
      BY <2>1, <3>1, <3>2 DEF LogAt, Restored
  <2>3. ScanFrom = scan.next /\ ScanFrom' = scan.next
    BY <1>2 DEF ScanFrom, Scans
  <2>4. \/ \E t \in S, c \in Block : Rec(S, E, t, g, c)' /\ ScanFrom' <= t
        \/ \E x \in {last[g]} \union loose[g] : Indexed(S, E, g, x)'
    <3>1. \/ \E t \in S, c \in Block : Rec(S, E, t, g, c) /\ ScanFrom <= t
          \/ \E x \in {last[g]} \union loose[g] : Indexed(S, E, g, x)
      BY <1>2 DEF LogAt, Restored
    <3>2. \A x : Indexed(S, E, g, x)' <=> Indexed(S, E, g, x)
      BY <1>2, SameIndexed
    <3> QED
      BY <1>4, <2>3, <3>1, <3>2
  <2>5. ~\E s \in S : scan.next <= s /\ s < scan.next
    BY <1>5
  <2> QED
    BY <1>2, <2>2, <2>4, <2>5 DEF Restored
<1> QED
  BY <1>4, <1>6, <1>7, <1>8, <1>9 DEF LogAt

-----------------------------------------------------------------------------
(* The recovery scan walks the log. *)

(* The log T, F is S, E with the record of b at n, and what it holds is still allowed. *)
WithRecord(S, E, T, F, n, h, b) ==
  /\ Log(T, F) /\ S \subseteq T /\ Remnant(F)
  /\ n + HeaderSize + b.size \in T /\ Rec(T, F, n, h, b)
  /\ \A s, g, c : Rec(T, F, s, g, c) <=> (Rec(S, E, s, g, c) \/ (s = n /\ g = h /\ c = b))
  /\ \A g \in Heights, s \in Nat, c \in Block :
       Latest(T, F, s, g, c) /\ header.next_write_offset <= s => Allowed(g, c)

(* The log with the block that the scan has just accepted. *)
LEMMA ScannedLog ==
  ASSUME Solo, SInv, NEW S \in SUBSET Nat, NEW E \in Nat, LogAt(S, E), mode = "recovering",
         NEW n \in Nat, n = scan.next, NEW h \in Heights, NEW b \in Block, Written(n, h, b)
  PROVE  \E T \in SUBSET Nat, F \in Nat : WithRecord(S, E, T, F, n, h, b)
<1>1. Log(S, E) /\ n \in S /\ n <= E /\ E \in S /\ DiskSound /\ \A s \in S : s <= E
  BY DEF LogAt, Marks, Log, Scans, SInv
<1>2. b.size \in Nat /\ b.size > 0 /\ n \in Offsets
  BY BlockFacts DEF Written
<1>3. \A g \in Heights, s \in Nat, c \in Block :
         Latest(S, E, s, g, c) /\ header.next_write_offset <= s => Allowed(g, c)
  BY DEF LogAt, Restored, Latest, Rec
<1>4. CASE n < E
  <2>1. Rec(S, E, n, h, b)
    BY <1>1, <1>4 DEF Rec
  <2>2. n + HeaderSize + b.size \in S
    BY <1>1, <2>1, RecEnds
  <2>3. \A s, g, c : Rec(S, E, s, g, c) <=> (Rec(S, E, s, g, c) \/ (s = n /\ g = h /\ c = b))
    BY <2>1
  <2> QED
    BY <1>1, <1>3, <2>1, <2>2, <2>3 DEF LogAt, WithRecord
<1>5. CASE n = E
  <2> DEFINE F == E + HeaderSize + b.size
             T == S \union {F}
  <2>1. F \in Nat /\ E < F /\ F = n + HeaderSize + b.size
    BY <1>2, <1>5
  <2>2. T \in SUBSET Nat /\ F \in T /\ S \subseteq T /\ \A t \in T : t \in S \/ t = F
    BY <2>1
  <2>3. b \in loose[h]
    <3>1. AllIdle
      BY DEF SInv, Closed
    <3> QED
      BY <1>5, <3>1 DEF LogAt, Remnant, AllIdle
  <2> HIDE DEF F, T
  <2>4. \A s, g, c : Rec(T, F, s, g, c) <=> (Rec(S, E, s, g, c) \/ (s = n /\ g = h /\ c = b))
    <3>1. ASSUME NEW s, NEW g, NEW c, Rec(T, F, s, g, c), s # n PROVE Rec(S, E, s, g, c)
      <4>1. s \in T /\ s < F /\ Written(s, g, c)
        BY <3>1 DEF Rec
      <4>2. s \in S /\ s \in Nat /\ s <= E
        BY <1>1, <2>1, <2>2, <4>1
      <4> QED
        BY <1>5, <3>1, <4>1, <4>2 DEF Rec
    <3>2. Rec(T, F, n, h, b)
      BY <1>1, <1>5, <2>1, <2>2 DEF Rec
    <3>3. ASSUME NEW g, NEW c, Rec(T, F, n, g, c) PROVE g = h /\ c = b
      BY <3>2, <3>3, OneRec
    <3>4. ASSUME NEW s, NEW g, NEW c, Rec(S, E, s, g, c) PROVE Rec(T, F, s, g, c)
      <4>1. s \in S /\ s < E /\ Written(s, g, c) /\ s \in Nat
        BY <3>4 DEF Rec
      <4>2. s \in T /\ s < F
        BY <2>1, <2>2, <4>1
      <4> QED
        BY <4>1, <4>2 DEF Rec
    <3> QED
      BY <3>1, <3>2, <3>3, <3>4
  <2>5. Log(T, F)
    <3>1. \A t \in T : t <= F
      BY <1>1, <2>1, <2>2
    <3>2. ASSUME NEW s \in T, s < F
          PROVE  \E g \in Heights, c \in Block :
                   /\ Written(s, g, c) /\ s + HeaderSize + c.size \in T
                   /\ \A t \in T : t <= s \/ s + HeaderSize + c.size <= t
      <4>1. CASE s = E
        <5>1. \A t \in T : t <= E \/ F <= t
          BY <1>1, <2>1, <2>2 DEF Log
        <5> QED
          BY <1>5, <2>1, <2>2, <4>1, <5>1
      <4>2. CASE s # E
        <5>1. s \in S /\ s < E
          BY <1>1, <2>1, <2>2, <3>2, <4>2 DEF Log
        <5>2. PICK g \in Heights, c \in Block :
                 /\ Written(s, g, c) /\ s + HeaderSize + c.size \in S
                 /\ \A t \in S : t <= s \/ s + HeaderSize + c.size <= t
          BY <1>1, <5>1 DEF Log
        <5>3. s + HeaderSize + c.size <= F
          <6>1. PICK k \in Nat : k = s + HeaderSize + c.size /\ k <= E
            BY <1>1, <5>2 DEF Log
          <6> QED
            BY <2>1, <6>1
        <5> QED
          BY <2>2, <5>2, <5>3
      <4> QED
        BY <4>1, <4>2
    <3>3. \A k \in Offsets : data[k].kind = "header" => k <= F
      BY <1>1, <2>1, OffsetFacts DEF Log
    <3>4. F <= LayoutEnd
      <4>1. FileOf(n) = 0 /\ LocalOffset(n) = n
        BY <1>1, OneFile
      <4>2. n + (HeaderSize + b.size) <= flen[0]
        BY <4>1 DEF Written, Covered
      <4>3. flen[0] \in Int /\ LayoutEnd = (IF flen[0] < 0 THEN 0 ELSE flen[0])
        BY <1>1, OneFile
      <4> QED
        BY <1>2, <2>1, <4>2, <4>3
    <3> QED
      BY <2>2, <3>1, <3>2, <3>3, <3>4 DEF Log
  <2>6. Remnant(F)
    <3> SUFFICES ASSUME NEW g \in Heights, NEW c \in Block, Written(F, g, c) PROVE FALSE
      BY DEF Remnant
    <3>1. F \in Offsets /\ data[F].kind = "header"
      BY CellsDiffer DEF Written
    <3> QED
      BY <1>1, <2>1, <3>1 DEF Log
  <2>7. ASSUME NEW g \in Heights, NEW s \in Nat, NEW c \in Block,
               Latest(T, F, s, g, c), header.next_write_offset <= s
        PROVE  Allowed(g, c)
    <3>1. Rec(T, F, s, g, c) /\ \A t \in T, d \in Block : Rec(T, F, t, g, d) => t <= s
      BY <2>7 DEF Latest
    <3>2. CASE s = n /\ g = h /\ c = b
      BY <2>3, <3>2 DEF Allowed
    <3>3. CASE Rec(S, E, s, g, c)
      <4>1. Latest(S, E, s, g, c)
        BY <2>2, <2>4, <3>1, <3>3 DEF Latest
      <4> QED
        BY <1>3, <2>7, <4>1
    <3> QED
      BY <2>4, <3>1, <3>2, <3>3
  <2>8. n + HeaderSize + b.size \in T /\ Rec(T, F, n, h, b)
    BY <2>1, <2>2, <2>4
  <2> QED
    BY <2>1, <2>2, <2>4, <2>5, <2>6, <2>7, <2>8 DEF WithRecord
<1> QED
  BY <1>1, <1>4, <1>5

(* An accepted block becomes, or stays, a record, and its entry leads to it. *)
LEMMA RecoverBlockLog ==
  ASSUME Solo, SInv, SInv', NEW S \in SUBSET Nat, NEW E \in Nat, LogAt(S, E), RecoverBlock
  PROVE  \E T \in SUBSET Nat, F \in Nat : LogAt(T, F)'
<1>1. Scanning /\ BlockNext /\ mode = "recovering" /\ scan \in Scan
      /\ index \in [Heights -> Entry \union {NoEntry}]
  BY DEF RecoverBlock, Scanning, SInv, LocalTypes, DiskSound
<1>2. PICK h \in Heights, b \in Block :
           /\ HeaderRead = HeaderCell(h, b) /\ HeaderRead.height = h /\ HeaderRead.block = b
           /\ scan.next \in Offsets /\ data[scan.next] = HeaderCell(h, b)
           /\ HeaderAt(scan.next, h, b)
           /\ Intact(scan.next, h, b) /\ Covered(scan.next, HeaderSize + b.size)
           /\ scan.next + HeaderSize + b.size <= MaxOffset
  BY <1>1, ScanAccepts
<1>3. PICK n \in Nat : n = scan.next /\ n \in Offsets /\ Written(n, h, b)
  BY <1>2, OffsetFacts DEF Written
<1>4. PICK e : e = [offset |-> n, size |-> b.size]
  OBVIOUS
<1>5. e \in Entry /\ e.offset = n /\ e.size = b.size /\ e # NoEntry
      /\ b.size \in Nat /\ b.size > 0
  BY <1>3, <1>4, BlockFacts DEF Entry, NoEntry
<1>6. /\ index' = [index EXCEPT ![h] = e] /\ scan'.next = n + HeaderSize + b.size /\ mode' \in Scans
      /\ UNCHANGED <<header, data, flen, last, loose, pc, job>>
  <2>1. /\ index' = [index EXCEPT ![h] = e] /\ mode' \in Scans
        /\ UNCHANGED <<header, data, flen, last, loose, pc, job>>
    BY <1>2, <1>3, <1>4 DEF RecoverBlock, Scans, local, known
  <2>2. scan'.next = n + HeaderSize + b.size
    BY <1>1, <1>2, <1>3 DEF RecoverBlock, Scan
  <2> QED
    BY <2>1, <2>2
<1>7. index'[h] = e /\ \A g \in Heights : g # h => index'[g] = index[g]
  BY <1>1, <1>6
<1>8. AllIdle /\ AllIdle'
  BY <1>1, <1>6 DEF SInv, Closed, AllIdle
<1>WR. PICK T \in SUBSET Nat, F \in Nat : WithRecord(S, E, T, F, n, h, b)
  BY <1>1, <1>3, ScannedLog
<1>9. /\ Log(T, F) /\ S \subseteq T /\ Remnant(F)
      /\ n + HeaderSize + b.size \in T /\ Rec(T, F, n, h, b)
      /\ \A s, g, c : Rec(T, F, s, g, c) <=> (Rec(S, E, s, g, c) \/ (s = n /\ g = h /\ c = b))
      /\ \A g \in Heights, s \in Nat, c \in Block :
           Latest(T, F, s, g, c) /\ header.next_write_offset <= s => Allowed(g, c)
  BY <1>WR DEF WithRecord
<1>10. PICK m \in Nat : m = header.next_write_offset /\ m \in S /\ m <= n
  BY <1>1, <1>3 DEF LogAt, Marks, Scans
<1>11. Log(T, F)' /\ \A s, g, c : Rec(T, F, s, g, c)' <=> Rec(T, F, s, g, c)
  BY <1>6, <1>9, SameLog, SameRecs
<1>12. Marks(T, F)'
  <2>1. header'.next_write_offset \in T /\ scan'.next \in T
        /\ header'.next_write_offset <= scan'.next
    BY <1>5, <1>6, <1>9, <1>10
  <2> QED
    BY <1>6, <2>1 DEF Marks, Quiet, Scans
<1>13. Remnant(F)'
  BY <1>6, <1>9, SameRecs DEF Remnant
<1>14. \A v \in Writers : AtWork(T, F, v)'
  BY <1>8 DEF AllIdle, AtWork, Holding, Landed
<1>15. \A t \in T : t <= n \/ n + HeaderSize + b.size <= t
  BY <1>9, RecEnds
<1>16. ASSUME NEW g \in Heights PROVE Restored(T, F, g)'
  <2>1. \A c \in Block : Allowed(g, c) <=> Allowed(g, c)'
    BY <1>6 DEF Allowed
  <2>2. ASSUME NEW s \in T, NEW c \in Block, Latest(T, F, s, g, c)', m <= s PROVE Allowed(g, c)'
    <3>1. Latest(T, F, s, g, c) /\ s \in Nat
      BY <1>11, <2>2 DEF Latest
    <3> QED
      BY <1>9, <1>10, <2>1, <2>2, <3>1
  <2>3. \/ \E t \in T, c \in Block : Rec(T, F, t, g, c)' /\ n + HeaderSize + b.size <= t
        \/ \E x \in {last[g]} \union loose[g] : Indexed(T, F, g, x)'
    <3>1. CASE g = h
      <4>1. SUFFICES ASSUME ~\E t \in T, c \in Block : Rec(T, F, t, g, c)' /\ n + HeaderSize + b.size <= t
                     PROVE  \E x \in {last[g]} \union loose[g] : Indexed(T, F, g, x)'
        OBVIOUS
      <4>2. Latest(T, F, n, h, b)
        BY <1>9, <1>11, <1>15, <3>1, <4>1 DEF Latest
      <4>3. Allowed(h, b)
        BY <1>9, <1>10, <4>2
      <4>4. b \in {last[g]} \union loose[g]
        BY <1>8, <3>1, <4>3 DEF Allowed, AllIdle
      <4>5. Indexed(T, F, g, b)'
        <5>1. Rec(T, F, n, h, b)'
          BY <1>9, <1>11
        <5>2. Rec(T, F, index[g].offset, g, b)'
          BY <1>5, <1>7, <3>1, <5>1 DEF Rec, Written, HeaderAt, Intact, Covered
        <5> QED
          BY <1>5, <1>7, <3>1, <5>2 DEF Indexed
      <4> QED
        BY <4>4, <4>5
    <3>2. CASE g # h
      <4>1. CASE \E t \in S, c \in Block : Rec(S, E, t, g, c) /\ ScanFrom <= t
        <5>1. PICK t \in S, c \in Block : Rec(S, E, t, g, c) /\ ScanFrom <= t
          BY <4>1
        <5>2. n <= t /\ t \in T /\ Rec(T, F, t, g, c)
          BY <1>1, <1>3, <1>9, <5>1 DEF ScanFrom, Scans
        <5>3. t # n
          BY <1>9, <3>2, <5>2, OneRec
        <5>4. n + HeaderSize + b.size <= t
          BY <1>15, <5>2, <5>3
        <5> QED
          BY <1>11, <5>2, <5>4
      <4>2. CASE \E x \in {last[g]} \union loose[g] : Indexed(S, E, g, x)
        <5>1. PICK x \in {last[g]} \union loose[g] : Indexed(S, E, g, x)
          BY <4>2
        <5>2. PICK k : k = index[g].offset /\ k = index'[g].offset
          BY <1>7, <3>2
        <5>3. Rec(S, E, k, g, x) => Rec(T, F, k, g, x)'
          BY <1>9, <1>11
        <5>4. Indexed(T, F, g, x)'
          BY <1>7, <3>2, <5>1, <5>2, <5>3 DEF Indexed, Rec, Written, HeaderAt, Intact, Covered
        <5> QED
          BY <5>4
      <4> QED
        BY <1>1, <4>1, <4>2 DEF LogAt, Restored
    <3> QED
      BY <3>1, <3>2
  <2>4. ASSUME NEW s \in T, NEW c \in Block, Rec(T, F, s, g, c)', m <= s, s < n + HeaderSize + b.size
        PROVE  index'[g] # NoEntry /\ s <= index'[g].offset
    <3>1. Rec(T, F, s, g, c) /\ s <= n /\ s \in Nat
      BY <1>5, <1>11, <1>15, <2>4
    <3>2. CASE g = h
      BY <1>5, <1>7, <3>1, <3>2
    <3>3. CASE g # h
      <4>1. Rec(S, E, s, g, c) /\ s \in S
        BY <1>9, <3>1, <3>3 DEF Rec
      <4>2. s # n
        BY <1>9, <3>1, <3>3, OneRec
      <4>3. s < n
        BY <3>1, <4>2
      <4> QED
        BY <1>1, <1>3, <1>7, <1>10, <2>4, <3>3, <4>1, <4>3 DEF LogAt, Restored, Scans
    <3> QED
      BY <3>2, <3>3
  <2>5. ScanFrom' = n + HeaderSize + b.size /\ mode' # "open" /\ header'.next_write_offset = m
    BY <1>6, <1>10 DEF ScanFrom, Scans
  <2> QED
    BY <1>6, <2>2, <2>3, <2>4, <2>5 DEF Restored
<1>17. LogAt(T, F)'
  BY <1>11, <1>12, <1>13, <1>14, <1>16 DEF LogAt
<1> QED
  BY <1>17

(* The scan takes every whole block that it comes to. *)
LEMMA ScanTakes ==
  ASSUME Solo, SInv, mode = "recovering", scan.end = LayoutEnd,
         NEW h \in Heights, NEW b \in Block, Written(scan.next, h, b)
  PROVE  Scanning /\ BlockNext
<1>1. PICK o \in Nat : o = scan.next /\ o \in Offsets /\ Written(o, h, b)
  BY OffsetFacts DEF Written
<1>2. /\ FileOf(o) = 0 /\ LocalOffset(o) = o /\ 0 \in Files /\ flen[0] \in Int /\ Cap = 0
      /\ LayoutEnd = (IF flen[0] < 0 THEN 0 ELSE flen[0])
      /\ FileOf(o + HeaderSize) = 0 /\ LocalOffset(o + HeaderSize) = o + HeaderSize
  <2>1. o + HeaderSize \in Nat
    OBVIOUS
  <2> QED
    BY <2>1, OneFile DEF SInv, Solo
<1>3. b.size \in Nat /\ b.size > 0 /\ b.size <= MaxBlockSize
  BY BlockFacts DEF Solo, Block
<1>4. /\ data[o] = HeaderCell(h, b) /\ HeaderAt(o, h, b) /\ Intact(o, h, b)
      /\ Covered(o, HeaderSize + b.size)
      /\ o + (HeaderSize + b.size) <= flen[0]
  BY <1>1, <1>2 DEF Written, Covered
<1>5. Covered(o, HeaderSize)
  BY <1>2, <1>3, <1>4 DEF Covered
<1>6. Scanning
  <2>1. 0 \in OnDisk
    BY <1>2, <1>3, <1>4 DEF OnDisk, Absent
  <2>2. o < scan.end
    BY <1>2, <1>3, <1>4
  <2> QED
    BY <1>1, <1>2, <2>1, <2>2 DEF Scanning
<1>7. /\ HeaderRead = data[o] /\ AfterHeader \in Window /\ WindowExact(AfterHeader)
      /\ \A i \in 0 .. HeaderSize - 1 : HeaderCells[i + 1] = data[o + i]
      /\ HeaderCells \in Seq(Cell) /\ Len(HeaderCells) = HeaderSize
  BY <1>1, <1>5, <1>6, ScanReads
<1>8. HeaderRead.kind = "header" /\ HeaderRead.height = h /\ HeaderRead.block = b
  BY <1>4, <1>7 DEF HeaderCell
<1>9. PayloadRead(b.size) = [i \in 1 .. b.size |-> PayloadCell(h, b, i)]
  <2> DEFINE u == AfterPayload(b.size)
             B == W!Bytes(u, o + HeaderSize, b.size)
  <2>1. u = W!After(AfterHeader, 0, o + HeaderSize, b.size, FileCells(0))
    BY <1>1, <1>2 DEF AfterPayload, ReadThrough
  <2>2. data \in [Offsets -> Cell] /\ flen \in [Files -> Int] /\ FilesFit
    BY DEF SInv, DiskSound
  <2>3. PayloadRead(b.size) = B
    BY <1>1, <1>2 DEF PayloadRead
  <2> HIDE DEF u
  <2>4. /\ B \in Seq(Cell) /\ Len(B) = b.size
        /\ \A i \in 1 .. b.size : B[i] = data[0 * Cap + (o + HeaderSize) + i - 1]
    <3> DEFINE m == o + HeaderSize
               n == b.size
    <3>1. m \in Nat /\ n \in Nat \ {0} /\ m + n <= flen[0]
      BY <1>3, <1>4
    <3>2. u = W!After(AfterHeader, 0, m, n, FileCells(0))
      BY <2>1
    <3> HIDE DEF m, n
    <3>3. /\ W!Bytes(u, m, n) \in Seq(Cell) /\ Len(W!Bytes(u, m, n)) = n
          /\ \A i \in 1 .. n : W!Bytes(u, m, n)[i] = data[0 * Cap + m + i - 1]
      BY <1>2, <1>7, <2>2, <3>1, <3>2, WindowRead
    <3> QED
      BY <3>3 DEF m, n
  <2> HIDE DEF B
  <2>5. ASSUME NEW i \in 1 .. b.size PROVE B[i] = PayloadCell(h, b, i)
    <3>1. 0 * Cap + (o + HeaderSize) + i - 1 = o + HeaderSize - 1 + i
      BY <1>2
    <3>2. B[i] = data[o + HeaderSize - 1 + i]
      BY <2>4, <3>1
    <3> QED
      BY <1>4, <3>2 DEF Intact
  <2>6. B = [i \in 1 .. b.size |-> B[i]]
    <3>1. DOMAIN B = 1 .. b.size /\ B = [i \in DOMAIN B |-> B[i]]
      BY <2>4
    <3> QED
      BY <3>1
  <2> QED
    BY <2>3, <2>5, <2>6
<1>10. h >= MinHeight
  BY DEF Heights
<1>11. HeaderCells = [i \in 1 .. HeaderSize |-> HeaderPart(h, b, i - 1)]
  <2> DEFINE B == HeaderCells
  <2>1. ASSUME NEW i \in 1 .. HeaderSize PROVE B[i] = HeaderPart(h, b, i - 1)
    <3>1. PICK k \in 0 .. HeaderSize - 1 : k = i - 1 /\ k + 1 = i
      OBVIOUS
    <3>2. B[k + 1] = HeaderPart(h, b, k)
      BY <1>4, <1>7 DEF HeaderAt
    <3> QED
      BY <3>1, <3>2
  <2>2. DOMAIN B = 1 .. HeaderSize /\ B = [i \in DOMAIN B |-> B[i]]
    BY <1>7
  <2> HIDE DEF B
  <2>3. B = [i \in 1 .. HeaderSize |-> HeaderPart(h, b, i - 1)]
    BY <2>1, <2>2
  <2> QED
    BY <2>3 DEF B
<1> QED
  BY <1>1, <1>3, <1>4, <1>5, <1>6, <1>8, <1>9, <1>10, <1>11 DEF BlockNext

(* What read_block answers is the block to which the entry leads. *)
LEMMA ReadIsIndexed ==
  ASSUME Solo, NEW S, NEW E, NEW h \in Heights, NEW x, Indexed(S, E, h, x)
  PROVE  ReadBlock(h) = x
<1>1. C!ReadEntry(h) = index[h]
  BY DEF C!ReadEntry, C!Heights, Heights
<1>2. CASE x = Nothing /\ index[h] = NoEntry
  BY <1>1, <1>2 DEF ReadBlock, NoEntry
<1>3. CASE x \in Block /\ index[h] \in Entry /\ index[h].size = x.size
           /\ Rec(S, E, index[h].offset, h, x)
  <2>1. PICK e \in Entry : e = index[h]
    BY <1>3
  <2>2. e.size = x.size /\ x.size # 0 /\ x.size <= MaxBlockSize
    BY <1>3, <2>1, BlockFacts DEF Solo, Block
  <2>3. data[e.offset] = HeaderCell(h, x) /\ HeaderAt(e.offset, h, x)
        /\ Intact(e.offset, h, x) /\ Covered(e.offset, HeaderSize + e.size)
    BY <1>3, <2>1, <2>2 DEF Rec, Written
  <2>4. data[e.offset].kind = "header" /\ data[e.offset].height = h /\ data[e.offset].block = x
    BY <2>3 DEF HeaderCell
  <2> QED
    BY <1>1, <2>1, <2>2, <2>3, <2>4 DEF ReadBlock
<1> QED
  BY <1>2, <1>3 DEF Indexed

(* A recovery ends where the log ends, with every entry right. *)
LEMMA FinishRecoveryLog ==
  ASSUME Solo, YInv, SInv', NEW S \in SUBSET Nat, NEW E \in Nat, LogAt(S, E), FinishRecovery
  PROVE  LogAt(S, E)'
<1>1. SInv /\ scan.end = LayoutEnd /\ scan.next \in S /\ scan.next \in Nat /\ scan.next <= E
      /\ AllIdle /\ header.next_write_offset \in Nat /\ header.next_write_offset \in S
  BY DEF FinishRecovery, FinishAs, YInv, ScanTyped, Scans, LogAt, Marks, Log, SInv, Closed
<1>2. /\ mode = "recovering" /\ mode' = "open" /\ data_highwater' = scan.next
      /\ UNCHANGED <<index, header, data, flen, pc, job>>
      /\ last' = [h \in Heights |->
                    IF ReadBlock(h) \in loose[h] THEN ReadBlock(h) ELSE last[h]]
      /\ ~(Scanning /\ BlockNext)
  BY DEF FinishRecovery, FinishAs, disk, local
<1>3. \A h \in Heights, b \in Block : ~Written(scan.next, h, b)
  BY <1>1, <1>2, ScanTakes
<1>4. scan.next = E
  <2>1. SUFFICES ASSUME scan.next < E PROVE FALSE
    BY <1>1
  <2>2. PICK h \in Heights, b \in Block : Written(scan.next, h, b)
    BY <1>1, <2>1 DEF LogAt, Log
  <2> QED
    BY <1>3, <2>2
<1>5. Log(S, E) /\ Log(S, E)' /\ \A s, h, b : Rec(S, E, s, h, b)' <=> Rec(S, E, s, h, b)
  BY <1>2, SameLog, SameRecs DEF LogAt
<1>6. Marks(S, E)'
  BY <1>1, <1>2, <1>4 DEF Marks, Scans
<1>7. Remnant(E)'
  BY <1>2, <1>3, <1>4, SameRecs DEF Remnant
<1>8. \A v \in Writers : AtWork(S, E, v)'
  BY <1>1, <1>2 DEF AllIdle, AtWork, Holding, Landed
<1>9. ASSUME NEW g \in Heights PROVE Restored(S, E, g)'
  <2>1. ~\E t \in S, c \in Block : Rec(S, E, t, g, c) /\ scan.next <= t
    BY <1>4 DEF Rec
  <2>2. PICK x \in {last[g]} \union loose[g] : Indexed(S, E, g, x)
    <3>1. ScanFrom = scan.next
      BY <1>2 DEF ScanFrom, Scans
    <3> QED
      BY <1>2, <2>1, <3>1 DEF LogAt, Restored
  <2>3. last'[g] = x
    <3>1. ReadBlock(g) = x
      BY <2>2, ReadIsIndexed
    <3> QED
      BY <1>2, <2>2, <3>1
  <2>4. Indexed(S, E, g, last[g])'
    <3>1. Indexed(S, E, g, x)'
      BY <1>2, <2>2, SameIndexed
    <3> QED
      BY <2>3, <3>1 DEF Indexed, Rec, Written, HeaderAt, Intact, Covered
  <2>5. ASSUME NEW s \in S, NEW c \in Block, Latest(S, E, s, g, c)', header.next_write_offset <= s
        PROVE  Allowed(g, c)'
    <3>1. Rec(S, E, s, g, c) /\ s \in Nat
          /\ \A t \in S, d \in Block : Rec(S, E, t, g, d) => t <= s
      BY <1>5, <2>5 DEF Latest
    <3>2. s < scan.next
      BY <1>4, <3>1 DEF Rec
    <3>3. index[g] # NoEntry /\ s <= index[g].offset
      BY <1>2, <2>5, <3>1, <3>2 DEF LogAt, Restored, Scans
    <3>4. PICK k : k = index[g].offset /\ Rec(S, E, k, g, x) /\ x \in Block
      BY <2>2, <3>3 DEF Indexed
    <3>5. k \in S
      BY <3>4 DEF Rec
    <3>6. k = s
      BY <3>1, <3>3, <3>4, <3>5
    <3>7. x = c
      BY <3>1, <3>4, <3>6, OneRec
    <3> QED
      BY <2>3, <3>7 DEF Allowed
  <2> QED
    BY <1>2, <2>4, <2>5 DEF Restored, Scans
<1> QED
  BY <1>5, <1>6, <1>7, <1>8, <1>9 DEF LogAt

(* An empty file is a log without a record. *)
LEMMA InitLInv == ASSUME Solo, Init PROVE LInv
<1>1. YInv /\ SInv /\ DiskSound
  BY InitYInv DEF YInv, SInv
<1>2. mode = "open" /\ header.next_write_offset = 0 /\ data_highwater = 0 /\ AllIdle
      /\ data = [o \in Offsets |-> ZeroCell] /\ index = [h \in Heights |-> NoEntry]
      /\ last = [h \in Heights |-> Nothing]
  BY DEF Init, AllIdle
<1>3. \A o \in Offsets : data[o].kind # "header"
  BY <1>2 DEF ZeroCell
<1>4. \A o, h, b : ~Written(o, h, b)
  BY <1>3, CellsDiffer DEF Written
<1>5. Log({0}, 0)
  <2>1. 0 <= LayoutEnd
    BY <1>1, OneFile
  <2> QED
    BY <1>3, <2>1 DEF Log
<1>6. Marks({0}, 0)
  BY <1>2 DEF Marks, Scans
<1>7. Remnant(0) /\ \A w \in Writers : AtWork({0}, 0, w)
  BY <1>2, <1>4 DEF Remnant, AtWork, AllIdle, Holding, Landed
<1>8. \A h \in Heights : Restored({0}, 0, h)
  BY <1>2, <1>4 DEF Restored, Indexed, Latest, Rec, Scans
<1>9. LogAt({0}, 0)
  BY <1>5, <1>6, <1>7, <1>8 DEF LogAt
<1>10. {0} \in SUBSET Nat /\ 0 \in Nat
  OBVIOUS
<1> QED
  BY <1>1, <1>2, <1>9, <1>10 DEF LInv

(* A step of the writer keeps the log. *)
LEMMA WriterLInv ==
  ASSUME Solo, YInv, YInv', NEW S \in SUBSET Nat, NEW E \in Nat, LogAt(S, E), NEW w \in Writers,
         (\E h \in Heights, b \in Block : BeginWrite(w, h, b)) \/ WriterStep(w) \/ WriterFault(w)
  PROVE  \E T \in SUBSET Nat, F \in Nat : LogAt(T, F)'
<1>1. SInv /\ SInv' /\ KnownTyped
  BY DEF YInv
<1>2. CASE \E h \in Heights, b \in Block : BeginWrite(w, h, b)
  BY <1>1, <1>2, BeginLog
<1>3. CASE Resolve(w) \/ ResolveFails(w)
  BY <1>1, <1>3, ResolveLog
<1>4. CASE WritePayload(w) \/ PayloadFails(w)
  BY <1>1, <1>4, PayloadLog
<1>5. CASE WriteHeader(w)
  BY <1>1, <1>5, WriteHeaderLog
<1>6. CASE HeaderFails(w)
  BY <1>1, <1>6, HeaderFailsLog
<1>7. CASE ReleaseReservation(w)
  BY <1>1, <1>7, ReleaseLog
<1>8. CASE Publish(w)
  BY <1>1, <1>8, PublishLog
<1>9. CASE \/ AdvanceFloor(w) \/ RaiseHighwater(w) \/ NoCheckpointDue(w) \/ CheckpointDue(w)
           \/ CheckpointLoad(w) \/ CheckpointWrite(w) \/ CheckpointStore(w)
           \/ PublishFails(w) \/ CheckpointFails(w)
  BY <1>1, <1>9, FinishLog
<1> QED
  BY <1>2, <1>3, <1>4, <1>5, <1>6, <1>7, <1>8, <1>9 DEF WriterStep, WriterFault

(* Nor does a stuttering step change it. *)
LEMMA StutterLog ==
  ASSUME NEW S, NEW E, LogAt(S, E), UNCHANGED vars
  PROVE  LogAt(S, E)'
<1>1. UNCHANGED <<index, header, data, flen, data_highwater, rsv, mode, scan, pc, job, last, loose>>
  BY DEF vars, disk, reserve, session, local, known
<1>2. Log(S, E)'
  BY <1>1, SameLog DEF LogAt
<1>3. Marks(S, E)' /\ Remnant(E)'
  BY <1>1 DEF LogAt, Marks, Quiet, Remnant, Written, HeaderAt, Intact, Covered
<1>4. \A w \in Writers : AtWork(S, E, w)'
  BY <1>1 DEF LogAt, AtWork, Rec, Written, HeaderAt, Intact, Covered
<1>5. \A h \in Heights : Restored(S, E, h)'
  <2>1. /\ \A s, h, b : Rec(S, E, s, h, b)' <=> Rec(S, E, s, h, b)
        /\ \A h, x : Indexed(S, E, h, x)' <=> Indexed(S, E, h, x)
        /\ \A h, b : Allowed(h, b)' <=> Allowed(h, b)
        /\ \A s, h, b : Latest(S, E, s, h, b)' <=> Latest(S, E, s, h, b)
    BY <1>1 DEF Indexed, Allowed, Latest, Rec, Written, HeaderAt, Intact, Covered
  <2>2. ScanFrom' = ScanFrom
    BY <1>1 DEF ScanFrom
  <2> SUFFICES ASSUME NEW h \in Heights PROVE Restored(S, E, h)'
    OBVIOUS
  <2>3. Restored(S, E, h)
    BY DEF LogAt
  <2>4. Indexed(S, E, h, last[h])' <=> Indexed(S, E, h, last[h])
    BY <1>1 DEF Indexed, Rec, Written, HeaderAt, Intact, Covered
  <2> QED
    BY <1>1, <2>1, <2>2, <2>3, <2>4 DEF Restored
<1> QED
  BY <1>2, <1>3, <1>4, <1>5 DEF LogAt

(* Every step keeps the log. *)
LEMMA NextLInv == ASSUME Solo, LInv, [Next]_vars PROVE LInv'
<1>1. YInv /\ YInv' /\ SInv /\ SInv' /\ mode # "refused"
  BY NextYInv, NextSInv DEF LInv, YInv
<1>2. PICK S \in SUBSET Nat, E \in Nat : LogAt(S, E)
  BY DEF LInv
<1>3. mode' # "refused" /\ \E T \in SUBSET Nat, F \in Nat : LogAt(T, F)'
  <2>1. CASE \E w \in Writers :
               \/ \E h \in Heights, b \in Block : BeginWrite(w, h, b)
               \/ WriterStep(w) \/ WriterFault(w)
    <3>1. PICK w \in Writers :
               \/ \E h \in Heights, b \in Block : BeginWrite(w, h, b)
               \/ WriterStep(w) \/ WriterFault(w)
      BY <2>1
    <3>2. mode' = "open"
      BY <1>1, <3>1, WriterSession
    <3> QED
      BY <1>1, <1>2, <3>1, <3>2, WriterLInv
  <2>2. CASE Close
    <3>1. mode' = "down"
      BY <2>2 DEF Close, MemoryGone
    <3> QED
      BY <1>2, <2>2, <3>1, CloseLog
  <2>3. CASE Crash
    <3>1. mode' = "down"
      BY <2>3 DEF Crash, MemoryGone
    <3> QED
      BY <1>2, <2>3, <3>1, CrashLog
  <2>4. CASE Open
    BY <1>1, <1>2, <2>4, OpenLog
  <2>5. CASE ScanNextFile
    BY <2>5 DEF ScanNextFile, Solo
  <2>6. CASE RecoverBlock
    <3>1. mode' # "refused"
      BY <2>6 DEF RecoverBlock
    <3> QED
      BY <1>1, <1>2, <2>6, <3>1, RecoverBlockLog
  <2>7. CASE CheckpointProgress
    <3>1. mode' # "refused"
      BY <2>7 DEF CheckpointProgress
    <3> QED
      BY <1>1, <1>2, <2>7, <3>1, CheckpointProgressLog
  <2>8. CASE FinishRecovery
    <3>1. mode' # "refused"
      BY <2>8 DEF FinishRecovery, FinishAs
    <3> QED
      BY <1>1, <1>2, <2>8, <3>1, FinishRecoveryLog
  <2>9. CASE UNCHANGED vars
    <3>1. mode' # "refused"
      BY <1>1, <2>9 DEF vars, session
    <3> QED
      BY <1>2, <2>9, <3>1, StutterLog
  <2> QED
    BY <2>1, <2>2, <2>3, <2>4, <2>5, <2>6, <2>7, <2>8, <2>9 DEF Next, RecoveryStep
<1> QED
  BY <1>1, <1>3 DEF LInv

(* The data file of a single writer is a log in every state. *)
THEOREM LInvAlways == Solo => (Spec => []LInv)
<1> SUFFICES ASSUME Solo PROVE Spec => []LInv
  OBVIOUS
<1>1. Init => LInv
  BY InitLInv
<1>2. LInv /\ [Next]_vars => LInv'
  BY NextLInv
<1> QED
  BY <1>1, <1>2, PTL DEF Spec

(***************************************************************************)
(* The check that open makes of the layout, that the data files reach as   *)
(* far as the offset of the last checkpoint, never refuses the store of a  *)
(* single writer, whatever failed and whenever the process died.           *)
(***************************************************************************)
THEOREM SoloNeverRefused == Solo => (Spec => []NeverRefused)
<1> SUFFICES ASSUME Solo PROVE Spec => []NeverRefused
  OBVIOUS
<1>1. LInv => NeverRefused
  BY DEF LInv, NeverRefused
<1> QED
  BY <1>1, LInvAlways, PTL

(* In an open store an entry leads to the block published last. *)
LEMMA SoloReads ==
  Solo /\ LInv /\ mode = "open" => \A h \in Heights : ReadBlock(h) = last[h]
<1> SUFFICES ASSUME Solo, LInv, mode = "open", NEW h \in Heights PROVE ReadBlock(h) = last[h]
  OBVIOUS
<1>1. PICK S \in SUBSET Nat, E \in Nat : LogAt(S, E)
  BY DEF LInv
<1>2. Indexed(S, E, h, last[h])
  BY <1>1 DEF LogAt, Restored
<1> QED
  BY <1>2, ReadIsIndexed

(***************************************************************************)
(* Whatever fails and whenever the process dies, in a recovery too: in an  *)
(* open store read_block returns the block published last at each height,  *)
(* or one that a crash interrupted and the recovery restored.              *)
(***************************************************************************)
THEOREM SoloDurable == Solo => (Spec => []Durable)
<1> SUFFICES ASSUME Solo PROVE Spec => []Durable
  OBVIOUS
<1>1. LInv => Durable
  BY SoloReads DEF Durable
<1> QED
  BY <1>1, LInvAlways, PTL

(* The callers of a single writer's store find what was published last. *)
LEMMA SoloMapped == ASSUME Solo, LInv PROVE Mapped
<1>1. SInv /\ last \in [Heights -> Block \union {Nothing}] /\ loose \in [Heights -> SUBSET Block]
  BY DEF LInv, YInv, KnownTyped
<1>2. MapContent = [h \in Heights |-> last[h]]
  BY SoloReads DEF MapContent
<1> QED
  BY <1>1, <1>2 DEF Mapped

(***************************************************************************)
(* With one writer and one data file the store is a map with atomic writes *)
(* whatever fails and whenever the process dies.                           *)
(***************************************************************************)
THEOREM SoloImplementsHeightMap == Solo => (Spec => ImplementsHeightMap)
<1> SUFFICES ASSUME Solo PROVE Spec => HM!Spec
  BY DEF ImplementsHeightMap
<1>1. Spec => []LInv
  BY LInvAlways
<1>2. LInv => Mapped
  BY SoloMapped
<1>3. Mapped /\ Mapped' /\ [Next]_vars => [HM!Next]_HM!mvars
  BY NextMaps
<1> QED
  BY InitMaps, <1>1, <1>2, <1>3, PTL DEF Spec, HM!Spec

(* Nobody writes before the end of the log. *)
LEMMA LogKept ==
  ASSUME Solo, SInv, NEW S \in SUBSET Nat, NEW E \in Nat, LogAt(S, E), mode = "open",
         NEW o \in Nat, NEW n \in Nat, o < n, n <= E
  PROVE  Kept(o, n)
<1>1. Frontier = data_highwater
  BY DEF Frontier
<1>2. ASSUME NEW v \in Writers, R!Holds(v) PROVE rsv[v].prev = E /\ E <= data_highwater
  <2>1. pc[v] \in Holding /\ pc[v] # "idle"
    BY <1>2 DEF SInv, Working, Holding
  <2>2. rsv[v].prev = E /\ job[v].offset = E /\ data_highwater = job[v].saved
    BY <2>1 DEF LogAt, AtWork, SInv, Working
  <2> QED
    BY <2>1, <2>2, JobSpan
<1>3. E <= data_highwater
  <2>1. CASE \E v \in Writers : R!Holds(v)
    BY <1>2, <2>1
  <2>2. CASE ~\E v \in Writers : R!Holds(v)
    <3>1. Quiet
      BY <2>2 DEF Quiet, SInv, Working
    <3> QED
      BY <3>1 DEF LogAt, Marks
  <2> QED
    BY <2>1, <2>2
<1>4. data_highwater \in Nat
  BY HoldFacts DEF SInv
<1> QED
  BY <1>1, <1>2, <1>3, <1>4 DEF Kept

(***************************************************************************)
(* With one writer and one data file the bytes behind an index entry never *)
(* change while the store is open, also after a crash: what a torn write   *)
(* left behind lies past every record, and is all that is overwritten.     *)
(***************************************************************************)
THEOREM SoloBytesStable == Solo => (Spec => PublishedBytesStable)
<1> SUFFICES ASSUME Solo PROVE Spec => PublishedBytesStable
  OBVIOUS
<1>1. Spec => []LInv
  BY LInvAlways
<1>2. LInv /\ [Next]_vars =>
        [mode = "open" /\ mode' = "open" =>
           \A h \in Heights : \A o \in EntryBytes(h) : data'[o] = data[o]]_vars
  <2> SUFFICES ASSUME LInv, [Next]_vars, mode = "open", NEW h \in Heights, NEW c \in EntryBytes(h)
               PROVE  data'[c] = data[c]
    OBVIOUS
  <2>1. SInv /\ BytesStay
    BY NextBytesStay DEF LInv, YInv
  <2>2. PICK S \in SUBSET Nat, E \in Nat : LogAt(S, E)
    BY DEF LInv
  <2>3. /\ index[h] # NoEntry
        /\ c \in index[h].offset .. index[h].offset + HeaderSize + index[h].size - 1
    BY DEF EntryBytes
  <2>4. PICK o, b : o = index[h].offset /\ b \in Block /\ b.size = index[h].size
                    /\ Rec(S, E, o, h, b)
    BY <2>2, <2>3 DEF LogAt, Restored, Indexed
  <2>5. o \in Nat /\ b.size \in Nat /\ o + HeaderSize + b.size <= E
    BY <2>2, <2>4, RecEnds DEF LogAt
  <2>6. o + HeaderSize + b.size <= MaxOffset /\ MaxOffset \in Nat
    BY <2>4, BlockStoreAssumption DEF Rec, Written
  <2>7. PICK n \in Nat : n = o + HeaderSize + b.size /\ o < n /\ n <= E
    BY <2>5
  <2>8. Kept(o, n)
    BY <2>1, <2>2, <2>5, <2>7, LogKept
  <2>9. c \in Offsets /\ o <= c /\ c < n
    BY <2>3, <2>4, <2>5, <2>6, <2>7 DEF Offsets
  <2> QED
    BY <2>1, <2>5, <2>7, <2>8, <2>9 DEF BytesStay
<1> QED
  BY <1>1, <1>2, PTL DEF Spec, PublishedBytesStable

(* What was acknowledged, or took effect and is about to be, was published. *)
AInv ==
  /\ \A h \in acked : last[h] \in Block
  /\ \A w \in Writers : pc[w] \in Landed \ {"publish"} => last[job[w].height] \in Block

(* Every step keeps it. *)
LEMMA NextAInv == ASSUME YInv, AInv, [Next]_vars PROVE AInv'
<1>1. /\ SInv /\ pc \in [Writers -> Stages] /\ last \in [Heights -> Block \union {Nothing}]
      /\ loose \in [Heights -> SUBSET Block] /\ acked \subseteq Heights
  BY DEF YInv, SInv, LocalTypes, KnownTyped
<1>2. ASSUME NEW w \in Writers,
             (\E h \in Heights, b \in Block : BeginWrite(w, h, b)) \/ WriterStep(w) \/ WriterFault(w)
      PROVE  AInv'
  <2>1. CASE \E h \in Heights, b \in Block : BeginWrite(w, h, b)
    <3>1. PICK h \in Heights, b \in Block : BeginWrite(w, h, b)
      BY <2>1
    <3>2. /\ last' = last /\ acked' = acked /\ Goto(w, "resolve")
          /\ job' = [v \in Writers |->
               IF v = w
               THEN [height |-> h, block |-> b, offset |-> rsv'[w].offset,
                     saved |-> rsv'[w].end, alone |-> InFlight(h) = {}]
               ELSE [job[v] EXCEPT !.alone = @ /\ v \notin InFlight(h)]]
      BY <3>1 DEF BeginWrite, BeginWriteOf
    <3>3. pc'[w] = "resolve" /\ \A v \in Writers \ {w} : pc'[v] = pc[v]
      BY <1>1, <3>2 DEF Goto
    <3>4. \A v \in Writers \ {w} : job'[v].height = job[v].height
      <4>1. job \in [Writers -> Job \union {NoJob}]
        BY <1>1 DEF SInv, LocalTypes
      <4> SUFFICES ASSUME NEW v \in Writers \ {w} PROVE job'[v].height = job[v].height
        OBVIOUS
      <4>2. PICK a : job'[v] = [job[v] EXCEPT !.alone = a]
        BY <3>2
      <4> QED
        BY <4>1, <4>2 DEF Job, NoJob
    <3> QED
      BY <3>2, <3>3, <3>4 DEF AInv, Landed
  <2>2. CASE Publish(w)
    <3>1. /\ last' = [last EXCEPT ![job[w].height] = job[w].block] /\ acked' = acked
          /\ job' = job /\ Goto(w, "advance") /\ pc[w] # "idle"
      BY <2>2 DEF Publish
    <3>2. job[w].height \in Heights /\ job[w].block \in Block
      BY <1>1, <3>1, JobSpan
    <3>3. last'[job[w].height] \in Block /\ \A h : last[h] \in Block => last'[h] \in Block
      BY <1>1, <3>1, <3>2
    <3>4. \A v \in Writers \ {w} : pc'[v] = pc[v]
      BY <1>1, <3>1 DEF Goto
    <3> QED
      BY <3>1, <3>3, <3>4 DEF AInv
  <2>3. CASE NoCheckpointDue(w) \/ CheckpointStore(w)
    <3>1. /\ last' = last /\ acked' = acked \union {job[w].height} /\ Goto(w, "idle")
          /\ job' = [job EXCEPT ![w] = NoJob] /\ pc[w] \in Landed \ {"publish"}
      BY <2>3 DEF NoCheckpointDue, CheckpointStore, ReturnOk, Return, Landed
    <3>2. pc'[w] = "idle" /\ \A v \in Writers \ {w} : pc'[v] = pc[v] /\ job'[v] = job[v]
      BY <1>1, <3>1 DEF Goto, SInv, LocalTypes
    <3> QED
      BY <3>1, <3>2 DEF AInv, Landed
  <2>4. CASE ReleaseReservation(w) \/ PublishFails(w) \/ CheckpointFails(w)
    <3>1. /\ last' = last /\ acked' = acked /\ Goto(w, "idle") /\ job' = [job EXCEPT ![w] = NoJob]
      BY <2>4 DEF ReleaseReservation, PublishFails, CheckpointFails, ReturnErr, Return
    <3>2. pc'[w] = "idle" /\ \A v \in Writers \ {w} : pc'[v] = pc[v] /\ job'[v] = job[v]
      BY <1>1, <3>1 DEF Goto, SInv, LocalTypes
    <3> QED
      BY <3>1, <3>2 DEF AInv, Landed
  <2>5. CASE \/ Resolve(w) \/ WritePayload(w) \/ WriteHeader(w)
             \/ ResolveFails(w) \/ PayloadFails(w) \/ HeaderFails(w)
    <3>1. last' = last /\ acked' = acked /\ job' = job
      BY <2>5 DEF Resolve, WritePayload, WriteHeader, ResolveFails, PayloadFails, HeaderFails, known
    <3>2. PICK p \in Stages \ (Landed \ {"publish"}) : Goto(w, p)
      BY <2>5 DEF Resolve, WritePayload, WriteHeader, ResolveFails, PayloadFails, HeaderFails,
                  BreakOff, Stages, Landed
    <3>3. pc'[w] = p /\ \A v \in Writers \ {w} : pc'[v] = pc[v]
      BY <1>1, <3>2 DEF Goto
    <3> QED
      BY <3>1, <3>2, <3>3 DEF AInv
  <2>6. CASE \/ AdvanceFloor(w) \/ RaiseHighwater(w) \/ CheckpointDue(w) \/ CheckpointLoad(w)
             \/ CheckpointWrite(w)
    <3>1. last' = last /\ acked' = acked /\ job' = job /\ pc[w] \in Landed \ {"publish"}
      BY <2>6 DEF AdvanceFloor, RaiseHighwater, CheckpointDue, CheckpointLoad, CheckpointWrite,
                  known, local, Landed
    <3>2. \A v \in Writers \ {w} : pc'[v] = pc[v]
      BY <1>1, <2>6 DEF AdvanceFloor, RaiseHighwater, CheckpointDue, CheckpointLoad,
                        CheckpointWrite, Goto, local
    <3> QED
      BY <3>1, <3>2 DEF AInv
  <2> QED
    BY <1>2, <2>1, <2>2, <2>3, <2>4, <2>5, <2>6 DEF WriterStep, WriterFault
<1>3. CASE Close \/ Crash
  <2>1. last' = last /\ acked' = acked /\ pc' = [w \in Writers |-> "idle"]
    BY <1>3 DEF Close, Crash, MemoryGone, known
  <2> QED
    BY <2>1 DEF AInv, Landed
<1>4. CASE Open \/ ScanNextFile \/ RecoverBlock \/ CheckpointProgress \/ UNCHANGED vars
  <2>1. UNCHANGED <<last, acked, pc, job>>
    BY <1>4 DEF Open, ScanNextFile, RecoverBlock, CheckpointProgress, vars, known, local
  <2> QED
    BY <2>1 DEF AInv
<1>5. CASE FinishRecovery
  <2>1. /\ UNCHANGED <<acked, pc, job>> /\ mode = "recovering"
        /\ last' = [h \in Heights |-> IF ReadBlock(h) \in loose[h] THEN ReadBlock(h) ELSE last[h]]
    BY <1>5 DEF FinishRecovery, FinishAs, local
  <2>2. ASSUME NEW h \in acked PROVE last'[h] \in Block
    <3>1. h \in Heights /\ last[h] \in Block /\ loose[h] \subseteq Block
      BY <1>1 DEF AInv
    <3> QED
      BY <2>1, <3>1
  <2>3. \A w \in Writers : pc'[w] = "idle"
    BY <1>1, <2>1 DEF SInv, Closed, AllIdle
  <2> QED
    BY <2>1, <2>2, <2>3 DEF AInv, Landed
<1> QED
  BY <1>2, <1>3, <1>4, <1>5 DEF Next, RecoveryStep

(***************************************************************************)
(* With one writer and one data file a block whose write_block returned Ok *)
(* can be read whenever the store is open, after any crashes.              *)
(***************************************************************************)
THEOREM SoloAckedSurvive == Solo => (Spec => []AckedSurvive)
<1> SUFFICES ASSUME Solo PROVE Spec => []AckedSurvive
  OBVIOUS
<1>1. Spec => []LInv
  BY LInvAlways
<1>2. Init => AInv
  BY DEF Init, AInv, Landed
<1>3. LInv /\ AInv /\ [Next]_vars => AInv'
  BY NextAInv DEF LInv
<1>4. LInv /\ AInv => AckedSurvive
  <2> SUFFICES ASSUME LInv, AInv, mode = "open", NEW h \in acked PROVE ReadBlock(h) \in Block
    BY DEF AckedSurvive
  <2>1. MapContent = last /\ h \in Heights /\ last[h] \in Block
    BY SoloMapped DEF Mapped, LInv, YInv, KnownTyped, AInv
  <2> QED
    BY <2>1 DEF MapContent
<1> QED
  BY <1>1, <1>2, <1>3, <1>4, PTL DEF Spec

-----------------------------------------------------------------------------
(* The floor of a single writer's store, across crashes. *)

(* The floor and the highwater in the header of the index file can be relied upon. *)
Persisted == Trusted(header.highest_contiguous) /\ Reached(header.max_height)

(***************************************************************************)
(* The entry of h leads to a header, and the highwater knows of h or the   *)
(* scan, of this recovery or the next, will come to its block.             *)
(***************************************************************************)
Marked(h) ==
  /\ data[index[h].offset].kind = "header" /\ data[index[h].offset].height = h
  /\ h <= header.max_height \/ header.next_write_offset <= index[h].offset
  /\ mode \in Scans => h <= height_highwater \/ scan.next <= index[h].offset

(* What a writer is about to publish or to persist. *)
Snapped(w) ==
  /\ pc[w] = "publish" => header.next_write_offset <= job[w].offset
  /\ pc[w] \in {"loadfloor", "write"} =>
       Reached(snap[w].max_height) /\ \A h \in Heights : C!Present(h) => h <= snap[w].max_height
  /\ pc[w] = "write" => Trusted(snap[w].highest_contiguous)

GInv ==
  /\ FOpen /\ Persisted
  /\ \A h \in Heights : C!Present(h) => Marked(h)
  /\ mode \in Scans => Reached(height_highwater)
  /\ \A w \in Writers : Snapped(w)

(* What holds of a floor or a highwater stays true when entries are added. *)
LEMMA MoreEntries ==
  ASSUME \A h \in Heights : index[h] # NoEntry => index'[h] # NoEntry
  PROVE  \A f : (Trusted(f) => Trusted(f)') /\ (Reached(f) => Reached(f)')
<1>1. \A h : C!Present(h) => C!Present(h)'
  BY PresentStays
<1> QED
  BY <1>1 DEF Trusted, Reached, C!ContiguousTo

(* What the header says stays true. *)
LEMMA PersistedStays ==
  ASSUME Persisted, header' = header, \A h \in Heights : index[h] # NoEntry => index'[h] # NoEntry
  PROVE  Persisted'
<1>1. PICK f, t : /\ f = header.highest_contiguous /\ t = header.max_height
                  /\ f = header'.highest_contiguous /\ t = header'.max_height
  OBVIOUS
<1>2. Trusted(f)' /\ Reached(t)'
  BY <1>1, MoreEntries DEF Persisted
<1> QED
  BY <1>1, <1>2 DEF Persisted, Trusted, Reached, C!ContiguousTo, C!Present, C!ReadEntry

(* A header made from a floor and a highwater that can be relied upon. *)
LEMMA PersistedNew ==
  ASSUME NEW f, NEW t, Trusted(f), Reached(t), index' = index,
         header'.highest_contiguous = f, header'.max_height = t
  PROVE  Persisted'
<1>1. Trusted(f)' /\ Reached(t)'
  BY MoreEntries
<1> QED
  BY <1>1 DEF Persisted, Trusted, Reached, C!ContiguousTo, C!Present, C!ReadEntry

(* In an open store every entry leads to a header, behind the end of the log. *)
LEMMA EntryHeads ==
  Solo /\ LInv /\ mode = "open" =>
    \A h \in Heights : C!Present(h) =>
      /\ data[index[h].offset].kind = "header" /\ data[index[h].offset].height = h
      /\ Quiet => index[h].offset < data_highwater
<1> SUFFICES ASSUME Solo, LInv, mode = "open", NEW h \in Heights, C!Present(h)
             PROVE  /\ data[index[h].offset].kind = "header" /\ data[index[h].offset].height = h
                    /\ Quiet => index[h].offset < data_highwater
  OBVIOUS
<1>1. PICK S \in SUBSET Nat, E \in Nat : LogAt(S, E)
  BY DEF LInv
<1>2. Indexed(S, E, h, last[h]) /\ index[h] # NoEntry
  BY <1>1, PresentIs DEF LogAt, Restored
<1>3. PICK o, b : o = index[h].offset /\ o < E /\ data[o] = HeaderCell(h, b)
  BY <1>2 DEF Indexed, Rec, Written
<1>4. Quiet => data_highwater = E
  BY <1>1 DEF LogAt, Marks
<1> QED
  BY <1>3, <1>4 DEF HeaderCell

(* The same of the next state. *)
LEMMA EntryHeadsNext ==
  (Solo /\ LInv /\ mode = "open" =>
    \A h \in Heights : C!Present(h) =>
      /\ data[index[h].offset].kind = "header" /\ data[index[h].offset].height = h
      /\ Quiet => index[h].offset < data_highwater)'
BY EntryHeads, PTL

(* The mark in the header is not past the block that is being written. *)
LEMMA MarkBehind ==
  ASSUME LInv, NEW w \in Writers, pc[w] \in Holding
  PROVE  header.next_write_offset <= job[w].offset
<1>1. PICK S \in SUBSET Nat, E \in Nat : LogAt(S, E)
  BY DEF LInv
<1>2. job[w].offset = E /\ header.next_write_offset \in S /\ \A s \in S : s <= E
  BY <1>1 DEF LogAt, AtWork, Marks, Log
<1> QED
  BY <1>2

(* A step of the writer, by what it does to the header and to the snapshot. *)
LEMMA WriterG ==
  ASSUME Solo, MinHeight # 0, LInv, LInv', GInv, NEW w \in Writers,
         (\E h \in Heights, b \in Block : BeginWrite(w, h, b)) \/ WriterStep(w) \/ WriterFault(w),
         \A h \in Heights : index[h] # NoEntry => index'[h] # NoEntry, Persisted',
         \A h \in Heights : C!Present(h)' =>
           h <= header'.max_height \/ header'.next_write_offset <= index'[h].offset,
         Snapped(w)'
  PROVE  GInv'
<1>1. mode = "open" /\ mode' = "open" /\ SInv
  BY WriterSession DEF LInv, YInv
<1>2. FOpen'
  BY <1>1, WriterF DEF GInv
<1>3. \A h \in Heights : C!Present(h)' => Marked(h)'
  <2>1. \A h \in Heights : C!Present(h)' =>
          data'[index'[h].offset].kind = "header" /\ data'[index'[h].offset].height = h
    BY <1>1, EntryHeadsNext DEF Solo
  <2> QED
    BY <1>1, <2>1 DEF Marked, Scans
<1>4. \A v \in Writers : Snapped(v)'
  BY DEF Solo
<1> QED
  BY <1>1, <1>2, <1>3, <1>4 DEF GInv, Scans

(* The steps that touch neither the index nor its header. *)
LEMMA PlainG ==
  ASSUME Solo, MinHeight # 0, LInv, LInv', GInv, NEW w \in Writers,
         (\E h \in Heights, b \in Block : BeginWrite(w, h, b)) \/ WriterStep(w) \/ WriterFault(w),
         UNCHANGED <<index, header>>, Snapped(w)'
  PROVE  GInv'
<1>1. Persisted'
  BY PersistedStays DEF GInv
<1>2. \A h \in Heights : C!Present(h)' =>
           h <= header'.max_height \/ header'.next_write_offset <= index'[h].offset
  BY DEF GInv, Marked, C!Present, C!ReadEntry
<1>3. \A h \in Heights : index[h] # NoEntry => index'[h] # NoEntry
  OBVIOUS
<1> QED
  BY <1>1, <1>2, <1>3, WriterG

(* The steps after which the writer has nothing to persist yet, or any more. *)
LEMMA ElsewhereG ==
  ASSUME Solo, MinHeight # 0, LInv, LInv', GInv, NEW w \in Writers,
         \/ \E h \in Heights, b \in Block : BeginWrite(w, h, b)
         \/ Resolve(w) \/ WritePayload(w) \/ WriteHeader(w) \/ AdvanceFloor(w) \/ RaiseHighwater(w)
         \/ NoCheckpointDue(w) \/ CheckpointDue(w) \/ CheckpointStore(w) \/ WriterFault(w)
  PROVE  GInv'
<1>1. pc \in [Writers -> Stages]
  BY DEF LInv, YInv, SInv, LocalTypes
<1>2. UNCHANGED <<index, header>>
  BY DEF BeginWrite, BeginWriteOf, Resolve, WritePayload, WriteHeader, AdvanceFloor, RaiseHighwater,
         NoCheckpointDue, CheckpointDue, CheckpointStore, WriterFault, ResolveFails, PayloadFails,
         HeaderFails, ReleaseReservation, PublishFails, CheckpointFails, disk,
         C!CompareExchange, C!CascadeRead, C!CascadeExchange, C!UpdateHighwater
<1>3. Snapped(w)'
  <2>1. CASE WriteHeader(w)
    <3>1. pc[w] = "header" /\ job' = job /\ Goto(w, "publish")
      BY <2>1 DEF WriteHeader
    <3>2. pc'[w] = "publish"
      BY <1>1, <3>1 DEF Goto
    <3>3. header'.next_write_offset <= job'[w].offset
      BY <1>2, <3>1, MarkBehind DEF Holding
    <3> QED
      BY <3>2, <3>3 DEF Snapped
  <2>2. CASE AdvanceFloor(w)
    <3>1. pc'[w] = "advance"
      BY <2>2 DEF AdvanceFloor, local
    <3> QED
      BY <3>1 DEF Snapped
  <2>3. CASE ~WriteHeader(w) /\ ~AdvanceFloor(w)
    <3>1. PICK p \in Stages \ {"publish", "loadfloor", "write"} : Goto(w, p)
      BY <2>3 DEF BeginWrite, BeginWriteOf, Resolve, WritePayload, RaiseHighwater,
         NoCheckpointDue, CheckpointDue, CheckpointStore, WriterFault, ResolveFails, PayloadFails,
         HeaderFails, ReleaseReservation, PublishFails, CheckpointFails, BreakOff, ReturnOk,
         ReturnErr, Return, Stages
    <3>2. pc'[w] = p
      BY <1>1, <3>1 DEF Goto
    <3> QED
      BY <3>1, <3>2 DEF Snapped
  <2> QED
    BY <2>1, <2>2, <2>3
<1>4. (\E h \in Heights, b \in Block : BeginWrite(w, h, b)) \/ WriterStep(w) \/ WriterFault(w)
  BY DEF WriterStep
<1> QED
  BY <1>2, <1>3, <1>4, PlainG

(* The index entry lies past the mark in the header. *)
LEMMA PublishG ==
  ASSUME Solo, MinHeight # 0, LInv, LInv', GInv, NEW w \in Writers, Publish(w)
  PROVE  GInv'
<1>1. /\ pc[w] = "publish" /\ header' = header /\ Goto(w, "advance")
      /\ index' = [index EXCEPT ![job[w].height] =
                     [offset |-> job[w].offset, size |-> job[w].block.size]]
  BY DEF Publish, C!PublishEntry
<1>2. /\ pc \in [Writers -> Stages] /\ index \in [Heights -> Entry \union {NoEntry}]
      /\ job[w].height \in Heights /\ job[w].block.size \in Nat /\ job[w].block.size > 0
  BY <1>1, JobSpan DEF LInv, YInv, SInv, LocalTypes, DiskSound
<1>3. PICK h, e : /\ h = job[w].height /\ index' = [index EXCEPT ![h] = e]
                  /\ e.offset = job[w].offset /\ e # NoEntry /\ h \in Heights
  <2>1. PICK e : e = [offset |-> job[w].offset, size |-> job[w].block.size]
    OBVIOUS
  <2>2. e.offset = job[w].offset /\ e.size = job[w].block.size
    BY <2>1
  <2>3. e # NoEntry
    BY <1>2, <2>2 DEF NoEntry
  <2>4. index' = [index EXCEPT ![job[w].height] = e]
    BY <1>1, <2>1
  <2> HIDE DEF LInv, GInv
  <2> QED
    BY <1>2, <2>2, <2>3, <2>4
<1>4. index'[h] = e /\ \A g \in Heights : g # h => index'[g] = index[g]
  BY <1>2, <1>3
<1>5. \A g \in Heights : index[g] # NoEntry => index'[g] # NoEntry
  BY <1>3, <1>4
<1>6. Persisted'
  BY <1>1, <1>5, PersistedStays DEF GInv
<1>7. ASSUME NEW g \in Heights, C!Present(g)'
      PROVE  g <= header'.max_height \/ header'.next_write_offset <= index'[g].offset
  <2>1. CASE g = h
    BY <1>1, <1>3, <1>4, <2>1 DEF GInv, Snapped
  <2>2. CASE g # h
    <3>1. index'[g] = index[g]
      BY <1>4, <2>2
    <3>2. C!Present(g)
      BY <1>7, <3>1 DEF C!Present, C!ReadEntry
    <3> QED
      BY <1>1, <3>1, <3>2 DEF GInv, Marked
  <2> QED
    BY <2>1, <2>2
<1>8. Snapped(w)'
  <2>1. pc'[w] = "advance"
    BY <1>1, <1>2 DEF Goto
  <2> QED
    BY <2>1 DEF Snapped
<1>9. WriterStep(w)
  BY DEF WriterStep
<1> QED
  BY <1>5, <1>6, <1>7, <1>8, <1>9, WriterG

(* What a checkpoint loads is exact, as nobody else writes. *)
LEMMA CheckpointLoadG ==
  ASSUME Solo, MinHeight # 0, LInv, LInv', GInv, NEW w \in Writers, CheckpointLoad(w)
  PROVE  GInv'
<1>1. /\ pc \in [Writers -> Stages] /\ UNCHANGED <<index, header>>
      /\ snap \in [Writers -> [max_height : HeightOrNone, highest_contiguous : HeightOrNone]]
      /\ pc[w] # "advance" /\ pc[w] # "idle" /\ SInv
  BY DEF CheckpointLoad, disk, LInv, YInv, SInv, LocalTypes, HeaderTyped
<1>2. Resume(max_contiguous_height, height_highwater)
  <2>1. mode = "open"
    BY <1>1, WriterOpen
  <2>2. \A v \in Writers : pc[v] # "advance"
    BY <1>1 DEF Solo
  <2> QED
    BY <2>1, <2>2, QuietFloor DEF GInv
<1>3. \A f : (Trusted(f) => Trusted(f)') /\ (Reached(f) => Reached(f)')
  BY <1>1, MoreEntries
<1>4. \A h \in Heights : C!Present(h)' => C!Present(h)
  BY <1>1 DEF C!Present, C!ReadEntry
<1>5. Snapped(w)'
  <2>1. CASE pc[w] = "load"
    <3>1. PICK t : t = height_highwater
      OBVIOUS
    <3>2. pc'[w] = "loadfloor" /\ snap'[w].max_height = t
      BY <1>1, <2>1, <3>1 DEF CheckpointLoad, Goto
    <3>3. Reached(t)' /\ \A h \in Heights : C!Present(h)' => h <= t
      BY <1>2, <1>3, <1>4, <3>1 DEF Resume
    <3>4. Reached(snap[w].max_height)'
      BY <3>2, <3>3 DEF Reached, C!Present, C!ReadEntry
    <3> QED
      BY <3>2, <3>3, <3>4 DEF Snapped
  <2>2. CASE pc[w] = "loadfloor"
    <3>1. PICK t, f : t = snap[w].max_height /\ f = max_contiguous_height
      OBVIOUS
    <3>2. pc'[w] = "write" /\ snap'[w].max_height = t /\ snap'[w].highest_contiguous = f
      BY <1>1, <2>2, <3>1 DEF CheckpointLoad, Goto
    <3>3. Reached(t)' /\ \A h \in Heights : C!Present(h)' => h <= t
      BY <1>3, <1>4, <2>2, <3>1 DEF GInv, Snapped
    <3>4. Trusted(f)'
      BY <1>2, <1>3, <3>1 DEF Resume
    <3>5. Reached(snap[w].max_height)' /\ Trusted(snap[w].highest_contiguous)'
      BY <3>2, <3>3, <3>4 DEF Reached, Trusted, C!ContiguousTo, C!Present, C!ReadEntry
    <3> QED
      BY <3>2, <3>3, <3>5 DEF Snapped
  <2> QED
    BY <2>1, <2>2 DEF CheckpointLoad
<1>6. WriterStep(w)
  BY DEF WriterStep
<1> QED
  BY <1>1, <1>5, <1>6, PlainG

(* The header that a checkpoint writes knows of every entry. *)
LEMMA CheckpointWriteG ==
  ASSUME Solo, MinHeight # 0, LInv, LInv', GInv, NEW w \in Writers, CheckpointWrite(w)
  PROVE  GInv'
<1>1. /\ pc \in [Writers -> Stages] /\ index' = index /\ pc[w] = "write" /\ Goto(w, "store")
      /\ header' = [next_write_offset |-> job[w].saved, max_height |-> snap[w].max_height,
                    highest_contiguous |-> snap[w].highest_contiguous]
  BY DEF CheckpointWrite, LInv, YInv, SInv, LocalTypes
<1>2. PICK f, t : f = snap[w].highest_contiguous /\ t = snap[w].max_height
  OBVIOUS
<1>3. Trusted(f) /\ Reached(t) /\ \A h \in Heights : C!Present(h) => h <= t
  BY <1>1, <1>2 DEF GInv, Snapped
<1>4. Persisted'
  BY <1>1, <1>2, <1>3, PersistedNew
<1>5. \A h \in Heights : C!Present(h)' => h <= header'.max_height
  BY <1>1, <1>2, <1>3 DEF C!Present, C!ReadEntry
<1>6. Snapped(w)'
  <2>1. pc'[w] = "store"
    BY <1>1 DEF Goto
  <2> QED
    BY <2>1 DEF Snapped
<1>7. WriterStep(w) /\ \A h \in Heights : index[h] # NoEntry => index'[h] # NoEntry
  BY <1>1 DEF WriterStep
<1> QED
  BY <1>4, <1>5, <1>6, <1>7, WriterG

(* A closed store has nothing to say of its floor but what the header says. *)
LEMMA ClosedG ==
  ASSUME mode' # "open", pc' = [w \in Writers |-> "idle"],
         at' = [w \in Writers |-> "idle"], height' = [w \in Writers |-> MinHeight],
         prev' = [w \in Writers |-> 0]
  PROVE  FOpen' /\ \A w \in Writers : Snapped(w)'
BY DEF FOpen, Snapped

(* A step of a recovery leaves the writers alone. *)
LEMMA RestG ==
  ASSUME SInv, FOpen, mode # "open", mode' # "open", UNCHANGED <<at, height, prev, pc>>
  PROVE  FOpen' /\ \A w \in Writers : Snapped(w)'
<1>1. \A w \in Writers : pc[w] = "idle"
  BY DEF SInv, Closed, AllIdle
<1> QED
  BY <1>1 DEF FOpen, Snapped

(* Drop persists the exact floor and the exact highwater. *)
LEMMA CloseG ==
  ASSUME Solo, MinHeight # 0, LInv, GInv, Close
  PROVE  GInv'
<1>1. /\ mode = "open" /\ AllIdle /\ index' = index /\ data' = data /\ mode' = "down"
      /\ pc' = [w \in Writers |-> "idle"]
      /\ at' = [w \in Writers |-> "idle"] /\ height' = [w \in Writers |-> MinHeight]
      /\ prev' = [w \in Writers |-> 0]
      /\ \/ header' = header
         \/ header' = [next_write_offset |-> data_highwater, max_height |-> height_highwater,
                       highest_contiguous |-> max_contiguous_height]
  BY DEF Close, MemoryGone
<1>2. FOpen' /\ \A w \in Writers : Snapped(w)'
  BY <1>1, ClosedG
<1>3. Resume(max_contiguous_height, height_highwater)
  BY <1>1, QuietFloor DEF GInv, AllIdle
<1>4. Persisted' /\ \A h \in Heights : C!Present(h) =>
        h <= header'.max_height \/ header'.next_write_offset <= index[h].offset
  <2>1. CASE header' = header
    BY <1>1, <2>1, PersistedStays DEF GInv, Marked
  <2>2. CASE header' = [next_write_offset |-> data_highwater, max_height |-> height_highwater,
                        highest_contiguous |-> max_contiguous_height]
    <3>1. PICK f, t : /\ f = max_contiguous_height /\ t = height_highwater
                      /\ header'.highest_contiguous = f /\ header'.max_height = t
      BY <2>2
    <3>2. Trusted(f) /\ Reached(t) /\ \A h \in Heights : C!Present(h) => h <= t
      BY <1>3, <3>1 DEF Resume
    <3> QED
      BY <1>1, <3>1, <3>2, PersistedNew
  <2> QED
    BY <1>1, <2>1, <2>2
<1>5. \A h \in Heights : C!Present(h)' => Marked(h)'
  BY <1>1, <1>4 DEF GInv, Marked, Scans, C!Present, C!ReadEntry
<1> QED
  BY <1>1, <1>2, <1>4, <1>5 DEF GInv, Scans

(* A crash leaves the files as they are. *)
LEMMA CrashG ==
  ASSUME GInv, Crash
  PROVE  GInv'
<1>1. /\ UNCHANGED <<index, data, header>> /\ mode' = "down"
      /\ pc' = [w \in Writers |-> "idle"]
      /\ at' = [w \in Writers |-> "idle"] /\ height' = [w \in Writers |-> MinHeight]
      /\ prev' = [w \in Writers |-> 0]
  BY DEF Crash, MemoryGone, disk
<1>2. FOpen' /\ \A w \in Writers : Snapped(w)'
  BY <1>1, ClosedG
<1>3. Persisted'
  BY <1>1, PersistedStays DEF GInv
<1>4. \A h \in Heights : C!Present(h)' => Marked(h)'
  BY <1>1 DEF GInv, Marked, Scans, C!Present, C!ReadEntry
<1> QED
  BY <1>1, <1>2, <1>3, <1>4 DEF GInv, Scans

(* The scan starts from the highwater and the mark in the header. *)
LEMMA OpenG ==
  ASSUME LInv, LInv', GInv, Open
  PROVE  GInv'
<1>1. /\ mode = "down" /\ mode' = "recovering" /\ scan'.next = header.next_write_offset
      /\ height_highwater' = header.max_height
      /\ UNCHANGED <<index, data, header, at, height, prev, pc>>
  BY DEF Open, disk, local, LInv
<1>2. FOpen' /\ \A w \in Writers : Snapped(w)'
  BY <1>1, RestG DEF LInv, YInv, GInv
<1>3. Persisted'
  BY <1>1, PersistedStays DEF GInv
<1>4. Reached(height_highwater)'
  <2>1. height_highwater' = header'.max_height
    BY <1>1
  <2> QED
    BY <1>3, <2>1 DEF Persisted, Reached, C!Present, C!ReadEntry
<1>5. \A h \in Heights : C!Present(h)' => Marked(h)'
  BY <1>1 DEF GInv, Marked, C!Present, C!ReadEntry
<1> QED
  BY <1>2, <1>3, <1>4, <1>5 DEF GInv

(* A progress checkpoint persists the highwater and the place of the scan together. *)
LEMMA CheckpointProgressG ==
  ASSUME LInv, GInv, CheckpointProgress
  PROVE  GInv'
<1>1. scan \in Scan /\ DOMAIN header = {"next_write_offset", "max_height", "highest_contiguous"}
      /\ SInv
  BY DEF LInv, YInv, SInv, LocalTypes, DiskSound
<1>2. /\ mode = "progress" /\ mode' = "recovering" /\ scan'.next = scan.next
      /\ header'.next_write_offset = scan.next /\ header'.max_height = height_highwater
      /\ header'.highest_contiguous = header.highest_contiguous
      /\ height_highwater' = height_highwater
      /\ UNCHANGED <<index, data, at, height, prev, pc>>
  BY <1>1 DEF CheckpointProgress, Scan, local, floor
<1>3. FOpen' /\ \A w \in Writers : Snapped(w)'
  BY <1>1, <1>2, RestG DEF GInv
<1>4. PICK f, t : /\ f = header.highest_contiguous /\ t = height_highwater
                  /\ header'.highest_contiguous = f /\ header'.max_height = t
                  /\ height_highwater' = t
  BY <1>2
<1>5. Trusted(f) /\ Reached(t)
  BY <1>2, <1>4 DEF GInv, Persisted, Scans
<1>6. Persisted'
  BY <1>2, <1>4, <1>5, PersistedNew
<1>7. Reached(height_highwater)'
  BY <1>4, <1>6 DEF Persisted, Reached, C!Present, C!ReadEntry
<1>8. \A h \in Heights : C!Present(h)' => Marked(h)'
  BY <1>2 DEF GInv, Marked, Scans, C!Present, C!ReadEntry
<1> QED
  BY <1>3, <1>6, <1>7, <1>8 DEF GInv

(* The scan has passed the block of no entry that the highwater does not know of. *)
LEMMA RecoverBlockG ==
  ASSUME Solo, MinHeight # 0, LInv, GInv, RecoverBlock
  PROVE  GInv'
<1>1. Scanning /\ BlockNext /\ mode = "recovering" /\ scan \in Scan /\ SInv
      /\ index \in [Heights -> Entry \union {NoEntry}] /\ height_highwater \in HeightOrNone
  BY DEF RecoverBlock, Scanning, LInv, YInv, SInv, LocalTypes, DiskSound, FloorTyped
<1>2. PICK h \in Heights, b \in Block :
           /\ HeaderRead = HeaderCell(h, b) /\ HeaderRead.height = h /\ HeaderRead.block = b
           /\ scan.next \in Offsets /\ data[scan.next] = HeaderCell(h, b)
           /\ HeaderAt(scan.next, h, b) /\ Intact(scan.next, h, b)
  BY <1>1, ScanAccepts
<1>3. PICK n \in Nat : /\ n = scan.next /\ data[n] = HeaderCell(h, b)
                       /\ HeaderAt(n, h, b) /\ Intact(n, h, b)
  BY <1>2, OffsetFacts
<1>4. PICK e : e = [offset |-> n, size |-> b.size]
  OBVIOUS
<1>5. e.offset = n /\ e.size = b.size /\ e # NoEntry /\ b.size \in Nat /\ b.size > 0
  BY <1>4, BlockFacts DEF NoEntry
<1>6. PICK t : t = height_highwater /\ t \in HeightOrNone /\ t \in Nat /\ h \in Nat
  BY <1>1, HeightTypes
<1>7. PICK u \in Nat : u = (IF t < h THEN h ELSE t)
  BY <1>6
<1>8. /\ index' = [index EXCEPT ![h] = e] /\ scan'.next = n + HeaderSize + b.size /\ mode' \in Scans
      /\ UNCHANGED <<header, data, at, height, prev, pc>>
      /\ height_highwater' = u
  <2>1. /\ index' = [index EXCEPT ![h] = e] /\ mode' \in Scans
        /\ UNCHANGED <<header, data, at, height, prev, pc>>
    BY <1>2, <1>3, <1>4 DEF RecoverBlock, Scans, local
  <2>2. scan'.next = n + HeaderSize + b.size
    BY <1>1, <1>2, <1>3 DEF RecoverBlock, Scan
  <2>3. height_highwater' = u
    BY <1>2, <1>6, <1>7 DEF RecoverBlock, Larger
  <2> QED
    BY <2>1, <2>2, <2>3
<1>9. index'[h] = e /\ \A g \in Heights : g # h => index'[g] = index[g]
  BY <1>1, <1>8
<1>10. \A g \in Heights : index[g] # NoEntry => index'[g] # NoEntry
  BY <1>5, <1>9
<1>11. FOpen' /\ \A w \in Writers : Snapped(w)'
  BY <1>1, <1>8, RestG DEF GInv, Scans
<1>12. Persisted'
  BY <1>8, <1>10, PersistedStays DEF GInv
<1>13. Reached(u)'
  <2>1. Reached(t)'
    BY <1>1, <1>6, <1>10, MoreEntries DEF GInv, Scans
  <2>2. Reached(h)'
    <3>1. C!Present(h)'
      BY <1>5, <1>9 DEF C!Present, C!ReadEntry, C!Heights, Heights
    <3> QED
      BY <3>1, HeightTypes DEF Reached
  <2> QED
    BY <1>7, <2>1, <2>2
<1>14. Reached(height_highwater)'
  BY <1>8, <1>13 DEF Reached, C!Present, C!ReadEntry
<1>15. PICK m \in Nat : m = header.next_write_offset /\ m <= n
  <2>1. PICK S \in SUBSET Nat, E \in Nat : LogAt(S, E)
    BY DEF LInv
  <2> QED
    BY <1>1, <1>3, <2>1 DEF LogAt, Marks, Scans
<1>16. ASSUME NEW g \in Heights, C!Present(g)'
       PROVE  Marked(g)'
  <2>1. CASE g = h
    <3>1. data[n].kind = "header" /\ data[n].height = h
      BY <1>3 DEF HeaderCell
    <3>2. h <= u
      BY <1>6, <1>7
    <3>3. index'[g].offset = n
      BY <1>5, <1>9, <2>1
    <3> QED
      BY <1>8, <1>15, <2>1, <3>1, <3>2, <3>3 DEF Marked
  <2>2. CASE g # h
    <3>1. index'[g] = index[g]
      BY <1>9, <2>2
    <3>2. C!Present(g)
      BY <1>16, <3>1 DEF C!Present, C!ReadEntry
    <3>3. PICK k \in Nat : k = index[g].offset
      <4>1. index[g] \in Entry
        BY <1>1, <3>2, PresentIs
      <4> QED
        BY <4>1, OffsetFacts DEF Entry
    <3>4. /\ data[k].kind = "header" /\ data[k].height = g
          /\ g <= header.max_height \/ m <= k
          /\ g <= t \/ n <= k
      BY <1>1, <1>3, <1>6, <1>15, <3>2, <3>3 DEF GInv, Marked, Scans
    <3>5. n <= k => n + HeaderSize + b.size <= k
      <4>1. k # n
        BY <1>3, <2>2, <3>4 DEF HeaderCell
      <4>2. \A i \in 1 .. b.size : k # n + HeaderSize - 1 + i
        BY <1>3, <3>4, CellsDiffer DEF Intact
      <4>3. \A i \in 1 .. HeaderSize - 1 : k # n + i
        <5> SUFFICES ASSUME NEW i \in 1 .. HeaderSize - 1, k = n + i PROVE FALSE
          OBVIOUS
        <5>1. i \in 0 .. HeaderSize - 1 /\ i # 0
          OBVIOUS
        <5>2. data[k] = HeaderPart(h, b, i)
          BY <1>3, <5>1 DEF HeaderAt
        <5> QED
          BY <3>4, <5>1, <5>2, CellsDiffer
      <4>4. SUFFICES ASSUME n < k, ~(n + HeaderSize + b.size <= k) PROVE FALSE
        BY <4>1
      <4>5. CASE k < n + HeaderSize
        <5>1. k - n \in 1 .. HeaderSize - 1 /\ k = n + (k - n)
          BY <4>4, <4>5
        <5> QED
          BY <4>3, <5>1
      <4>6. CASE ~(k < n + HeaderSize)
        <5>1. PICK i \in 1 .. b.size : k = n + HeaderSize - 1 + i
          <6>1. k - (n + HeaderSize - 1) \in 1 .. b.size
                /\ k = n + HeaderSize - 1 + (k - (n + HeaderSize - 1))
            BY <1>5, <4>4, <4>6
          <6> QED
            BY <6>1
        <5> QED
          BY <4>2, <5>1
      <4> QED
        BY <4>5, <4>6
    <3>6. g <= t => g <= u
      <4>1. g \in Nat
        BY HeightTypes
      <4> QED
        BY <1>6, <1>7, <4>1
    <3> QED
      BY <1>8, <1>15, <3>1, <3>3, <3>4, <3>5, <3>6 DEF Marked
  <2> QED
    BY <2>1, <2>2
<1> QED
  BY <1>11, <1>12, <1>14, <1>16 DEF GInv

(* At the end of the scan the highwater knows of every entry, so the floor is found. *)
LEMMA FinishRecoveryG ==
  ASSUME Solo, MinHeight # 0, LInv, LInv', GInv, FinishRecovery
  PROVE  GInv'
<1>1. /\ mode = "recovering" /\ mode' = "open" /\ data_highwater' = scan.next
      /\ UNCHANGED <<index, header, data, pc>> /\ SInv
  BY DEF FinishRecovery, FinishAs, disk, local, LInv, YInv
<1>2. \A w \in Writers : pc'[w] = "idle"
  BY <1>1 DEF SInv, Closed, AllIdle
<1>3. \A h \in Heights : C!Present(h)' =>
        /\ data'[index'[h].offset].kind = "header" /\ data'[index'[h].offset].height = h
        /\ index'[h].offset < data_highwater'
  <2>1. Quiet'
    BY <1>1, <1>2 DEF Quiet, Holding
  <2> QED
    BY <1>1, <2>1, EntryHeadsNext DEF Solo
<1>4. \A h \in Heights : C!Present(h)' <=> C!Present(h)
  BY <1>1 DEF C!Present, C!ReadEntry
<1>5. ASSUME NEW h \in Heights, C!Present(h) PROVE h <= height_highwater
  <2>1. h <= height_highwater \/ scan.next <= index[h].offset
    BY <1>1, <1>5 DEF GInv, Marked, Scans
  <2>2. index[h].offset < scan.next
    BY <1>1, <1>3, <1>4, <1>5
  <2>3. index[h].offset \in Nat /\ scan.next \in Nat
    <3>1. index[h] \in Entry /\ scan \in Scan
      BY <1>1, <1>5, PresentIs DEF SInv, DiskSound, LocalTypes
    <3>2. scan.next \in Nat
      BY <3>1 DEF Scan
    <3> QED
      BY <3>1, <3>2, OffsetFacts DEF Entry
  <2> QED
    BY <2>1, <2>2, <2>3
<1>6. Resume(header.highest_contiguous, height_highwater)
  BY <1>1, <1>5 DEF Resume, GInv, Persisted, Scans
<1>7. FOpen'
  BY <1>1, <1>6, FinishRecoveryF DEF GInv
<1>8. Persisted'
  BY <1>1, PersistedStays DEF GInv
<1>9. \A h \in Heights : C!Present(h)' => Marked(h)'
  BY <1>1, <1>3, <1>4 DEF GInv, Marked, Scans
<1>10. \A w \in Writers : Snapped(w)'
  BY <1>2 DEF Snapped
<1> QED
  BY <1>1, <1>7, <1>8, <1>9, <1>10 DEF GInv, Scans

(* An empty store. *)
LEMMA InitGInv == ASSUME MinHeight # 0, Init PROVE GInv
<1>1. FOpen
  BY InitFOpen
<1>2. /\ mode = "open" /\ index = [h \in Heights |-> NoEntry]
      /\ header.max_height = NoSnap.max_height
      /\ header.highest_contiguous = NoSnap.highest_contiguous
      /\ \A w \in Writers : pc[w] = "idle"
  BY DEF Init, NoSnap
<1>3. \A h \in Heights : ~C!Present(h)
  BY <1>2, PresentIs
<1>4. Persisted
  <2>1. PICK f, t : f = header.highest_contiguous /\ t = header.max_height
    OBVIOUS
  <2>2. f \in HeightOrNone /\ t \in HeightOrNone /\ ~(f > C!FloorIfEmpty) /\ ~(t > C!FloorIfEmpty)
    BY <2>1, HeightTypes DEF Init, HeightOrNone
  <2> QED
    BY <2>1, <2>2 DEF Persisted, Trusted, Reached
<1> QED
  BY <1>1, <1>2, <1>3, <1>4 DEF GInv, Snapped, Scans

(* A stuttering step. *)
LEMMA StutterG == ASSUME SInv, GInv, UNCHANGED vars PROVE GInv'
<1>1. UNCHANGED <<mode, index, data, header, floor, pc, job, snap, scan>>
  BY DEF vars, disk, session, local
<1>2. FOpen'
  <2>1. CASE mode = "open"
    BY <1>1, <2>1, FloorSame DEF GInv
  <2>2. CASE mode # "open"
    BY <1>1, <2>2, RestG DEF floor, GInv
  <2> QED
    BY <2>1, <2>2
<1>3. Persisted'
  BY <1>1, PersistedStays DEF GInv
<1>4. \A h \in Heights : C!Present(h)' => Marked(h)'
  BY <1>1 DEF GInv, Marked, floor, C!Present, C!ReadEntry
<1>5. mode' \in Scans => Reached(height_highwater)'
  BY <1>1 DEF GInv, floor, Reached, C!Present, C!ReadEntry
<1>6. \A w \in Writers : Snapped(w)'
  BY <1>1 DEF GInv, Snapped, Trusted, Reached, C!ContiguousTo, C!Present, C!ReadEntry
<1> QED
  BY <1>2, <1>3, <1>4, <1>5, <1>6 DEF GInv

(* Every step keeps what is known of the floor. *)
LEMMA NextGInv ==
  ASSUME Solo, MinHeight # 0, LInv, LInv', GInv, [Next]_vars
  PROVE  GInv'
<1>1. ASSUME NEW w \in Writers,
             (\E h \in Heights, b \in Block : BeginWrite(w, h, b)) \/ WriterStep(w) \/ WriterFault(w)
      PROVE  GInv'
  <2>1. CASE CheckpointLoad(w)
    BY <2>1, CheckpointLoadG
  <2>2. CASE CheckpointWrite(w)
    BY <2>2, CheckpointWriteG
  <2>3. CASE Publish(w)
    BY <2>3, PublishG
  <2>4. CASE \/ \E h \in Heights, b \in Block : BeginWrite(w, h, b)
             \/ Resolve(w) \/ WritePayload(w) \/ WriteHeader(w) \/ AdvanceFloor(w)
             \/ RaiseHighwater(w) \/ NoCheckpointDue(w) \/ CheckpointDue(w)
             \/ CheckpointStore(w) \/ WriterFault(w)
    BY <2>4, ElsewhereG
  <2> QED
    BY <1>1, <2>1, <2>2, <2>3, <2>4 DEF WriterStep
<1>2. ~ScanNextFile
  BY DEF ScanNextFile, Solo
<1>3. UNCHANGED vars => GInv'
  BY StutterG DEF LInv, YInv
<1> QED
  BY <1>1, <1>2, <1>3, CloseG, CrashG, OpenG, RecoverBlockG, CheckpointProgressG, FinishRecoveryG
     DEF Next, RecoveryStep

(* What is known of the floor of a single writer's store holds in every state. *)
THEOREM GInvAlways == Solo /\ MinHeight # 0 => (Spec => [](LInv /\ GInv))
<1> SUFFICES ASSUME Solo, MinHeight # 0 PROVE Spec => [](LInv /\ GInv)
  OBVIOUS
<1>1. Init => LInv /\ GInv
  BY InitLInv, InitGInv
<1>2. LInv /\ GInv /\ [Next]_vars => LInv' /\ GInv'
  BY NextLInv, NextGInv
<1> QED
  BY <1>1, <1>2, PTL DEF Spec

(***************************************************************************)
(* Whatever fails and whenever the process dies, in a recovery too, every  *)
(* height up to max_contiguous_height can be read: the floor that recover  *)
(* takes from an old checkpoint, after it has rebuilt some entries, is     *)
(* never past a gap.                                                       *)
(***************************************************************************)
THEOREM SoloFloorReadable == Solo /\ MinHeight # 0 => (Spec => []FloorReadable)
<1> SUFFICES ASSUME Solo, MinHeight # 0 PROVE Spec => []FloorReadable
  OBVIOUS
<1>1. LInv /\ GInv => FloorReadable
  <2> SUFFICES ASSUME LInv, GInv, mode = "open", max_contiguous_height > C!FloorIfEmpty,
                      NEW h \in MinHeight .. max_contiguous_height
               PROVE  ReadBlock(h) \in Block
    BY DEF FloorReadable
  <2>1. CP!Present(h)
    BY FloorDefs DEF GInv, FOpen, CP!CInv, CP!FloorSound, CP!ContiguousTo
  <2>2. h \in Heights /\ index[h] # NoEntry
    BY <2>1, FloorDefs, PresentIs
  <2>3. PICK S \in SUBSET Nat, E \in Nat : LogAt(S, E)
    BY DEF LInv
  <2>4. Indexed(S, E, h, last[h])
    BY <2>2, <2>3 DEF LogAt, Restored
  <2>5. last[h] \in Block
    BY <2>2, <2>4 DEF Indexed
  <2> QED
    BY <2>2, <2>4, <2>5, ReadIsIndexed
<1> QED
  BY <1>1, GInvAlways, PTL

(***************************************************************************)
(* And while no write is in progress it is the highest such height: no     *)
(* crash, however often and wherever, makes the store forget a block below *)
(* its first gap, and the highwater is not below the floor.                *)
(***************************************************************************)
THEOREM SoloFloorComplete == Solo /\ MinHeight # 0 => (Spec => []FloorComplete)
<1> SUFFICES ASSUME Solo, MinHeight # 0 PROVE Spec => []FloorComplete
  OBVIOUS
<1>1. LInv /\ GInv => FloorComplete
  BY QuietComplete DEF GInv
<1> QED
  BY <1>1, GInvAlways, PTL

=============================================================================
