--------------------------- MODULE PowerLossProofs ---------------------------
(***************************************************************************)
(* Theorems about loss of power, for every number of blocks, heights,      *)
(* losses and crashes: in SyncMode::Sync, with one writer, and when a      *)
(* store is opened after a crash only once its data file was written back, *)
(* no acknowledged block and no height below the floor is ever lost.  Each *)
(* of the three hypotheses is needed (README, section 4).                  *)
(***************************************************************************)
EXTENDS PowerLoss, OrderLemmas

Cells == Record \union {NoBlock, Torn}
Header == [min : 0 .. 1, next : 0 .. MaxOffset, max : 0 .. MaxHeight, floor : 0 .. MaxHeight]
IndexFile == [Rows -> 0 .. MaxOffset]
Job == [stage : {"idle", "write", "sync", "index", "advance", "checkpoint", "header"},
        height : 0 .. MaxHeight, block : Blocks \union {NoBlock}, offset : 0 .. MaxOffset]

PTypeOK ==
  /\ data \in [Slots -> Cells] /\ index \in IndexFile /\ header \in Header
  /\ disk \in [data : [Slots -> Cells], index : IndexFile, header : Header]
  /\ at \in {"open", "closing", "closed", "scan", "progress", "persist", "refused"}
  /\ mem \in Header /\ highwater \in 0 .. MaxOffset /\ lastcp \in 0 .. MaxOffset
  /\ job \in [Writers -> Job]
  /\ last \in [Heights -> Blocks \union {NoBlock}]
  /\ loose \in [Heights -> SUBSET Blocks]

-----------------------------------------------------------------------------
(***************************************************************************)
(* The data file up to a frontier n, as D in the page cache and E on the   *)
(* disk; Z are the blocks whose writes were cut off, L those acknowledged. *)
(* Below n every slot holds a block, on the disk as in the page cache;     *)
(* above n there is nothing.  What is at n itself, if it is a block, is    *)
(* one whose write was cut off.                                            *)
(***************************************************************************)
CutOff(c, Z) == c \in Record => c.block \in Z[c.height]

Frontier(D, E, Z, n) ==
  /\ \A p \in Slots : p < n => D[p] \in Record /\ E[p] = D[p]
  /\ \A p \in Slots : p > n => D[p] = NoBlock /\ E[p] = NoBlock
  /\ n \in Slots => CutOff(D[n], Z) /\ CutOff(E[n], Z)

NotWhole(D, E, n) == n \in Slots => D[n] \notin Record /\ E[n] \notin Record

(* The index file J as a store reads it that takes z for its min_height. *)
View(J, z) == [h \in Heights |-> J[h - z]]

(* The entries of V lead to what is below n. *)
Within(V, n) == \A h \in Heights : V[h] <= n

(* When z is the min_height that the store was created with, to blocks of their heights. *)
Straight(D, V, z) == z = 1 => \A h \in Heights : V[h] # 0 => D[V[h] - 1].height = h

(* No block below n is missing from V or hidden by the entry of an older one. *)
Covers(D, V, n) ==
  \A p \in Slots : p < n => p < V[D[p].height] /\ D[V[D[p].height] - 1].height = D[p].height

(* The newest block below n of each height is one that a read may return. *)
Newest(D, p, n) == p < n /\ \A q \in Slots : p < q /\ q < n => D[q].height # D[p].height

Fate(D, L, Z, n) ==
  /\ \A p \in Slots : Newest(D, p, n) => D[p].block \in {L[D[p].height]} \union Z[D[p].height]
  /\ \A h \in Heights : (\A p \in Slots : p < n => D[p].height # h) => L[h] = NoBlock

Published(n, z) ==
  /\ Within(View(index, z), n) /\ Covers(data, View(index, z), n) /\ Fate(data, last, loose, n)

(* The heights up to f have entries in V. *)
Founded(V, f) == \A h \in Heights : h <= f => V[h] # 0

(* A header that was written has the min_height of the store. *)
Agrees(k, z) == k = ZeroHeader \/ k.min = z

(***************************************************************************)
(* A header, in the page cache or on the disk, is never ahead of the       *)
(* entries on the disk: recovery finds again what lies past it.  Entries   *)
(* are never cleared, and a header that was lost is on neither of the two. *)
(***************************************************************************)
Indexed(J, n, z) ==
  /\ \A r \in Rows : J[r] <= n
  /\ Straight(data, View(J, z), z)
  /\ Covers(data, View(J, z), header.next)
  /\ Founded(View(J, z), header.floor) /\ Founded(View(J, z), disk.header.floor)

Persisted(n, z) ==
  /\ Frontier(data, disk.data, loose, n) /\ Fate(data, last, loose, n)
  /\ header.next <= n /\ disk.header.next <= header.next
  /\ Agrees(header, z) /\ Agrees(disk.header, z)
  /\ header = ZeroHeader => disk.header = ZeroHeader
  /\ \A r \in Rows : disk.index[r] # 0 => index[r] # 0
  /\ \A J \in {index, disk.index} : Indexed(J, n, z)

-----------------------------------------------------------------------------
(* What a writer is doing, with the frontier at n. *)

RecordOf(j) == [height |-> j.height, block |-> j.block]

Working(j, n, z) ==
  /\ j.stage # "idle" => j.height \in Heights /\ j.block \in Blocks
  /\ j.stage = "idle" => j = Idle /\ highwater = n /\ NotWhole(data, disk.data, n) /\ Published(n, z)
  /\ j.stage \in {"write", "sync"} =>
       /\ j.offset = n /\ highwater = n + 1 /\ Published(n, z) /\ j.block \in loose[j.height]
       /\ IF j.stage = "write" THEN NotWhole(data, disk.data, n)
          ELSE data[n] = RecordOf(j) /\ disk.data[n] \in {NoBlock, Torn, data[n]}
  /\ j.stage \in {"index", "advance", "checkpoint", "header"} =>
       /\ j.offset + 1 = n /\ highwater = n /\ NotWhole(data, disk.data, n)
       /\ data[j.offset] = RecordOf(j)
       /\ Published(IF j.stage = "index" THEN j.offset ELSE n, z)
  /\ j.stage = "header" => disk.index = index

Session(n, z) ==
  /\ IF at = "closed" THEN header.min = z ELSE mem.min = z
  /\ at = "open" => Founded(View(index, z), mem.floor) /\ \A w \in Writers : Working(job[w], n, z)
  /\ at = "closing" =>
       /\ highwater = n /\ NotWhole(data, disk.data, n) /\ Published(n, z)
       /\ Founded(View(index, z), mem.floor) /\ disk.index = index
  /\ at # "open" => job = [w \in Writers |-> Idle]
  /\ at \in {"scan", "progress", "persist"} =>
       /\ header.next <= mem.next /\ mem.next <= n
       /\ NotWhole(data, disk.data, n) /\ disk.data = data
       /\ Covers(data, View(index, z), mem.next) /\ mem.floor = header.floor
  /\ at \in {"progress", "persist"} => mem.next # 0
  /\ at = "persist" => disk.index = index
  /\ at # "refused"

PInv == PTypeOK /\ \E n \in 0 .. MaxOffset, z \in 0 .. 1 : Persisted(n, z) /\ Session(n, z)

-----------------------------------------------------------------------------
(* How an index file is read. *)

Entries == [Heights -> 0 .. MaxOffset]

(* A view of an index file has an entry of the file for every height. *)
LEMMA ViewFile ==
  ASSUME NEW J \in IndexFile, NEW z \in 0 .. 1
  PROVE  /\ View(J, z) \in Entries
         /\ \A h \in Heights : View(J, z)[h] = J[h - z] /\ h - z \in Rows
BY PowerLossAssumption DEF View, IndexFile, Entries, Heights, Rows

(* The climb ends at or above where it began, on a run of entries. *)
LEMMA ClimbFounded ==
  ASSUME PTypeOK, NEW z \in 0 .. 1, mem.min = z,
         NEW f \in 0 .. MaxHeight, NEW top \in 0 .. MaxHeight, f <= top, Founded(View(index, z), f)
  PROVE  Climb(f, top) \in 0 .. MaxHeight /\ Founded(View(index, z), Climb(f, top))
<1> USE PowerLossAssumption
<1> DEFINE S == {g \in f .. top : \A k \in f + 1 .. g : index[k - z] # 0}
<1>1. f \in S /\ S \subseteq Int /\ \A x \in S : x <= top
  OBVIOUS
<1>2. Climb(f, top) = Max(S)
  BY DEF Climb, Row
<1> HIDE DEF S
<1>3. Climb(f, top) \in S
  <2>1. S # {} /\ top \in Int
    BY <1>1
  <2>2. Max(S) \in S
    BY <1>1, <2>1, MaxOfBounded
  <2> QED
    BY <1>2, <2>2
<1>4. Climb(f, top) \in f .. top /\ \A k \in f + 1 .. Climb(f, top) : index[k - z] # 0
  BY <1>3 DEF S
<1>5. ASSUME NEW h \in Heights, h <= Climb(f, top) PROVE View(index, z)[h] # 0
  <2>1. CASE h <= f
    BY <2>1 DEF Founded
  <2>2. CASE h > f
    <3>1. h \in f + 1 .. Climb(f, top)
      BY <1>4, <1>5, <2>2 DEF Heights
    <3>2. View(index, z)[h] = index[h - z]
      BY ViewFile DEF PTypeOK
    <3> QED
      BY <1>4, <3>1, <3>2
  <2> QED
    BY <2>1, <2>2 DEF Heights
<1> QED
  BY <1>4, <1>5 DEF Founded

-----------------------------------------------------------------------------
(* Type correctness. *)

(* A header with another offset is a header and has the rest of the old one. *)
LEMMA HeaderNext ==
  ASSUME NEW r \in Header, NEW k \in 0 .. MaxOffset, NEW s, s = [r EXCEPT !.next = k]
  PROVE  s \in Header /\ s.min = r.min /\ s.next = k /\ s.floor = r.floor
BY DEF Header

(* The fields of an index header have their types. *)
LEMMA HeaderFields ==
  ASSUME NEW r \in Header
  PROVE  r.min \in 0 .. 1 /\ r.next \in 0 .. MaxOffset /\ r.max \in 0 .. MaxHeight /\ r.floor \in 0 .. MaxHeight
BY DEF Header

(* The values of an empty store have their types. *)
LEMMA Blank ==
  ZeroHeader \in Header /\ NewHeader \in Header /\ Idle \in Job /\ [w \in Writers |-> Idle] \in [Writers -> Job]
<1>1. ZeroHeader \in Header /\ NewHeader \in Header /\ Idle \in Job
  BY PowerLossAssumption DEF ZeroHeader, NewHeader, Header, Idle, Job
<1> QED
  BY <1>1

(* Moving a writer to its next stage keeps the types. *)
LEMMA GotoKeepsType ==
  ASSUME PTypeOK, NEW w \in Writers, Goto(w, "idle") \/ Goto(w, "write") \/ Goto(w, "sync")
           \/ Goto(w, "index") \/ Goto(w, "advance") \/ Goto(w, "checkpoint") \/ Goto(w, "header")
  PROVE  job' \in [Writers -> Job]
<1>1. job[w] \in Job
  BY DEF PTypeOK
<1>2. ASSUME NEW stage \in {"idle", "write", "sync", "index", "advance", "checkpoint", "header"}
      PROVE  [job[w] EXCEPT !.stage = stage] \in Job
  BY <1>1 DEF Job
<1> QED
  BY <1>1, <1>2 DEF Goto, PTypeOK

(* With one writer an acknowledged block is the only one left for its height. *)
LEMMA AcknowledgeEffect ==
  ASSUME PTypeOK, NEW w \in Writers, Writers = {w}, Acknowledge(w), job[w].height \in Heights,
         job[w].block \in Blocks
  PROVE  /\ job' \in [Writers -> Job] /\ job'[w] = Idle
         /\ last' \in [Heights -> Blocks \union {NoBlock}] /\ last'[job[w].height] = job[w].block
         /\ loose' \in [Heights -> SUBSET Blocks]
         /\ \A h \in Heights \ {job[w].height} : last'[h] = last[h] /\ loose'[h] = loose[h]
<1>1. {job[v].block : v \in {u \in Writers \ {w} : job[u].height = job[w].height}} = {}
  OBVIOUS
<1>2. loose' = [loose EXCEPT ![job[w].height] = {}] /\ last' = [last EXCEPT ![job[w].height] = job[w].block]
  BY <1>1 DEF Acknowledge
<1>3. job' = [job EXCEPT ![w] = Idle]
  BY DEF Acknowledge
<1> QED
  BY <1>2, <1>3, Blank DEF PTypeOK

(* sync_all of either file copies that file to the disk and leaves the other. *)
LEMMA DiskType ==
  ASSUME PTypeOK
  PROVE  /\ disk.data \in [Slots -> Cells] /\ disk.index \in IndexFile /\ disk.header \in Header
         /\ SyncIndex => /\ disk' \in [data : [Slots -> Cells], index : IndexFile, header : Header]
                         /\ disk'.data = disk.data /\ disk'.index = index /\ disk'.header = header
         /\ SyncData => /\ disk' \in [data : [Slots -> Cells], index : IndexFile, header : Header]
                        /\ disk'.data = data /\ disk'.index = disk.index /\ disk'.header = disk.header
BY DEF PTypeOK, SyncIndex, SyncData

(* Every step keeps the types. *)
LEMMA StepKeepsPType ==
  ASSUME PTypeOK, Syncing, NEW w \in Writers, Writers = {w}, NEW n \in 0 .. MaxOffset,
         NEW z \in 0 .. 1, Persisted(n, z), Session(n, z), PNext
  PROVE  PTypeOK'
<1> USE PowerLossAssumption, MarkersAssumption
<1>0. job[w] \in Job /\ mem \in Header /\ header \in Header /\ Founded(View(index, z), header.floor)
  BY DEF PTypeOK, Persisted, Indexed
<1>1. CASE WriteBack
  <2>1. ASSUME NEW p \in Slots, NEW c \in {data[p], Torn}, disk' = [disk EXCEPT !.data[p] = c]
        PROVE  disk' \in [data : [Slots -> Cells], index : IndexFile, header : Header]
    BY <2>1 DEF PTypeOK, Cells
  <2>2. ASSUME NEW q \in Rows, disk' = [disk EXCEPT !.index[q] = index[q]]
        PROVE  disk' \in [data : [Slots -> Cells], index : IndexFile, header : Header]
    BY <2>2 DEF PTypeOK, IndexFile
  <2>3. ASSUME disk' = [disk EXCEPT !.header = header]
        PROVE  disk' \in [data : [Slots -> Cells], index : IndexFile, header : Header]
    BY <2>3 DEF PTypeOK
  <2> QED
    BY <1>1, <2>1, <2>2, <2>3 DEF WriteBack, files, PTypeOK
<1>2. ASSUME NEW h \in Heights, NEW b \in Blocks, Reserve(w, h, b) PROVE PTypeOK'
  <2>1. [stage |-> "write", height |-> h, block |-> b, offset |-> highwater] \in Job
    BY DEF Job, Heights, PTypeOK
  <2>2. highwater + 1 \in 0 .. MaxOffset
    BY <1>2 DEF Reserve, PTypeOK
  <2>3. job' \in [Writers -> Job]
    BY <1>2, <2>1 DEF Reserve, PTypeOK
  <2>4. loose' \in [Heights -> SUBSET Blocks]
    BY <1>2 DEF Reserve, PTypeOK
  <2> QED
    BY <1>2, <2>2, <2>3, <2>4 DEF Reserve, files, PTypeOK
<1>3. CASE WriteData(w)
  <2>1. at = "open" /\ job[w].height \in Heights /\ job[w].block \in Blocks
    BY <1>3 DEF WriteData, Session, Working, Idle
  <2>2. RecordOf(job[w]) \in Cells
    BY <2>1 DEF RecordOf, Cells, Record
  <2>3. data' \in [Slots -> Cells]
    BY <1>3, <2>2 DEF WriteData, PTypeOK, RecordOf
  <2> QED
    BY <1>3, <2>3, GotoKeepsType DEF WriteData, PTypeOK
<1>4. CASE SyncBlock(w)
  BY <1>4, DiskType, GotoKeepsType DEF SyncBlock, files, PTypeOK
<1>5. CASE WriteEntry(w)
  <2>1. at = "open" /\ job[w].offset + 1 = n
    BY <1>5 DEF WriteEntry, Session, Working, Idle
  <2>2. index' \in IndexFile
    BY <1>5, <2>1 DEF WriteEntry, PTypeOK, IndexFile
  <2> QED
    BY <1>5, <2>2, GotoKeepsType DEF WriteEntry, PTypeOK
<1>6. CASE Advance(w)
  <2>1. /\ at = "open" /\ job[w].height \in Heights /\ job[w].block \in Blocks
        /\ Founded(View(index, z), mem.floor) /\ mem.min = z
    BY <1>6 DEF Advance, Session, Working, Idle
  <2>2. mem.floor \in 0 .. MaxHeight /\ mem.max \in 0 .. MaxHeight
    BY <1>0, HeaderFields
  <2>3. Climb(mem.floor, MaxHeight) \in 0 .. MaxHeight
    BY <2>1, <2>2, ClimbFounded
  <2> DEFINE f == IF job[w].height = mem.floor + 1 THEN Climb(mem.floor, MaxHeight) ELSE mem.floor
             m == IF job[w].height > mem.max THEN job[w].height ELSE mem.max
  <2>4. mem' \in Header
    <3>1. f \in 0 .. MaxHeight /\ m \in 0 .. MaxHeight
      BY <2>1, <2>2, <2>3 DEF Heights
    <3>2. mem' = [mem EXCEPT !.floor = f, !.max = m]
      BY <1>0, <1>6 DEF Advance, Header
    <3> HIDE DEF f, m
    <3> QED
      BY <1>0, <3>1, <3>2 DEF Header
  <2>5. CASE Goto(w, "checkpoint") /\ UNCHANGED <<last, loose>>
    BY <1>6, <2>4, <2>5, GotoKeepsType DEF Advance, files, PTypeOK
  <2>6. CASE Acknowledge(w)
    BY <1>6, <2>1, <2>4, <2>6, AcknowledgeEffect DEF Advance, files, PTypeOK
  <2> QED
    BY <1>6, <2>5, <2>6 DEF Advance
<1>7. CASE CheckpointSync(w)
  BY <1>7, DiskType, GotoKeepsType DEF CheckpointSync, files, PTypeOK
<1>8. CASE CheckpointHeader(w)
  <2>1. at = "open" /\ job[w].height \in Heights /\ job[w].block \in Blocks /\ job[w].offset + 1 = n
    BY <1>8 DEF CheckpointHeader, Session, Working, Idle
  <2>2. header' \in Header /\ lastcp' \in 0 .. MaxOffset
    BY <1>0, <1>8, <2>1, HeaderNext DEF CheckpointHeader
  <2> QED
    BY <1>8, <2>1, <2>2, AcknowledgeEffect DEF CheckpointHeader, PTypeOK
<1>9. CASE CloseSync
  BY <1>9, DiskType DEF CloseSync, files, PTypeOK
<1>10. CASE CloseHeader
  <2>1. header' \in Header
    BY <1>0, <1>10, HeaderNext DEF CloseHeader, PTypeOK
  <2> QED
    BY <1>10, <2>1, Blank DEF CloseHeader, Stopped, PTypeOK
<1>11. CASE Crash
  BY <1>11, Blank DEF Crash, Stopped, files, PTypeOK
<1>12. CASE LosePower
  BY <1>12, Blank, DiskType DEF LosePower, Stopped, PTypeOK
<1>13. CASE Open
  <2>0. mem' \in Header
    BY <1>0, <1>13, Blank DEF Open, HeaderRead
  <2>1. at' \in {"refused", "scan"} /\ lastcp' \in 0 .. MaxOffset
    BY <1>13, <2>0, HeaderFields DEF Open
  <2> QED
    BY <1>13, <2>0, <2>1 DEF Open, files, PTypeOK
<1>14. CASE ScanBlock
  <2>1. Whole(mem.next) /\ mem.next \in Slots
    BY <1>14 DEF ScanBlock, Whole
  <2>2. data[mem.next] \in Record
    BY <2>1 DEF Whole, Cells, PTypeOK
  <2>3. data[mem.next].height \in Heights
    BY <2>2 DEF Record
  <2>4. mem.next + 1 \in 0 .. MaxOffset
    BY <2>1 DEF Slots
  <2>5. index' \in IndexFile
    BY <1>14, <2>3, <2>4 DEF ScanBlock, PTypeOK, IndexFile
  <2> DEFINE m == IF data[mem.next].height > mem.max THEN data[mem.next].height ELSE mem.max
  <2>6. mem' \in Header
    <3>1. m \in 0 .. MaxHeight
      BY <1>0, <2>3, HeaderFields DEF Heights
    <3>2. mem' = [mem EXCEPT !.next = mem.next + 1, !.max = m]
      BY <1>0, <1>14 DEF ScanBlock, Header
    <3> HIDE DEF m
    <3> QED
      BY <1>0, <2>4, <3>1, <3>2 DEF Header
  <2> QED
    BY <1>14, <2>5, <2>6 DEF ScanBlock, PTypeOK
<1>15. CASE ProgressSync
  BY <1>15, DiskType DEF ProgressSync, files, PTypeOK
<1>16. CASE ProgressHeader
  BY <1>0, <1>16, HeaderFields DEF ProgressHeader, PTypeOK
<1>17. CASE FinishRecovery
  <2>1. mem.floor \in 0 .. MaxHeight /\ mem.max \in 0 .. MaxHeight /\ mem.next \in 0 .. MaxOffset
    BY <1>0, HeaderFields
  <2>2. Founded(View(index, z), mem.floor) /\ mem.min = z
    BY <1>0, <1>17 DEF FinishRecovery, Session
  <2>3. Min({mem.floor, mem.max}) \in 0 .. MaxHeight /\ Min({mem.floor, mem.max}) <= mem.max
        /\ Founded(View(index, z), Min({mem.floor, mem.max}))
    BY <2>1, <2>2, MinOfTwo DEF Founded, Heights
  <2>4. Climb(Min({mem.floor, mem.max}), mem.max) \in 0 .. MaxHeight
    BY <2>1, <2>2, <2>3, ClimbFounded
  <2>5. mem' \in Header
    BY <1>0, <1>17, <2>4 DEF FinishRecovery, Header
  <2> QED
    BY <1>17, <2>1, <2>5 DEF FinishRecovery, files, PTypeOK
<1> QED
  BY <1>1, <1>2, <1>3, <1>4, <1>5, <1>6, <1>7, <1>8, <1>9, <1>10, <1>11, <1>12, <1>13, <1>14,
     <1>15, <1>16, <1>17 DEF PNext

-----------------------------------------------------------------------------
(* The predicates on files. *)

DataFile == [Slots -> Cells]
Acked == [Heights -> Blocks \union {NoBlock}]
Loose == [Heights -> SUBSET Blocks]

(* Only what is below the frontier matters. *)
LEMMA SameBelow ==
  ASSUME NEW n \in 0 .. MaxOffset, NEW D, NEW E, \A p \in Slots : p < n => E[p] = D[p],
         \A p \in Slots : p < n => D[p] \in Record
  PROVE  /\ \A V \in Entries, z \in 0 .. 1 : Within(V, n) /\ Straight(D, V, z) => Straight(E, V, z)
         /\ \A V \in Entries, k \in 0 .. n : Within(V, n) /\ Covers(D, V, k) => Covers(E, V, k)
         /\ \A L \in Acked, Z \in Loose : Fate(D, L, Z, n) => Fate(E, L, Z, n)
<1> USE PowerLossAssumption
<1>1. ASSUME NEW V \in Entries, Within(V, n), NEW h \in Heights, V[h] # 0
      PROVE  V[h] - 1 \in Slots /\ V[h] - 1 < n /\ E[V[h] - 1] = D[V[h] - 1]
  <2>1. V[h] - 1 \in Slots /\ V[h] - 1 < n
    BY <1>1 DEF Within, Entries, Slots
  <2> QED
    BY <2>1
<1>2. ASSUME NEW V \in Entries, NEW z \in 0 .. 1, Within(V, n), Straight(D, V, z) PROVE Straight(E, V, z)
  BY <1>1, <1>2 DEF Straight
<1>3. ASSUME NEW V \in Entries, NEW k \in 0 .. n, Within(V, n), Covers(D, V, k) PROVE Covers(E, V, k)
  <2> SUFFICES ASSUME NEW p \in Slots, p < k
               PROVE  p < V[E[p].height] /\ E[V[E[p].height] - 1].height = E[p].height
    BY DEF Covers
  <2>1. p < n /\ p \in Nat
    BY DEF Slots
  <2>2. E[p] = D[p] /\ D[p].height \in Heights
    BY <2>1 DEF Record
  <2>3. p < V[D[p].height] /\ D[V[D[p].height] - 1].height = D[p].height
    BY <1>3 DEF Covers
  <2>4. V[D[p].height] # 0
    BY <2>1, <2>3
  <2> QED
    BY <1>1, <1>3, <2>2, <2>3, <2>4
<1>4. ASSUME NEW L \in Acked, NEW Z \in Loose, Fate(D, L, Z, n) PROVE Fate(E, L, Z, n)
  <2>1. \A p \in Slots : Newest(E, p, n) => Newest(D, p, n)
    BY DEF Newest
  <2> QED
    BY <1>4, <2>1 DEF Fate, Newest
<1> QED
  BY <1>2, <1>3, <1>4

(* Records that are all indexed below n are all indexed below less. *)
LEMMA CoversLess ==
  ASSUME NEW D, NEW V, NEW n \in Nat, NEW k \in Nat, k <= n, Covers(D, V, n)
  PROVE  Covers(D, V, k)
BY DEF Covers, Slots

(* Entries that lead below n, seen from either min_height. *)
LEMMA BelowWithin ==
  ASSUME NEW J \in IndexFile, NEW n, \A r \in Rows : J[r] <= n, NEW z \in 0 .. 1
  PROVE  Within(View(J, z), n)
BY ViewFile DEF Within

(* An index file is as sound for more blocks. *)
LEMMA IndexedMore ==
  ASSUME NEW J \in IndexFile, NEW n \in Nat, NEW z, Indexed(J, n, z)
  PROVE  Indexed(J, n + 1, z)
<1>1. \A r \in Rows : J[r] <= n + 1
  BY DEF Indexed, IndexFile
<1> QED
  BY <1>1 DEF Indexed

(* More writes are cut off. *)
LEMMA FateLooser ==
  ASSUME NEW D, NEW L, NEW Z, NEW Y, NEW n,
         \A p \in Slots : p < n => D[p] \in Record,
         \A h \in Heights : Z[h] \subseteq Y[h], Fate(D, L, Z, n)
  PROVE  Fate(D, L, Y, n)
BY DEF Fate, Newest, Record

(* The block at the frontier was cut off, and is taken in. *)
LEMMA FateMore ==
  ASSUME NEW D, NEW L, NEW Z, NEW n \in Slots, Fate(D, L, Z, n),
         D[n] \in Record, D[n].block \in Z[D[n].height]
  PROVE  Fate(D, L, Z, n + 1)
<1>1. ASSUME NEW p \in Slots, Newest(D, p, n + 1)
      PROVE  D[p].block \in {L[D[p].height]} \union Z[D[p].height]
  <2>1. CASE p = n
    BY <2>1
  <2>2. CASE p # n
    <3>1. Newest(D, p, n)
      BY <1>1, <2>2 DEF Newest, Slots
    <3> QED
      BY <3>1 DEF Fate
  <2> QED
    BY <2>1, <2>2
<1>2. ASSUME NEW h \in Heights, \A p \in Slots : p < n + 1 => D[p].height # h PROVE L[h] = NoBlock
  <2>1. \A p \in Slots : p < n => D[p].height # h
    BY <1>2 DEF Slots
  <2> QED
    BY <2>1 DEF Fate
<1> QED
  BY <1>1, <1>2 DEF Fate

(* The newest block of all is acknowledged. *)
LEMMA FateAcknowledged ==
  ASSUME NEW D, NEW L, NEW Z, NEW M, NEW Y, NEW p \in Slots, Fate(D, L, Z, p + 1),
         \A q \in Slots : q < p + 1 => D[q] \in Record,
         M[D[p].height] = D[p].block,
         \A h \in Heights \ {D[p].height} : M[h] = L[h] /\ Y[h] = Z[h]
  PROVE  Fate(D, M, Y, p + 1)
<1>1. ASSUME NEW q \in Slots, Newest(D, q, p + 1)
      PROVE  D[q].block \in {M[D[q].height]} \union Y[D[q].height]
  <2>1. CASE D[q].height = D[p].height
    <3>1. q = p
      BY <1>1, <2>1 DEF Newest, Slots
    <3> QED
      BY <3>1
  <2>2. CASE D[q].height # D[p].height
    <3>1. D[q].height \in Heights
      BY <1>1 DEF Newest, Record
    <3> QED
      BY <1>1, <2>2, <3>1 DEF Fate
  <2> QED
    BY <2>1, <2>2
<1>2. ASSUME NEW h \in Heights, \A q \in Slots : q < p + 1 => D[q].height # h PROVE M[h] = NoBlock
  <2>1. D[p].height # h
    BY <1>2 DEF Slots
  <2> QED
    BY <1>2, <2>1 DEF Fate
<1> QED
  BY <1>1, <1>2 DEF Fate

(* An entry for the block at p. *)
LEMMA EntryAdded ==
  ASSUME NEW D, NEW V \in Entries, NEW p \in Slots, NEW n \in 0 .. MaxOffset, p < n,
         \A q \in Slots : q <= p => D[q] \in Record, NEW z \in 0 .. 1, Straight(D, V, z),
         NEW K, K[D[p].height] = p + 1, \A g \in Heights \ {D[p].height} : K[g] = V[g]
  PROVE  /\ Straight(D, K, z)
         /\ Covers(D, V, p) => Covers(D, K, p + 1)
         /\ \A k \in 0 .. p : Covers(D, V, k) => Covers(D, K, k)
         /\ \A f : Founded(V, f) => Founded(K, f)
<1> DEFINE h == D[p].height
<1>1. h \in Heights /\ p \in Nat
  BY DEF Record, Slots
<1>2. K[h] = p + 1 /\ \A g \in Heights \ {h} : K[g] = V[g]
  OBVIOUS
<1>3. K[h] - 1 = p /\ D[K[h] - 1].height = h
  BY <1>1, <1>2
<1>4. Straight(D, K, z)
  BY <1>1, <1>2, <1>3 DEF Straight
<1>5. ASSUME NEW q \in Slots, q <= p, q < V[D[q].height] /\ D[V[D[q].height] - 1].height = D[q].height
      PROVE  q < K[D[q].height] /\ D[K[D[q].height] - 1].height = D[q].height
  <2>1. D[q].height \in Heights /\ q \in Nat
    BY <1>5 DEF Record, Slots
  <2>2. CASE D[q].height = h
    BY <1>1, <1>2, <1>3, <1>5, <2>1, <2>2
  <2>3. CASE D[q].height # h
    BY <1>2, <1>5, <2>1, <2>3
  <2> QED
    BY <2>2, <2>3
<1>6. ASSUME Covers(D, V, p) PROVE Covers(D, K, p + 1)
  <2> SUFFICES ASSUME NEW q \in Slots, q < p + 1
               PROVE  q < K[D[q].height] /\ D[K[D[q].height] - 1].height = D[q].height
    BY DEF Covers
  <2>1. CASE q = p
    BY <1>1, <1>2, <1>3, <2>1
  <2>2. CASE q < p
    BY <1>5, <1>6, <2>2 DEF Covers, Slots
  <2> QED
    BY <1>1, <2>1, <2>2 DEF Slots
<1>7. ASSUME NEW k \in 0 .. p, Covers(D, V, k) PROVE Covers(D, K, k)
  <2> SUFFICES ASSUME NEW q \in Slots, q < k
               PROVE  q < K[D[q].height] /\ D[K[D[q].height] - 1].height = D[q].height
    BY DEF Covers
  <2>1. q <= p
    BY <1>1 DEF Slots
  <2> QED
    BY <1>5, <1>7, <2>1 DEF Covers
<1>8. ASSUME NEW f, Founded(V, f) PROVE Founded(K, f)
  BY <1>1, <1>2, <1>8 DEF Founded
<1> QED
  BY <1>4, <1>6, <1>7, <1>8

(* The entry of the block at p, in the index file. *)
LEMMA EntryWritten ==
  ASSUME PTypeOK, NEW n \in 0 .. MaxOffset, NEW z \in 0 .. 1, NEW p \in Slots, p < n,
         \A q \in Slots : q <= p => data[q] \in Record, header.next <= p + 1,
         Indexed(index, n, z), Covers(data, View(index, z), p),
         NEW K, K = [index EXCEPT ![data[p].height - z] = p + 1]
  PROVE  /\ Indexed(K, n, z) /\ Covers(data, View(K, z), p + 1) /\ Within(View(K, z), n)
         /\ \A f : Founded(View(index, z), f) => Founded(View(K, z), f)
         /\ \A r \in Rows : index[r] # 0 => K[r] # 0
<1> USE PowerLossAssumption
<1>1. /\ index \in IndexFile /\ data[p].height \in Heights /\ p \in Nat
      /\ p + 1 \in 0 .. MaxOffset /\ p + 1 # 0 /\ p + 1 <= n /\ header.next \in Nat
  BY HeaderFields DEF PTypeOK, Slots, Record
<1>2. View(index, z) \in Entries /\ Straight(data, View(index, z), z)
  BY <1>1, ViewFile DEF Indexed
<1>a. PICK h \in Heights, e \in 0 .. MaxOffset : h = data[p].height /\ e = p + 1 /\ e # 0 /\ e <= n
  BY <1>1
<1>b. K \in IndexFile /\ K[h - z] = e /\ \A r \in Rows \ {h - z} : K[r] = index[r]
  <2>1. h - z \in Rows /\ K = [index EXCEPT ![h - z] = e]
    BY <1>1, <1>a, ViewFile
  <2> QED
    BY <1>1, <2>1 DEF IndexFile
<1>3. /\ K \in IndexFile /\ View(K, z)[data[p].height] = p + 1
      /\ \A g \in Heights \ {data[p].height} : View(K, z)[g] = View(index, z)[g]
      /\ \A r \in Rows : index[r] # 0 => K[r] # 0
      /\ (\A r \in Rows : index[r] <= n) => \A r \in Rows : K[r] <= n
  <2>1. View(K, z)[h] = e
    BY <1>b, ViewFile
  <2>2. ASSUME NEW g \in Heights \ {h} PROVE View(K, z)[g] = View(index, z)[g]
    <3>1. g - z \in Rows /\ View(index, z)[g] = index[g - z]
      BY <1>1, ViewFile, Zenon
    <3>2. View(K, z)[g] = K[g - z]
      BY <1>b, ViewFile, Zenon
    <3>3. g - z # h - z
      BY DEF Heights
    <3> QED
      BY <1>b, <3>1, <3>2, <3>3
  <2>3. /\ \A r \in Rows : index[r] # 0 => K[r] # 0
        /\ (\A r \in Rows : index[r] <= n) => \A r \in Rows : K[r] <= n
    BY <1>a, <1>b
  <2> QED
    BY <1>a, <1>b, <2>1, <2>2, <2>3
<1>4. \A r \in Rows : K[r] <= n
  BY <1>3 DEF Indexed
<1>5. /\ Straight(data, View(K, z), z) /\ Covers(data, View(K, z), p + 1)
      /\ \A f : Founded(View(index, z), f) => Founded(View(K, z), f)
  <2> DEFINE V == View(index, z)
             U == View(K, z)
  <2>1. V \in Entries /\ Straight(data, V, z) /\ Covers(data, V, p)
    BY <1>2
  <2>2. U[data[p].height] = p + 1 /\ \A g \in Heights \ {data[p].height} : U[g] = V[g]
    BY <1>3
  <2> HIDE DEF V, U
  <2>3. /\ Straight(data, U, z) /\ Covers(data, U, p + 1)
        /\ \A f : Founded(V, f) => Founded(U, f)
    BY <2>1, <2>2, EntryAdded
  <2> QED
    BY <2>3 DEF V, U
<1>6. Covers(data, View(K, z), header.next)
  BY <1>1, <1>5, CoversLess
<1>7. Indexed(K, n, z)
  BY <1>4, <1>5, <1>6 DEF Indexed
<1> QED
  BY <1>3, <1>4, <1>5, <1>7, BelowWithin

(* Writing back any choice of entries from two sound index files leaves a sound one. *)
LEMMA EntriesMixed ==
  ASSUME PTypeOK, NEW n \in 0 .. MaxOffset, NEW z \in 0 .. 1,
         \A p \in Slots : p < header.next => data[p] \in Record,
         NEW J \in IndexFile, NEW I \in IndexFile, NEW K \in IndexFile,
         \A r \in Rows : K[r] \in {J[r], I[r]}, Indexed(J, n, z), Indexed(I, n, z)
  PROVE  Indexed(K, n, z)
<1> DEFINE V == View(J, z)
           W == View(I, z)
           U == View(K, z)
<1>1. \A h \in Heights : U[h] \in {V[h], W[h]}
  BY ViewFile
<1>2. \A r \in Rows : K[r] <= n
  BY DEF Indexed
<1>3. /\ Straight(data, V, z) /\ Covers(data, V, header.next)
      /\ Founded(V, header.floor) /\ Founded(V, disk.header.floor)
      /\ Straight(data, W, z) /\ Covers(data, W, header.next)
      /\ Founded(W, header.floor) /\ Founded(W, disk.header.floor)
  BY DEF Indexed
<1> HIDE DEF V, W, U
<1>4. Straight(data, U, z)
  BY <1>1, <1>3 DEF Straight
<1>5. Covers(data, U, header.next)
  <2> SUFFICES ASSUME NEW p \in Slots, p < header.next
               PROVE  p < U[data[p].height] /\ data[U[data[p].height] - 1].height = data[p].height
    BY DEF Covers
  <2>1. data[p].height \in Heights
    BY DEF Record
  <2> QED
    BY <1>1, <1>3, <2>1 DEF Covers
<1>6. Founded(U, header.floor) /\ Founded(U, disk.header.floor)
  BY <1>1, <1>3 DEF Founded
<1> QED
  BY <1>2, <1>4, <1>5, <1>6 DEF Indexed, U

(***************************************************************************)
(* A store whose header was lost is read from a min_height of zero, and    *)
(* scanned from the beginning: nothing is asked of its entries.            *)
(***************************************************************************)
LEMMA IndexedZero ==
  ASSUME NEW J, NEW n, \A r \in Rows : J[r] <= n, header = ZeroHeader, disk.header = ZeroHeader
  PROVE  Indexed(J, n, 0)
<1>1. header.next = 0 /\ header.floor = 0 /\ disk.header.floor = 0
  BY DEF ZeroHeader
<1> QED
  BY <1>1 DEF Indexed, Straight, Covers, Founded, Heights, Slots

(* What open reads the header for: the min_height in the file. *)
LEMMA Rebased ==
  ASSUME PTypeOK, NEW n \in 0 .. MaxOffset, NEW z \in 0 .. 1, Persisted(n, z)
  PROVE  Persisted(n, header.min) /\ header.min \in 0 .. 1
<1>1. header.min \in 0 .. 1
  BY HeaderFields DEF PTypeOK
<1>2. CASE header.min = z
  BY <1>1, <1>2
<1>3. CASE header.min # z
  <2>1. header = ZeroHeader /\ disk.header = ZeroHeader
    BY <1>3 DEF Persisted, Agrees
  <2>2. header.min = 0
    BY <2>1 DEF ZeroHeader
  <2>3. \A J \in {index, disk.index} : Indexed(J, n, 0)
    BY <2>1, IndexedZero DEF Persisted, Indexed
  <2>4. Persisted(n, 0)
    BY <2>1, <2>3 DEF Persisted, Agrees
  <2> QED
    BY <2>2, <2>4
<1> QED
  BY <1>2, <1>3

-----------------------------------------------------------------------------
(***************************************************************************)
(* The steps.  What the frontier is, and what it becomes.                  *)
(***************************************************************************)
LEMMA WriteBackKeeps ==
  ASSUME PTypeOK, PTypeOK', NEW n \in 0 .. MaxOffset, NEW z \in 0 .. 1, Persisted(n, z), Session(n, z), WriteBack
  PROVE  Persisted(n, z)' /\ Session(n, z)'
<1> USE PowerLossAssumption, MarkersAssumption
<1>0. /\ disk.data \in DataFile /\ disk.index \in IndexFile /\ data \in DataFile /\ index \in IndexFile
      /\ disk'.index \in IndexFile
      /\ UNCHANGED <<data, index, header, at, mem, highwater, job, last, loose>>
  BY DiskType DEF WriteBack, files, PTypeOK, DataFile
<1>1. ASSUME NEW p \in Slots, data[p] # disk.data[p], NEW c \in {data[p], Torn},
             disk' = [disk EXCEPT !.data[p] = c]
      PROVE  Persisted(n, z)' /\ Session(n, z)'
  <2>1. p = n
    BY <1>1 DEF Persisted, Frontier, Slots
  <2>2. /\ disk'.data = [disk.data EXCEPT ![n] = c]
        /\ disk'.index = disk.index /\ disk'.header = disk.header
    BY <1>1, <2>1 DEF PTypeOK
  <2>3. disk'.data[n] = c /\ \A q \in Slots : q # n => disk'.data[q] = disk.data[q]
    BY <1>0, <1>1, <2>1, <2>2 DEF DataFile
  <2>4. Frontier(data, disk'.data, loose, n)
    BY <1>1, <2>1, <2>3 DEF Persisted, Frontier, CutOff, Slots
  <2>5. NotWhole(data, disk.data, n) => NotWhole(data, disk'.data, n)
    BY <1>1, <2>1, <2>3 DEF NotWhole
  <2>6. disk.data # data
    BY <1>1
  <2>7. disk.data[n] \in {NoBlock, Torn, data[n]} => disk'.data[n] \in {NoBlock, Torn, data[n]}
    BY <1>1, <2>1, <2>3
  <2>8. Persisted(n, z)'
    BY <1>0, <2>2, <2>4 DEF Persisted, Indexed
  <2>9. ASSUME NEW w \in Writers, Working(job[w], n, z) PROVE Working(job[w], n, z)'
    BY <1>0, <2>2, <2>5, <2>7, <2>9 DEF Working, Published
  <2> QED
    BY <1>0, <2>2, <2>5, <2>6, <2>8, <2>9 DEF Session, Published
<1>2. ASSUME NEW q \in Rows, index[q] # disk.index[q], disk' = [disk EXCEPT !.index[q] = index[q]]
      PROVE  Persisted(n, z)' /\ Session(n, z)'
  <2>1. /\ disk'.index = [disk.index EXCEPT ![q] = index[q]]
        /\ disk'.data = disk.data /\ disk'.header = disk.header
    BY <1>2 DEF PTypeOK
  <2>2. \A g \in Rows : disk'.index[g] \in {disk.index[g], index[g]}
    BY <1>0, <2>1 DEF IndexFile
  <2>3. disk.index # index
    BY <1>2
  <2>4. \A p \in Slots : p < header.next => data[p] \in Record
    BY HeaderFields DEF Persisted, Frontier, PTypeOK, Slots
  <2>5. Indexed(disk'.index, n, z) /\ \A g \in Rows : disk'.index[g] # 0 => index[g] # 0
    BY <1>0, <2>2, <2>4, EntriesMixed DEF Persisted
  <2>6. Persisted(n, z)'
    BY <1>0, <2>1, <2>5 DEF Persisted, Indexed
  <2> QED
    BY <1>0, <2>1, <2>3, <2>6 DEF Session, Working, Published
<1>3. ASSUME disk' = [disk EXCEPT !.header = header]
      PROVE  Persisted(n, z)' /\ Session(n, z)'
  <2>1. disk'.index = disk.index /\ disk'.data = disk.data /\ disk'.header = header
    BY <1>3 DEF PTypeOK
  <2>2. header.next <= header.next
    BY HeaderFields DEF PTypeOK
  <2> QED
    BY <1>0, <2>1, <2>2 DEF Persisted, Indexed, Session, Working, Published
<1> QED
  BY <1>1, <1>2, <1>3 DEF WriteBack

(* reserve_space keeps the invariant. *)
LEMMA ReserveKeeps ==
  ASSUME PTypeOK, NEW n \in 0 .. MaxOffset, NEW z \in 0 .. 1, Persisted(n, z), Session(n, z), NEW w \in Writers, Writers = {w},
         NEW h \in Heights, NEW b \in Blocks, Reserve(w, h, b)
  PROVE  Persisted(n, z)' /\ Session(n, z)'
<1> USE PowerLossAssumption
<1>1. /\ at = "open" /\ highwater = n /\ highwater' = n + 1
      /\ NotWhole(data, disk.data, n) /\ Published(n, z) /\ Founded(View(index, z), mem.floor)
      /\ UNCHANGED <<data, index, header, disk, at, mem, last>>
  BY DEF Reserve, files, Session, Working
<1>2. loose'[h] = loose[h] \union {b} /\ \A g \in Heights : loose[g] \subseteq loose'[g]
  BY DEF Reserve, PTypeOK
<1>3. /\ job'[w].stage = "write" /\ job'[w].height = h /\ job'[w].block = b /\ job'[w].offset = n
  BY <1>1 DEF Reserve, PTypeOK
<1>4. Fate(data, last, loose', n)
  BY <1>1, <1>2, FateLooser DEF Persisted, Frontier
<1>5. Frontier(data, disk.data, loose', n)
  BY <1>2 DEF Persisted, Frontier, CutOff, Record
<1>6. Persisted(n, z)'
  BY <1>1, <1>4, <1>5 DEF Persisted, Indexed
<1>7. Published(n, z)'
  BY <1>1, <1>4 DEF Published
<1>8. Working(job[w], n, z)'
  BY <1>1, <1>2, <1>3, <1>7 DEF Working
<1> QED
  BY <1>1, <1>6, <1>8 DEF Session

(* Moving a writer to its next stage leaves its record alone. *)
LEMMA GotoEffect ==
  ASSUME PTypeOK, NEW w \in Writers, NEW stage, Goto(w, stage)
  PROVE  /\ job'[w].stage = stage /\ job'[w].height = job[w].height
         /\ job'[w].block = job[w].block /\ job'[w].offset = job[w].offset
         /\ RecordOf(job'[w]) = RecordOf(job[w])
BY DEF Goto, PTypeOK, Job, RecordOf

(* Writing a record and syncing the data file keeps the invariant. *)
LEMMA WriteDataKeeps ==
  ASSUME PTypeOK, NEW n \in 0 .. MaxOffset, NEW z \in 0 .. 1, Persisted(n, z), Session(n, z), NEW w \in Writers, Writers = {w},
         Syncing, WriteData(w)
  PROVE  Persisted(n, z)' /\ Session(n, z)'
<1> USE PowerLossAssumption, MarkersAssumption
<1>0. /\ data \in DataFile /\ index \in IndexFile /\ disk.index \in IndexFile /\ disk.data \in DataFile
      /\ last \in Acked /\ loose \in Loose /\ header.next \in 0 .. n
  BY DiskType, HeaderFields DEF PTypeOK, DataFile, Acked, Loose, Persisted
<1>1. /\ at = "open" /\ job[w].offset = n /\ highwater = n + 1 /\ Published(n, z)
      /\ job[w].height \in Heights /\ job[w].block \in Blocks /\ job[w].block \in loose[job[w].height]
      /\ NotWhole(data, disk.data, n) /\ Founded(View(index, z), mem.floor)
      /\ UNCHANGED <<index, header, disk, at, mem, highwater, last, loose>>
      /\ Goto(w, "sync")
  BY DEF WriteData, Session, Working, Idle
<1>2. n \in Slots
  BY <1>1 DEF PTypeOK, Slots
<1>3. data'[n] = RecordOf(job[w]) /\ \A p \in Slots : p # n => data'[p] = data[p]
  BY <1>0, <1>1, <1>2 DEF WriteData, RecordOf, DataFile
<1>4. /\ RecordOf(job[w]) \in Record
      /\ RecordOf(job[w]).block = job[w].block /\ RecordOf(job[w]).height = job[w].height
  BY <1>1 DEF RecordOf, Record
<1>5. disk.data[n] \in {NoBlock, Torn}
  BY <1>0, <1>1, <1>2 DEF NotWhole, DataFile, Cells
<1>6. \A p \in Slots : p < n => data'[p] = data[p]
  BY <1>3 DEF Slots
<1>a. \A p \in Slots : p < n => data[p] \in Record
  BY DEF Persisted, Frontier
<1>b. ASSUME NEW J \in {index, disk.index} PROVE Indexed(J, n, z)'
  <2>1. Indexed(J, n, z) /\ View(J, z) \in Entries
    BY <1>0, ViewFile DEF Persisted
  <2>2. Within(View(J, z), n)
    BY <1>0, <2>1, BelowWithin DEF Indexed
  <2>3. Straight(data', View(J, z), z) /\ Covers(data', View(J, z), header.next)
    BY <1>0, <1>6, <1>a, <2>1, <2>2, SameBelow DEF Indexed
  <2> QED
    BY <1>1, <2>1, <2>3 DEF Indexed
<1>7. Within(View(index, z), n) /\ Covers(data', View(index, z), n) /\ Fate(data', last, loose, n)
  <2>1. View(index, z) \in Entries /\ n \in 0 .. n
    BY <1>0, ViewFile
  <2> QED
    BY <1>0, <1>1, <1>6, <1>a, <2>1, SameBelow DEF Published
<1>8. Frontier(data', disk.data, loose, n)
  BY <1>1, <1>3, <1>4, <1>5 DEF Persisted, Frontier, CutOff, Slots
<1>9. Persisted(n, z)'
  BY <1>1, <1>7, <1>8, <1>b DEF Persisted
<1>10. Published(n, z)'
  BY <1>1, <1>7 DEF Published
<1>11. Working(job[w], n, z)'
  BY <1>1, <1>3, <1>5, <1>10, GotoEffect DEF Working
<1> QED
  BY <1>1, <1>9, <1>11 DEF Session

(* The block is on the disk: the frontier moves. *)
LEMMA SyncBlockKeeps ==
  ASSUME PTypeOK, NEW n \in 0 .. MaxOffset, NEW z \in 0 .. 1, Persisted(n, z), Session(n, z), NEW w \in Writers, Writers = {w},
         SyncBlock(w)
  PROVE  n + 1 \in 0 .. MaxOffset /\ Persisted(n + 1, z)' /\ Session(n + 1, z)'
<1> USE PowerLossAssumption, MarkersAssumption
<1>0. /\ data \in DataFile /\ index \in IndexFile /\ disk.index \in IndexFile /\ disk.data \in DataFile
      /\ header.next \in 0 .. n
  BY DiskType, HeaderFields DEF PTypeOK, DataFile, Persisted
<1>1. /\ at = "open" /\ job[w].offset = n /\ highwater = n + 1 /\ Published(n, z)
      /\ job[w].height \in Heights /\ job[w].block \in Blocks /\ job[w].block \in loose[job[w].height]
      /\ data[n] = RecordOf(job[w]) /\ Founded(View(index, z), mem.floor)
      /\ UNCHANGED <<data, index, header, at, mem, highwater, last, loose>>
      /\ Goto(w, "index")
  BY DEF SyncBlock, files, Session, Working, Idle
<1>2. n \in Slots /\ n + 1 \in 0 .. MaxOffset
  BY <1>1 DEF PTypeOK, Slots
<1>3. disk'.data = data /\ disk'.index = disk.index /\ disk'.header = disk.header
  BY DiskType DEF SyncBlock
<1>4. data[n] \in Record /\ data[n].block = job[w].block /\ data[n].height = job[w].height
  BY <1>1 DEF RecordOf, Record
<1>5. \A p \in Slots : p > n => data[p] = NoBlock
  BY DEF Persisted, Frontier
<1>6. Frontier(data, data, loose, n + 1)
  BY <1>4, <1>5 DEF Persisted, Frontier, CutOff, Slots
<1>7. NotWhole(data, data, n + 1)
  BY <1>5 DEF NotWhole, Slots
<1>8. Fate(data, last, loose, n + 1)
  BY <1>1, <1>2, <1>4, FateMore DEF Persisted
<1>9. \A J \in {index, disk.index} : Indexed(J, n + 1, z)
  BY <1>0, IndexedMore DEF Persisted
<1>10. Persisted(n + 1, z)'
  BY <1>0, <1>1, <1>3, <1>6, <1>8, <1>9 DEF Persisted, Indexed
<1>11. Published(n, z)'
  BY <1>1 DEF Published
<1>12. Working(job[w], n + 1, z)'
  BY <1>1, <1>3, <1>7, <1>11, GotoEffect DEF Working
<1> QED
  BY <1>1, <1>2, <1>10, <1>12 DEF Session

(* Writing the index entry keeps the invariant: its record is on the disk already. *)
LEMMA WriteEntryKeeps ==
  ASSUME PTypeOK, NEW n \in 0 .. MaxOffset, NEW z \in 0 .. 1, Persisted(n, z), Session(n, z), NEW w \in Writers, Writers = {w},
         WriteEntry(w)
  PROVE  Persisted(n, z)' /\ Session(n, z)'
<1> USE PowerLossAssumption, MarkersAssumption
<1>0. /\ data \in DataFile /\ index \in IndexFile /\ disk.index \in IndexFile
      /\ header.next \in 0 .. n
  BY DiskType, HeaderFields DEF PTypeOK, DataFile, Persisted
<1> DEFINE p == job[w].offset
<1>1. /\ at = "open" /\ p + 1 = n /\ highwater = n /\ Published(p, z)
      /\ job[w].height \in Heights /\ job[w].block \in Blocks /\ data[p] = RecordOf(job[w])
      /\ NotWhole(data, disk.data, n) /\ Founded(View(index, z), mem.floor)
      /\ UNCHANGED <<data, header, disk, at, mem, highwater, last, loose>>
      /\ Goto(w, "advance")
  BY DEF WriteEntry, Session, Working, Idle
<1>2. p \in Slots /\ p < n
  BY <1>1 DEF PTypeOK, Slots, Job
<1>3. data[p] \in Record /\ data[p].height = job[w].height
  BY <1>1 DEF RecordOf, Record
<1>4. index' = [index EXCEPT ![data[p].height - z] = p + 1]
  BY <1>1, <1>3 DEF WriteEntry, Row, Session
<1>5. \A q \in Slots : q <= p => data[q] \in Record
  BY <1>1, <1>2 DEF Persisted, Frontier, Slots
<1>6. /\ Indexed(index', n, z) /\ Covers(data, View(index', z), p + 1) /\ Within(View(index', z), n)
      /\ \A f : Founded(View(index, z), f) => Founded(View(index', z), f)
      /\ \A r \in Rows : index[r] # 0 => index'[r] # 0
  <2>1. Indexed(index, n, z) /\ Covers(data, View(index, z), p) /\ header.next <= p + 1
    BY <1>1 DEF Persisted, Published
  <2> HIDE DEF p
  <2> QED
    BY <1>2, <1>4, <1>5, <2>1, EntryWritten
<1>8. Persisted(n, z)'
  BY <1>1, <1>6 DEF Persisted, Indexed
<1>9. Published(n, z)'
  BY <1>1, <1>6 DEF Published, Persisted
<1>10. Working(job[w], n, z)'
  BY <1>1, <1>9, GotoEffect DEF Working
<1> QED
  BY <1>1, <1>6, <1>8, <1>10 DEF Session

(* The newest block is acknowledged, and nothing of its height is left open. *)
LEMMA AcknowledgeKeeps ==
  ASSUME PTypeOK, NEW n \in 0 .. MaxOffset, NEW z \in 0 .. 1, Persisted(n, z), Published(n, z), NEW w \in Writers, Writers = {w},
         Acknowledge(w), job[w].height \in Heights, job[w].block \in Blocks,
         job[w].offset + 1 = n, data[job[w].offset] = RecordOf(job[w]),
         NotWhole(data, disk.data, n), highwater = n, UNCHANGED <<data, index, disk, highwater>>
  PROVE  /\ Frontier(data, disk.data, loose', n) /\ Fate(data, last', loose', n)
         /\ Working(job[w], n, z)'
<1> USE PowerLossAssumption, MarkersAssumption
<1>1. PICK p \in Slots : p = job[w].offset /\ p + 1 = n
  <2>1. job[w].offset \in Nat
    BY DEF PTypeOK, Job
  <2> QED
    BY <2>1 DEF Slots
<1>2. data[p] \in Record /\ data[p].height = job[w].height /\ data[p].block = job[w].block
  BY <1>1 DEF RecordOf, Record
<1>3. \A q \in Slots : q < p + 1 => data[q] \in Record
  BY <1>1 DEF Persisted, Frontier
<1>4. Fate(data, last, loose, p + 1)
  BY <1>1 DEF Persisted
<1>5. /\ last'[data[p].height] = data[p].block
      /\ \A h \in Heights \ {data[p].height} : last'[h] = last[h] /\ loose'[h] = loose[h]
  BY <1>2, AcknowledgeEffect
<1>6. Fate(data, last', loose', p + 1)
  BY <1>3, <1>4, <1>5, FateAcknowledged
<1>7. Frontier(data, disk.data, loose', n)
  BY DEF Persisted, Frontier, CutOff, NotWhole
<1>8. Published(n, z)'
  BY <1>1, <1>6 DEF Published
<1>9. Working(job[w], n, z)'
  BY <1>8, AcknowledgeEffect DEF Working, Idle
<1> QED
  BY <1>1, <1>6, <1>7, <1>9

(* Raising the floor keeps the invariant. *)
LEMMA AdvanceKeeps ==
  ASSUME PTypeOK, NEW n \in 0 .. MaxOffset, NEW z \in 0 .. 1, Persisted(n, z), Session(n, z), NEW w \in Writers, Writers = {w},
         Advance(w)
  PROVE  Persisted(n, z)' /\ Session(n, z)'
<1> USE PowerLossAssumption
<1>1. /\ at = "open" /\ job[w].offset + 1 = n /\ highwater = n /\ Published(n, z)
      /\ job[w].height \in Heights /\ job[w].block \in Blocks
      /\ data[job[w].offset] = RecordOf(job[w])
      /\ NotWhole(data, disk.data, n) /\ Founded(View(index, z), mem.floor)
      /\ UNCHANGED <<data, index, header, disk, at, highwater>>
  BY DEF Advance, files, Session, Working, Idle
<1>2. mem \in Header /\ mem.floor \in 0 .. MaxHeight
  BY HeaderFields DEF PTypeOK
<1>3. mem'.floor = IF job[w].height = mem.floor + 1 THEN Climb(mem.floor, MaxHeight) ELSE mem.floor
  BY <1>2 DEF Advance, Header
<1>4. Founded(View(index, z), mem'.floor) /\ mem'.min = z
  <2>1. mem.min = z /\ mem'.min = mem.min
    BY <1>1, <1>2 DEF Advance, Header, Session
  <2> QED
    BY <1>1, <1>2, <1>3, <2>1, ClimbFounded
<1>5. CASE Goto(w, "checkpoint") /\ UNCHANGED <<last, loose>>
  <2>1. Persisted(n, z)' /\ Published(n, z)'
    BY <1>1, <1>5 DEF Persisted, Indexed, Published
  <2>2. Working(job[w], n, z)'
    BY <1>1, <1>5, <2>1, GotoEffect DEF Working
  <2> QED
    BY <1>1, <1>4, <2>1, <2>2 DEF Session
<1>6. CASE Acknowledge(w)
  <2>1. /\ Frontier(data, disk.data, loose', n) /\ Fate(data, last', loose', n)
        /\ Working(job[w], n, z)'
    BY <1>1, <1>6, AcknowledgeKeeps
  <2>2. Persisted(n, z)'
    BY <1>1, <2>1 DEF Persisted, Indexed
  <2> QED
    BY <1>1, <1>4, <2>1, <2>2 DEF Session
<1> QED
  BY <1>5, <1>6 DEF Advance

(* The checkpoint's sync of the data keeps the invariant. *)
LEMMA CheckpointSyncKeeps ==
  ASSUME PTypeOK, NEW n \in 0 .. MaxOffset, NEW z \in 0 .. 1, Persisted(n, z), Session(n, z), NEW w \in Writers, Writers = {w},
         Syncing, CheckpointSync(w)
  PROVE  Persisted(n, z)' /\ Session(n, z)'
<1>1. /\ at = "open" /\ job[w].offset + 1 = n /\ highwater = n /\ Published(n, z)
      /\ job[w].height \in Heights /\ job[w].block \in Blocks
      /\ data[job[w].offset] = RecordOf(job[w])
      /\ NotWhole(data, disk.data, n) /\ Founded(View(index, z), mem.floor)
      /\ UNCHANGED <<data, index, header, at, highwater, mem, last, loose>>
      /\ Goto(w, "header")
  BY DEF CheckpointSync, files, Session, Working, Idle
<1>2. disk'.data = disk.data /\ disk'.index = index /\ disk'.header = header
  BY DiskType DEF CheckpointSync
<1>3. header.next <= header.next
  BY HeaderFields DEF PTypeOK
<1>4. Persisted(n, z)' /\ Published(n, z)'
  BY <1>1, <1>2, <1>3 DEF Persisted, Indexed, Published
<1>5. Working(job[w], n, z)'
  BY <1>1, <1>2, <1>4, GotoEffect DEF Working
<1> QED
  BY <1>1, <1>4, <1>5 DEF Session

(* The checkpoint's header keeps the invariant: it claims no more than the disk has. *)
LEMMA CheckpointHeaderKeeps ==
  ASSUME PTypeOK, NEW n \in 0 .. MaxOffset, NEW z \in 0 .. 1, Persisted(n, z), Session(n, z), NEW w \in Writers, Writers = {w},
         CheckpointHeader(w)
  PROVE  Persisted(n, z)' /\ Session(n, z)'
<1>1. /\ at = "open" /\ job[w].offset + 1 = n /\ highwater = n /\ Published(n, z)
      /\ job[w].height \in Heights /\ job[w].block \in Blocks
      /\ data[job[w].offset] = RecordOf(job[w])
      /\ NotWhole(data, disk.data, n) /\ Founded(View(index, z), mem.floor) /\ disk.index = index
      /\ UNCHANGED <<data, index, disk, at, highwater, mem>>
      /\ Acknowledge(w)
  BY DEF CheckpointHeader, Session, Working, Idle
<1>2. mem \in Header /\ disk.header.next \in Nat /\ header.next \in Nat
  BY DiskType, HeaderFields DEF PTypeOK
<1>3. header'.next = n /\ header'.floor = mem.floor /\ header'.min = z /\ header' # ZeroHeader
  <2>1. mem.min = z /\ job[w].offset + 1 \in 0 .. MaxOffset /\ n # 0
    BY <1>1 DEF Session, PTypeOK, Job
  <2>2. header'.next = n /\ header'.floor = mem.floor /\ header'.min = z
    BY <1>1, <1>2, <2>1, HeaderNext DEF CheckpointHeader
  <2> QED
    BY <2>1, <2>2 DEF ZeroHeader
<1>4. /\ Frontier(data, disk.data, loose', n) /\ Fate(data, last', loose', n)
      /\ Working(job[w], n, z)'
  BY <1>1, AcknowledgeKeeps
<1>5. \A J \in {index, disk.index} : Indexed(J, n, z)'
  BY <1>1, <1>3 DEF Persisted, Indexed, Published
<1>6. Persisted(n, z)'
  BY <1>1, <1>2, <1>3, <1>4, <1>5 DEF Persisted, Agrees
<1> QED
  BY <1>1, <1>4, <1>6 DEF Session

(* The sync of Drop keeps the invariant. *)
LEMMA CloseSyncKeeps ==
  ASSUME PTypeOK, NEW n \in 0 .. MaxOffset, NEW z \in 0 .. 1, Persisted(n, z), Session(n, z), NEW w \in Writers, Writers = {w},
         Syncing, CloseSync
  PROVE  Persisted(n, z)' /\ Session(n, z)'
<1>1. /\ at = "open" /\ job[w] = Idle /\ highwater = n /\ Published(n, z)
      /\ NotWhole(data, disk.data, n) /\ Founded(View(index, z), mem.floor)
      /\ UNCHANGED <<data, index, header, highwater, mem, last, loose, job>>
      /\ at' = "closing"
  BY DEF CloseSync, files, Session, Working
<1>2. disk'.data = disk.data /\ disk'.index = index /\ disk'.header = header
  BY DiskType DEF CloseSync
<1>3. header.next <= header.next
  BY HeaderFields DEF PTypeOK
<1>4. Persisted(n, z)' /\ Published(n, z)'
  BY <1>1, <1>2, <1>3 DEF Persisted, Indexed, Published
<1>5. job = [v \in Writers |-> Idle]
  BY <1>1 DEF PTypeOK
<1> QED
  BY <1>1, <1>2, <1>4, <1>5 DEF Session

(* The header of Drop keeps the invariant. *)
LEMMA CloseHeaderKeeps ==
  ASSUME PTypeOK, NEW n \in 0 .. MaxOffset, NEW z \in 0 .. 1, Persisted(n, z), Session(n, z), CloseHeader
  PROVE  \E y \in 0 .. 1 : Persisted(n, y)' /\ Session(n, y)'
<1> USE PowerLossAssumption
<1>1. /\ highwater = n /\ Published(n, z) /\ Founded(View(index, z), mem.floor) /\ disk.index = index
      /\ UNCHANGED <<data, index, disk, last, loose>> /\ mem.min = z
      /\ at' = "closed" /\ job' = [w \in Writers |-> Idle]
  BY DEF CloseHeader, Stopped, Session
<1>2. mem \in Header /\ mem.max \in Nat /\ disk.header.next \in Nat /\ header.next \in Nat
  BY DiskType, HeaderFields DEF PTypeOK
<1>3. CASE header' = header
  <2>1. Persisted(n, header.min) /\ header.min \in 0 .. 1
    BY Rebased
  <2>2. PICK y \in 0 .. 1 : y = header.min /\ Persisted(n, y)
    BY <2>1
  <2>3. Persisted(n, y)'
    BY <1>1, <1>3, <2>2 DEF Persisted, Indexed
  <2>4. Session(n, y)'
    BY <1>1, <1>3, <2>2 DEF Session
  <2> QED
    BY <2>3, <2>4
<1>4. CASE header' # header
  <2>1. header' = [mem EXCEPT !.next = highwater] /\ ~(highwater = 0 /\ mem.max >= mem.min)
    BY <1>4 DEF CloseHeader
  <2>2. header'.next = n /\ header'.floor = mem.floor /\ header'.min = z
    BY <1>1, <1>2, <2>1, HeaderNext
  <2>3. header' # ZeroHeader
    BY <1>1, <1>2, <2>1, <2>2 DEF ZeroHeader
  <2>4. \A J \in {index, disk.index} : Indexed(J, n, z)'
    BY <1>1, <2>2 DEF Persisted, Indexed, Published
  <2>5. Persisted(n, z)'
    BY <1>1, <1>2, <2>2, <2>3, <2>4 DEF Persisted, Agrees
  <2>6. Session(n, z)'
    BY <1>1, <2>2 DEF Session
  <2> QED
    BY <2>5, <2>6
<1> QED
  BY <1>3, <1>4

(* A crash of the process keeps the invariant: the files are what they were. *)
LEMMA CrashKeeps ==
  ASSUME PTypeOK, NEW n \in 0 .. MaxOffset, NEW z \in 0 .. 1, Persisted(n, z), Session(n, z), Crash
  PROVE  \E y \in 0 .. 1 : Persisted(n, y)' /\ Session(n, y)'
<1>1. PICK y \in 0 .. 1 : y = header.min /\ Persisted(n, y)
  BY Rebased
<1>2. /\ UNCHANGED <<data, index, header, disk, last, loose>>
      /\ at' = "closed" /\ job' = [w \in Writers |-> Idle]
  BY DEF Crash, files, Stopped
<1>3. Persisted(n, y)'
  BY <1>1, <1>2 DEF Persisted, Indexed
<1>4. Session(n, y)'
  BY <1>1, <1>2 DEF Session
<1> QED
  BY <1>3, <1>4

(* A loss of power keeps the invariant: what is left is what was on the disk. *)
LEMMA LosePowerKeeps ==
  ASSUME PTypeOK, NEW n \in 0 .. MaxOffset, NEW z \in 0 .. 1, Persisted(n, z), Session(n, z), LosePower
  PROVE  \E y \in 0 .. 1 : Persisted(n, y)' /\ Session(n, y)'
<1> USE PowerLossAssumption
<1>0. /\ index \in IndexFile /\ disk.index \in IndexFile /\ last \in Acked /\ loose \in Loose
      /\ header.next \in 0 .. n /\ disk.header.next \in 0 .. header.next
      /\ disk.header.min \in 0 .. 1
  BY DiskType, HeaderFields DEF PTypeOK, Acked, Loose, Persisted
<1>1. /\ data' = disk.data /\ index' = disk.index /\ header' = disk.header
      /\ UNCHANGED <<disk, last, loose>> /\ at' = "closed" /\ job' = [w \in Writers |-> Idle]
  BY DEF LosePower, Stopped
<1>2. Frontier(disk.data, disk.data, loose, n)
  BY DEF Persisted, Frontier
<1>3. \A p \in Slots : p < n => disk.data[p] = data[p] /\ data[p] \in Record
  BY DEF Persisted, Frontier
<1>4. Fate(disk.data, last, loose, n)
  BY <1>0, <1>3, SameBelow DEF Persisted
<1>5. ASSUME NEW y \in 0 .. 1, y = disk.header.min, Agrees(disk.header, y), Indexed(disk.index, n, y)'
      PROVE  Persisted(n, y)' /\ Session(n, y)'
  <2>1. Persisted(n, y)'
    BY <1>0, <1>1, <1>2, <1>4, <1>5 DEF Persisted
  <2>2. Session(n, y)'
    BY <1>1, <1>5 DEF Session
  <2> QED
    BY <2>1, <2>2
<1>6. CASE disk.header.min = z
  <2>1. Indexed(disk.index, n, z) /\ View(disk.index, z) \in Entries
    BY <1>0, ViewFile DEF Persisted
  <2>2. Within(View(disk.index, z), n)
    BY <1>0, <2>1, BelowWithin DEF Indexed
  <2>3. Covers(data, View(disk.index, z), disk.header.next)
    BY <1>0, <2>1, CoversLess DEF Indexed
  <2>4. disk.header.next \in 0 .. n
    BY <1>0
  <2>5. Straight(disk.data, View(disk.index, z), z) /\ Covers(disk.data, View(disk.index, z), disk.header.next)
    BY <1>3, <2>1, <2>2, <2>3, <2>4, SameBelow DEF Indexed
  <2>6. Indexed(disk.index, n, z)'
    BY <1>1, <2>1, <2>5 DEF Indexed
  <2> QED
    BY <1>5, <1>6, <2>6 DEF Persisted
<1>7. CASE disk.header.min # z
  <2>1. disk.header = ZeroHeader /\ disk.header.min = 0
    BY <1>7 DEF Persisted, Agrees, ZeroHeader
  <2>2. \A r \in Rows : disk.index[r] <= n
    BY DEF Persisted, Indexed
  <2>3. header'.next = 0 /\ header'.floor = 0 /\ disk'.header.floor = 0
    BY <1>1, <2>1 DEF ZeroHeader
  <2>4. Indexed(disk.index, n, 0)'
    BY <1>1, <2>2, <2>3 DEF Indexed, Straight, Covers, Founded, Heights, Slots
  <2> QED
    BY <1>5, <2>1, <2>4 DEF Agrees
<1> QED
  BY <1>6, <1>7

-----------------------------------------------------------------------------
(* Recovery. *)

(* The data file reaches to the offset in the header, so an open is not refused. *)
LEMMA LongEnough ==
  ASSUME PTypeOK, NEW n \in 0 .. MaxOffset, NEW z \in 0 .. 1, Persisted(n, z)
  PROVE  header.next <= Length /\ Length \in Int
<1> USE PowerLossAssumption, MarkersAssumption
<1> DEFINE S == {-1} \union {p \in Slots : data[p] # NoBlock}
<1>1. S \subseteq Int /\ S # {} /\ \A x \in S : x <= MaxOffset
  BY DEF Slots
<1>2. Length = Max(S) + 1
  BY DEF Length
<1>3. header.next \in 0 .. n
  BY HeaderFields DEF PTypeOK, Persisted
<1>4. header.next - 1 \in S
  <2>1. CASE header.next = 0
    BY <2>1
  <2>2. CASE header.next # 0
    <3>1. header.next - 1 \in Slots /\ header.next - 1 < n
      BY <1>3, <2>2 DEF Slots
    <3>2. data[header.next - 1] \in Record
      BY <3>1 DEF Persisted, Frontier
    <3> QED
      BY <3>1, <3>2
  <2> QED
    BY <2>1, <2>2
<1> HIDE DEF S
<1>5. MaxOffset \in Int
  OBVIOUS
<1>6. Max(S) \in S /\ \A y \in S : y <= Max(S)
  BY <1>1, <1>5, MaxOfBounded
<1>7. Max(S) \in Int /\ header.next - 1 <= Max(S)
  BY <1>1, <1>4, <1>6
<1> QED
  BY <1>2, <1>3, <1>7

(* The min_height of the session: what the header says, or the default for an empty file. *)
LEMMA OpenBase ==
  ASSUME PTypeOK, NEW n \in 0 .. MaxOffset, NEW z \in 0 .. 1, Persisted(n, z), Session(n, z), Open
  PROVE  \E y \in 0 .. 1 : /\ Persisted(n, y) /\ mem'.min = y
                           /\ mem'.next = header.next /\ mem'.floor = header.floor
<1> USE PowerLossAssumption
<1>0. index \in IndexFile /\ disk.index \in IndexFile /\ header.min = z
  BY DiskType DEF PTypeOK, Open, Session
<1>1. CASE mem' = header
  BY <1>0, <1>1
<1>2. CASE mem' # header
  <2>1. mem' = NewHeader /\ header = ZeroHeader /\ \A r \in Rows : index[r] = 0
    BY <1>2 DEF Open, HeaderRead
  <2>2. disk.header = ZeroHeader /\ \A r \in Rows : disk.index[r] = 0
    BY <2>1 DEF Persisted
  <2>3. header.next = 0 /\ header.floor = 0 /\ disk.header.floor = 0
    BY <2>1, <2>2 DEF ZeroHeader
  <2>4. ASSUME NEW J \in {index, disk.index} PROVE Indexed(J, n, 1)
    <3>1. \A r \in Rows : J[r] = 0
      BY <2>1, <2>2
    <3>2. \A h \in Heights : View(J, 1)[h] = 0
      BY <1>0, <3>1, ViewFile
    <3> QED
      BY <2>3, <3>1, <3>2 DEF Indexed, Straight, Covers, Founded, Heights, Slots
  <2>5. Persisted(n, 1)
    BY <2>1, <2>2, <2>4 DEF Persisted, Agrees
  <2> QED
    BY <2>1, <2>3, <2>5 DEF NewHeader
<1> QED
  BY <1>1, <1>2

(* A block that was cut off and is there all the same is found. *)
LEMMA OpenKeeps ==
  ASSUME PTypeOK, NEW n \in 0 .. MaxOffset, NEW z \in 0 .. 1, Persisted(n, z), Session(n, z), Settled, Open
  PROVE  \E m \in 0 .. MaxOffset, y \in 0 .. 1 : Persisted(m, y)' /\ Session(m, y)'
<1> USE PowerLossAssumption, MarkersAssumption
<1>0. /\ index \in IndexFile /\ disk.index \in IndexFile
      /\ header.next \in 0 .. n /\ header.floor \in 0 .. MaxHeight
  BY DiskType, HeaderFields DEF PTypeOK, Persisted
<1>a. PICK y \in 0 .. 1 : /\ Persisted(n, y) /\ mem'.min = y
                          /\ mem'.next = header.next /\ mem'.floor = header.floor
  BY OpenBase
<1>1. /\ at' = "scan" /\ disk.data = data /\ job = [w \in Writers |-> Idle]
      /\ UNCHANGED <<data, index, header, disk, job, last, loose>>
  <2>1. header.next <= Length /\ Length \in Int
    BY LongEnough
  <2> QED
    BY <1>0, <1>a, <2>1 DEF Open, files, Session
<1>b. Covers(data, View(index, y), header.next)
  BY <1>a DEF Persisted, Indexed
<1>2. CASE n \in Slots /\ data[n] \in Record
  <2>1. n + 1 \in 0 .. MaxOffset
    BY <1>2 DEF Slots
  <2>2. Frontier(data, data, loose, n + 1)
    BY <1>1, <1>2 DEF Persisted, Frontier, CutOff, Slots
  <2>3. NotWhole(data, data, n + 1)
    BY <1>1 DEF Persisted, Frontier, NotWhole, Slots
  <2>4. Fate(data, last, loose, n + 1)
    BY <1>2, FateMore DEF Persisted, Frontier, CutOff
  <2>5. \A J \in {index, disk.index} : Indexed(J, n + 1, y)
    BY <1>0, <1>a, IndexedMore DEF Persisted
  <2>6. Persisted(n + 1, y)'
    BY <1>0, <1>1, <1>a, <2>2, <2>4, <2>5 DEF Persisted, Indexed
  <2>7. Session(n + 1, y)'
    BY <1>0, <1>1, <1>a, <1>b, <2>3 DEF Session
  <2> QED
    BY <2>1, <2>6, <2>7
<1>3. CASE ~(n \in Slots /\ data[n] \in Record)
  <2>1. Persisted(n, y)'
    BY <1>1, <1>a DEF Persisted, Indexed
  <2>2. NotWhole(data, data, n)
    BY <1>3 DEF NotWhole
  <2>3. Session(n, y)'
    BY <1>0, <1>1, <1>a, <1>b, <2>2 DEF Session
  <2> QED
    BY <2>1, <2>3
<1> QED
  BY <1>2, <1>3

(* Indexing a record found by recovery keeps the invariant. *)
LEMMA ScanBlockKeeps ==
  ASSUME PTypeOK, NEW n \in 0 .. MaxOffset, NEW z \in 0 .. 1, Persisted(n, z), Session(n, z), ScanBlock
  PROVE  Persisted(n, z)' /\ Session(n, z)'
<1> USE PowerLossAssumption, MarkersAssumption
<1>0. /\ data \in DataFile /\ index \in IndexFile /\ mem \in Header
      /\ header.next \in 0 .. n
  BY HeaderFields DEF PTypeOK, DataFile, Persisted
<1>1. /\ header.next <= mem.next /\ mem.next <= n /\ NotWhole(data, disk.data, n) /\ disk.data = data
      /\ Covers(data, View(index, z), mem.next) /\ mem.floor = header.floor
      /\ at' \in {"scan", "progress"} /\ job = [w \in Writers |-> Idle] /\ mem.min = z
      /\ UNCHANGED <<data, header, disk, job, last, loose>>
  BY DEF ScanBlock, Session
<1>2. PICK p \in Slots : p = mem.next /\ data[p] \in Record
  BY <1>0 DEF ScanBlock, Whole, DataFile, Cells
<1>3. p < n
  BY <1>1, <1>2 DEF NotWhole, Slots
<1>4. index' = [index EXCEPT ![data[p].height - z] = p + 1]
  BY <1>1, <1>2 DEF ScanBlock, Row
<1>5. mem'.next = p + 1 /\ mem'.floor = mem.floor /\ mem'.min = z
  BY <1>0, <1>1, <1>2 DEF ScanBlock, Header
<1>6. \A q \in Slots : q <= p => data[q] \in Record
  BY <1>3 DEF Persisted, Frontier, Slots
<1>7. header.next <= p + 1 /\ p + 1 <= n /\ p + 1 # 0
  BY <1>0, <1>1, <1>2, <1>3 DEF Slots
<1>8. /\ Indexed(index', n, z) /\ Covers(data, View(index', z), p + 1)
      /\ \A r \in Rows : index[r] # 0 => index'[r] # 0
  <2>1. Indexed(index, n, z) /\ Covers(data, View(index, z), p)
    BY <1>1, <1>2 DEF Persisted
  <2> QED
    BY <1>2, <1>3, <1>4, <1>6, <1>7, <2>1, EntryWritten
<1>9. Persisted(n, z)'
  BY <1>1, <1>8 DEF Persisted, Indexed
<1> QED
  BY <1>1, <1>5, <1>7, <1>8, <1>9 DEF Session

(* The sync of the recovery's progress keeps the invariant. *)
LEMMA ProgressSyncKeeps ==
  ASSUME PTypeOK, NEW n \in 0 .. MaxOffset, NEW z \in 0 .. 1, Persisted(n, z), Session(n, z), ProgressSync
  PROVE  Persisted(n, z)' /\ Session(n, z)'
<1>1. disk'.data = disk.data /\ disk'.index = index /\ disk'.header = header
  BY DiskType DEF ProgressSync
<1>2. header.next <= header.next
  BY HeaderFields DEF PTypeOK
<1>3. at = "progress" /\ at' = "persist" /\ UNCHANGED <<data, index, header, mem, job, last, loose>>
  BY DEF ProgressSync, files
<1>4. Persisted(n, z)'
  BY <1>1, <1>2, <1>3 DEF Persisted, Indexed
<1> QED
  BY <1>1, <1>3, <1>4 DEF Session

(* The header of the recovery's progress keeps the invariant. *)
LEMMA ProgressHeaderKeeps ==
  ASSUME PTypeOK, NEW n \in 0 .. MaxOffset, NEW z \in 0 .. 1, Persisted(n, z), Session(n, z), ProgressHeader
  PROVE  Persisted(n, z)' /\ Session(n, z)'
<1>0. header.next \in Nat /\ disk.header.next \in Nat /\ mem.next \in Nat
  BY DiskType, HeaderFields DEF PTypeOK
<1>1. at = "persist" /\ at' = "scan" /\ header' = mem /\ UNCHANGED <<data, index, disk, mem, job, last, loose>>
  BY DEF ProgressHeader
<1>2. /\ header.next <= mem.next /\ mem.next <= n /\ Covers(data, View(index, z), mem.next)
      /\ mem.floor = header.floor /\ disk.index = index /\ mem.min = z /\ mem.next # 0
  BY <1>1 DEF Session
<1>a. mem # ZeroHeader
  BY <1>2 DEF ZeroHeader
<1>b. \A J \in {index, disk.index} : Indexed(J, n, z)'
  BY <1>1, <1>2 DEF Persisted, Indexed
<1>3. Persisted(n, z)'
  BY <1>0, <1>1, <1>2, <1>a, <1>b DEF Persisted, Agrees
<1> QED
  BY <1>0, <1>1, <1>2, <1>3 DEF Session

(* The end of recovery keeps the invariant. *)
LEMMA FinishRecoveryKeeps ==
  ASSUME PTypeOK, NEW n \in 0 .. MaxOffset, NEW z \in 0 .. 1, Persisted(n, z), Session(n, z), FinishRecovery
  PROVE  Persisted(n, z)' /\ Session(n, z)'
<1> USE PowerLossAssumption, MarkersAssumption
<1>1. /\ mem.next <= n /\ NotWhole(data, disk.data, n) /\ Covers(data, View(index, z), mem.next)
      /\ mem.floor = header.floor /\ job = [w \in Writers |-> Idle] /\ mem.min = z
      /\ at' = "open" /\ highwater' = mem.next
      /\ UNCHANGED <<data, index, header, disk, job, last, loose>>
  BY DEF FinishRecovery, files, Session
<1>2. mem \in Header /\ mem.next \in 0 .. MaxOffset /\ mem.floor \in 0 .. MaxHeight /\ mem.max \in 0 .. MaxHeight
  BY HeaderFields DEF PTypeOK
<1>3. mem.next = n
  <2>1. CASE mem.next < n
    <3>1. mem.next \in Slots
      BY <1>2, <2>1 DEF Slots
    <3>2. data[mem.next] \in Record
      BY <2>1, <3>1 DEF Persisted, Frontier
    <3> QED
      BY <3>1, <3>2 DEF FinishRecovery, Whole
  <2> QED
    BY <1>1, <1>2, <2>1
<1>4. Min({mem.floor, mem.max}) \in 0 .. MaxHeight /\ Min({mem.floor, mem.max}) <= mem.max
      /\ Min({mem.floor, mem.max}) <= mem.floor
  BY <1>2, MinOfTwo
<1>5. Founded(View(index, z), Min({mem.floor, mem.max}))
  <2>1. Founded(View(index, z), mem.floor)
    BY <1>1 DEF Persisted, Indexed
  <2> QED
    BY <1>2, <1>4, <2>1 DEF Founded, Heights
<1>6. Founded(View(index, z), Climb(Min({mem.floor, mem.max}), mem.max))
  BY <1>1, <1>2, <1>4, <1>5, ClimbFounded
<1>7. mem'.floor = Climb(Min({mem.floor, mem.max}), mem.max) /\ mem'.min = z
  BY <1>1, <1>2 DEF FinishRecovery, Header
<1>8. Persisted(n, z)' /\ Published(n, z)'
  <2>1. Persisted(n, z)'
    BY <1>1 DEF Persisted, Indexed
  <2>2. Within(View(index, z), n)
    BY BelowWithin DEF PTypeOK, Persisted, Indexed
  <2> QED
    BY <1>1, <1>3, <2>1, <2>2 DEF Persisted, Published
<1>9. Working(Idle, n, z)'
  BY <1>1, <1>3, <1>8 DEF Working, Idle
<1> QED
  BY <1>1, <1>6, <1>7, <1>8, <1>9 DEF Session

-----------------------------------------------------------------------------
(* The theorems. *)

OneWriter == \E w : Writers = {w}

(* An empty store satisfies the invariant. *)
LEMMA PInitInv ==
  ASSUME PInit, NEW w \in Writers, Writers = {w}
  PROVE  PInv
<1> USE PowerLossAssumption, MarkersAssumption
<1>1. /\ data = [p \in Slots |-> NoBlock] /\ index = [r \in Rows |-> 0] /\ header = NewHeader
      /\ disk.data = data /\ disk.index = index /\ disk.header = ZeroHeader /\ mem = NewHeader
      /\ disk = [data |-> data, index |-> index, header |-> ZeroHeader]
  BY DEF PInit
<1>2. data \in [Slots -> Cells] /\ index \in IndexFile /\ header \in Header
  BY <1>1, Blank DEF Cells, IndexFile
<1>3. PTypeOK
  BY <1>1, <1>2, Blank DEF PInit, PTypeOK
<1>4. /\ header.next = 0 /\ header.floor = 0 /\ header.min = 1 /\ header # ZeroHeader
      /\ disk.header.next = 0 /\ disk.header.floor = 0 /\ mem.floor = 0 /\ mem.min = 1
  BY <1>1 DEF NewHeader, ZeroHeader
<1>5. Frontier(data, data, loose, 0) /\ NotWhole(data, data, 0)
  BY <1>1 DEF Frontier, CutOff, NotWhole, Slots
<1>6. Fate(data, last, loose, 0)
  BY DEF PInit, Fate, Newest, Slots
<1>7. \A h \in Heights : View(index, 1)[h] = 0
  BY <1>1, <1>2, ViewFile
<1>8. /\ Within(View(index, 1), 0) /\ Covers(data, View(index, 1), 0)
      /\ Founded(View(index, 1), 0) /\ Straight(data, View(index, 1), 1)
  BY <1>7 DEF Within, Straight, Covers, Founded, Heights, Slots
<1>a. Indexed(index, 0, 1)
  BY <1>1, <1>4, <1>8 DEF Indexed
<1>b. Persisted(0, 1)
  BY <1>1, <1>4, <1>5, <1>6, <1>a DEF Persisted, Agrees
<1>9. highwater = 0 /\ at = "open" /\ job = [v \in Writers |-> Idle]
  BY DEF PInit
<1>10. Working(Idle, 0, 1)
  BY <1>1, <1>5, <1>6, <1>8, <1>9 DEF Working, Published, Idle
<1>11. Session(0, 1)
  BY <1>4, <1>8, <1>9, <1>10 DEF Session
<1> QED
  BY <1>3, <1>b, <1>11 DEF PInv

(* Every step keeps the invariant. *)
LEMMA PNextInv ==
  ASSUME PInv, PNext, Syncing, Settled, NEW w \in Writers, Writers = {w}
  PROVE  PInv'
<1> USE PowerLossAssumption
<1>1. PICK n \in 0 .. MaxOffset, z \in 0 .. 1 : Persisted(n, z) /\ Session(n, z)
  BY DEF PInv
<1>2. PTypeOK /\ PTypeOK'
  BY <1>1, StepKeepsPType DEF PInv
<1>3. ASSUME NEW h \in Heights, NEW b \in Blocks, Reserve(w, h, b) PROVE PInv'
  BY <1>1, <1>2, <1>3, ReserveKeeps DEF PInv
<1>4. CASE WriteBack
  BY <1>1, <1>2, <1>4, WriteBackKeeps DEF PInv
<1>5. CASE WriteData(w) \/ WriteEntry(w)
  BY <1>1, <1>2, <1>5, WriteDataKeeps, WriteEntryKeeps DEF PInv
<1>6. CASE SyncBlock(w)
  BY <1>1, <1>2, <1>6, SyncBlockKeeps DEF PInv
<1>7. CASE Advance(w)
  BY <1>1, <1>2, <1>7, AdvanceKeeps DEF PInv
<1>8. CASE CheckpointSync(w) \/ CheckpointHeader(w)
  BY <1>1, <1>2, <1>8, CheckpointSyncKeeps, CheckpointHeaderKeeps DEF PInv
<1>9. CASE CloseSync \/ CloseHeader
  BY <1>1, <1>2, <1>9, CloseSyncKeeps, CloseHeaderKeeps DEF PInv
<1>10. CASE Crash \/ LosePower
  BY <1>1, <1>2, <1>10, CrashKeeps, LosePowerKeeps DEF PInv
<1>11. CASE Open
  BY <1>1, <1>2, <1>11, OpenKeeps DEF PInv
<1>12. CASE ScanBlock \/ ProgressSync
  BY <1>1, <1>2, <1>12, ScanBlockKeeps, ProgressSyncKeeps DEF PInv
<1>13. CASE ProgressHeader \/ FinishRecovery
  BY <1>1, <1>2, <1>13, ProgressHeaderKeeps, FinishRecoveryKeeps DEF PInv
<1> QED
  BY <1>3, <1>4, <1>5, <1>6, <1>7, <1>8, <1>9, <1>10, <1>11, <1>12, <1>13 DEF PNext

(***************************************************************************)
(* The invariant of a store that one writer uses in SyncMode::Sync.        *)
(***************************************************************************)
THEOREM PInvAlways == OneWriter /\ Syncing /\ Settled => (PSpec => []PInv)
<1> SUFFICES ASSUME OneWriter, Syncing, Settled PROVE PSpec => []PInv
  OBVIOUS
<1>1. PICK w \in Writers : Writers = {w}
  BY DEF OneWriter
<1>2. PInit => PInv
  BY <1>1, PInitInv
<1>3. PInv /\ [PNext]_pvars => PInv'
  <2>1. CASE PNext
    BY <1>1, <2>1, PNextInv
  <2>2. ASSUME PInv, UNCHANGED pvars PROVE PInv'
    BY <2>2 DEF pvars, files, PInv, PTypeOK, Persisted, Indexed, Session, Working, Published
  <2> QED
    BY <2>1, <2>2
<1> QED
  BY <1>2, <1>3, PTL DEF PSpec

(***************************************************************************)
(* What an open store reads at h: a block, if there is an entry, and the   *)
(* newest of the height below the published frontier, which was            *)
(* acknowledged or cut off, if the height was acknowledged or min_height   *)
(* is what it was.                                                         *)
(***************************************************************************)
LEMMA ReadNewest ==
  ASSUME PTypeOK, NEW n \in 0 .. MaxOffset, NEW z \in 0 .. 1, Persisted(n, z), mem.min = z,
         NEW k \in 0 .. n, Published(k, z), NEW h \in Heights
  PROVE  /\ last[h] # NoBlock \/ z = 1 => Right(h)
         /\ View(index, z)[h] # 0 => Read(h) \in Blocks
<1> USE PowerLossAssumption, MarkersAssumption
<1>1. PICK e \in 0 .. MaxOffset : e = View(index, z)[h] /\ e = index[Row(h)] /\ e <= k
  <2>1. View(index, z) \in Entries /\ View(index, z)[h] = index[Row(h)]
    BY ViewFile DEF PTypeOK, Row
  <2> QED
    BY <2>1 DEF Entries, Published, Within
<1>2. \A p \in Slots : p < k => data[p] \in Record
  BY DEF Persisted, Frontier, Slots
<1>3. ASSUME NEW p \in Slots, p < k, data[p].height = h
      PROVE  p < e /\ data[e - 1].height = h
  BY <1>1, <1>3 DEF Published, Covers
<1>4. CASE e = 0
  <2>1. Read(h) = NoBlock
    <3>1. ~ Whole(e - 1)
      BY <1>4 DEF Whole, Slots
    <3> QED
      BY <1>1, <1>4, <3>1 DEF Read
  <2>2. \A p \in Slots : p < k => data[p].height # h
    BY <1>3, <1>4 DEF Slots
  <2>3. last[h] = NoBlock
    BY <2>2 DEF Published, Fate
  <2> QED
    BY <1>1, <1>4, <2>1, <2>3 DEF Right
<1>5. CASE e # 0
  <2>1. PICK p \in Slots : p = e - 1 /\ p < k
    BY <1>1, <1>5 DEF Slots
  <2>2. data[p] \in Record /\ data[p].block \in Blocks
    BY <1>2, <2>1 DEF Record
  <2>3. Whole(e - 1)
    BY <2>1, <2>2 DEF Whole
  <2>4. Read(h) = data[p].block
    BY <1>1, <1>5, <2>1, <2>3 DEF Read
  <2>5. ASSUME last[h] # NoBlock \/ z = 1 PROVE data[p].height = h
    <3>1. CASE z = 1
      BY <1>1, <1>5, <2>1, <3>1 DEF Persisted, Indexed, Straight
    <3>2. CASE last[h] # NoBlock
      <4>1. PICK q \in Slots : q < k /\ data[q].height = h
        BY <3>2 DEF Published, Fate
      <4> QED
        BY <1>3, <2>1, <4>1
    <3> QED
      BY <2>5, <3>1, <3>2
  <2>6. ASSUME data[p].height = h PROVE Right(h)
    <3>1. ASSUME NEW q \in Slots, p < q, q < k, data[q].height = h PROVE FALSE
      BY <1>3, <2>1, <3>1 DEF Slots
    <3>2. Newest(data, p, k)
      BY <2>1, <2>6, <3>1 DEF Newest
    <3> QED
      BY <2>4, <2>6, <3>2 DEF Published, Fate, Right
  <2> QED
    BY <2>2, <2>4, <2>5, <2>6
<1> QED
  BY <1>4, <1>5

(* In an open store every record below some point is indexed. *)
LEMMA OpenPublished ==
  ASSUME NEW n \in 0 .. MaxOffset, NEW z, PTypeOK, Session(n, z), at = "open", NEW w \in Writers
  PROVE  \E k \in 0 .. n : Published(k, z)
<1>1. Working(job[w], n, z) /\ job[w] \in Job
  BY DEF Session, PTypeOK
<1>2. n \in 0 .. n
  OBVIOUS
<1>3. CASE job[w].stage = "index"
  <2>1. job[w].offset \in 0 .. n /\ Published(job[w].offset, z)
    BY <1>1, <1>3 DEF Working, Job
  <2> QED
    BY <2>1
<1>4. CASE job[w].stage # "index"
  <2>1. Published(n, z)
    BY <1>1, <1>4 DEF Working, Job
  <2> QED
    BY <1>2, <2>1
<1> QED
  BY <1>3, <1>4

(***************************************************************************)
(* No loss of power, however many there are and wherever they fall in a    *)
(* write, a checkpoint, a shutdown or a recovery, takes an acknowledged    *)
(* block or makes the store refuse to open; the header of the new store    *)
(* need not have reached the disk.  Where it has, nothing is read for a    *)
(* height that was never written either.                                   *)
(***************************************************************************)
THEOREM PowerAckedKept == OneWriter /\ Syncing /\ Settled => (PSpec => []AckedKept)
<1> SUFFICES ASSUME OneWriter, Syncing, Settled PROVE PSpec => []AckedKept
  OBVIOUS
<1>1. PICK w \in Writers : Writers = {w}
  BY DEF OneWriter
<1>2. PInv => AckedKept
  <2> SUFFICES ASSUME PInv PROVE AckedKept
    OBVIOUS
  <2>1. PICK n \in 0 .. MaxOffset, z \in 0 .. 1 : PTypeOK /\ Persisted(n, z) /\ Session(n, z)
    BY DEF PInv
  <2>2. ASSUME at = "open", NEW h \in Heights, last[h] # NoBlock \/ mem.min = 1 PROVE Right(h)
    <3>1. PICK k \in 0 .. n : Published(k, z)
      BY <2>1, <2>2, OpenPublished
    <3>2. mem.min = z
      BY <2>1, <2>2 DEF Session
    <3> QED
      BY <2>1, <2>2, <3>1, <3>2, ReadNewest
  <2> QED
    BY <2>1, <2>2 DEF AckedKept, Session
<1>3. PSpec => []PInv
  BY PInvAlways
<1> QED
  BY <1>2, <1>3, PTL

(***************************************************************************)
(* Whatever survives, every height up to the floor can be read.            *)
(***************************************************************************)
THEOREM PowerFloorDurable == OneWriter /\ Syncing /\ Settled => (PSpec => []FloorDurable)
<1> SUFFICES ASSUME OneWriter, Syncing, Settled PROVE PSpec => []FloorDurable
  OBVIOUS
<1>1. PICK w \in Writers : Writers = {w}
  BY DEF OneWriter
<1>2. PInv => FloorDurable
  <2> SUFFICES ASSUME PInv, at = "open", NEW h \in 1 .. mem.floor
               PROVE  Read(h) \notin {NoBlock, Failure}
    BY DEF FloorDurable
  <2>1. PICK n \in 0 .. MaxOffset, z \in 0 .. 1 : PTypeOK /\ Persisted(n, z) /\ Session(n, z)
    BY DEF PInv
  <2>2. PICK k \in 0 .. n : Published(k, z)
    BY <2>1, OpenPublished
  <2>3. h \in Heights /\ h <= mem.floor
    BY <2>1, HeaderFields, PowerLossAssumption DEF PTypeOK, Heights
  <2>4. View(index, z)[h] # 0 /\ mem.min = z
    BY <2>1, <2>3 DEF Session, Founded
  <2>5. Read(h) \in Blocks
    BY <2>1, <2>2, <2>3, <2>4, ReadNewest
  <2> QED
    BY <2>5, MarkersAssumption
<1>3. PSpec => []PInv
  BY PInvAlways
<1> QED
  BY <1>2, <1>3, PTL

=============================================================================
