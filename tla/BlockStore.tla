----------------------------- MODULE BlockStore -----------------------------
(***************************************************************************)
(* The store as a whole (blockstore/src/store.rs, file_set.rs): concurrent *)
(* write_block calls, the index file with its header, the data files,      *)
(* checkpoints, clean shutdown, a crash of the process at any instant, and *)
(* the recovery scan of the next open.                                     *)
(*                                                                         *)
(* Space allocation is the module Reservation and the contiguity floor the *)
(* module Contiguity; their actions are steps of the writers here.         *)
(*                                                                         *)
(* A data file is a sequence of cells.  A block is HeaderSize header cells *)
(* and block.size payload cells; a cell remembers the block and the height *)
(* it was written for, and its place, so that a header is read exactly     *)
(* from the cells of one header, and decompression and the checksum        *)
(* succeed exactly on the payload of one block (blocks of different        *)
(* heights are taken to have different bytes).  A process crash keeps      *)
(* every byte that was written (the page cache survives); loss of power is *)
(* the module PowerLoss.                                                   *)
(***************************************************************************)
EXTENDS Integers, Sequences, FiniteSetsExt

CONSTANTS
  Writers,             \* threads that call write_block
  MinHeight,           \* the lowest height of the store
  MaxHeight,           \* bound: the largest height written
  Ids, Sizes,          \* a block is an id and a (compressed) size
  HeaderSize,          \* BlockHeader::SERIALIZED_SIZE
  Cap,                 \* max_data_file_size, 0 for None
  MaxOffset,           \* bound on the data: offsets are below it
  MaxFileIndex,        \* bound on the file index
  MaxBlockSize,        \* BlockHeader::MAX_BLOCK_SIZE
  CheckpointInterval,  \* Store::CHECKPOINT_INTERVAL
  CheckpointBytes,     \* Store::CHECKPOINT_BYTES
  WindowSize,          \* ScanWindow::DEFAULT_BYTES
  ChunkEntries,        \* CHUNK_ENTRIES of scan_contiguous_floor
  Syncing,             \* TRUE for SyncMode::Sync
  MaxWrites,           \* bound on the number of write_block calls
  MaxFailures,         \* bound on the number of I/O errors
  MaxCrashes           \* bound on the number of crashes

ASSUME BlockStoreAssumption ==
  /\ MinHeight \in Nat /\ MaxHeight \in Nat
  /\ Sizes \subseteq Nat \ {0} /\ HeaderSize \in Nat \ {0}
  /\ Cap \in Nat /\ MaxOffset \in Nat \ {0} /\ MaxFileIndex \in Nat
  /\ MaxBlockSize \in Nat
  /\ CheckpointInterval \in Nat \ {0} /\ CheckpointBytes \in Nat \ {0}
  /\ WindowSize \in Nat \ {0} /\ ChunkEntries \in Nat \ {0} /\ Syncing \in BOOLEAN
  /\ MaxWrites \in Nat /\ MaxFailures \in Nat /\ MaxCrashes \in Nat

VARIABLES
  \* on disk
  index,         \* the index file: height -> entry
  header,        \* its header
  data,          \* the cells of the data files, by global offset
  flen,          \* the length of each data file, Absent if it does not exist
  \* in memory: Reservation
  data_highwater, rsv, landed, holes,
  \* in memory: Contiguity
  max_contiguous_height, height_highwater, at, height, prev,
  \* in memory: the rest
  last_checkpoint_offset,
  mode,          \* whether the store is open
  scan,          \* the recovery scan: next, end, last progress, window
  pc, job, snap, \* the writers' program counters and locals
  \* what the callers know, and the bounds
  last,          \* last[h]: the last block published at h, or Nothing
  loose,         \* loose[h]: the blocks a reopen may find there instead
  acked,         \* the heights with an acknowledged write
  writes, failures, crashes

Heights == MinHeight .. MaxHeight
Offsets == 0 .. MaxOffset - 1
Block == [id : Ids, size : Sizes]
Entry == [offset : Offsets, size : Sizes]
NoEntry == [offset |-> 0, size |-> 0]

R == INSTANCE Reservation WITH
       Sizes <- {s + HeaderSize : s \in Sizes}, Start <- 0
C == INSTANCE Contiguity WITH ZeroEntry <- NoEntry
W == INSTANCE ScanWindow WITH DefaultSize <- WindowSize

disk == <<index, header, data, flen>>
reserve == <<data_highwater, rsv, landed, holes>>
floor == <<max_contiguous_height, height_highwater, at, height, prev>>
local == <<pc, job, snap>>
session == <<mode, scan>>
known == <<last, loose, acked, writes, failures, crashes>>
vars == <<disk, reserve, floor, last_checkpoint_offset, local, session, known>>

-----------------------------------------------------------------------------
(* Data files and cells. *)

Absent == -1

FileOf(o) == R!SplitOffset(o).file
LocalOffset(o) == R!SplitOffset(o).local

Files == {FileOf(o) : o \in Offsets}
OnDisk == {f \in Files : flen[f] # Absent}

ZeroCell == [kind |-> "zero"]
TornCell == [kind |-> "torn"]
HeaderCell(h, b) == [kind |-> "header", height |-> h, block |-> b]
RestCell(h, b, i) == [kind |-> "rest", height |-> h, block |-> b, pos |-> i]
PayloadCell(h, b, i) == [kind |-> "payload", height |-> h, block |-> b, pos |-> i]

Cell == {ZeroCell, TornCell}
          \union {HeaderCell(h, b) : h \in Heights, b \in Block}
          \union {RestCell(h, b, i) : h \in Heights, b \in Block, i \in 1 .. HeaderSize - 1}
          \union {PayloadCell(h, b, i) : h \in Heights, b \in Block, i \in 1 .. MaxOffset}

Larger(m, n) == IF m < n THEN n ELSE m

(* The file of offset o is at least as long as to hold o .. o + n - 1. *)
Grown(o, n) ==
  [flen EXCEPT ![FileOf(o)] = IF n = 0 THEN @ ELSE Larger(@, LocalOffset(o) + n)]

Covered(o, n) == LocalOffset(o) + n <= flen[FileOf(o)]

(* The first n payload cells of the block that w writes, behind its header. *)
WithPayload(w, n) ==
  [c \in Offsets |->
     LET i == c - (job[w].offset + HeaderSize - 1)
     IN IF i \in 1 .. n THEN PayloadCell(job[w].height, job[w].block, i) ELSE data[c]]

(* Byte i of a header: the first one, from 0 on, stands for its fields. *)
HeaderPart(h, b, i) == IF i = 0 THEN HeaderCell(h, b) ELSE RestCell(h, b, i)

(* The first n cells of the header of that block. *)
WithHeader(w, n) ==
  [c \in Offsets |->
     LET i == c - job[w].offset
     IN IF i \in 0 .. n - 1 THEN HeaderPart(job[w].height, job[w].block, i) ELSE data[c]]

(* A whole header at o: it is read as that of block b at height h. *)
HeaderAt(o, h, b) == \A i \in 0 .. HeaderSize - 1 : data[o + i] = HeaderPart(h, b, i)

(***************************************************************************)
(* The payload of the block at o decompresses, with the header's checksum. *)
(***************************************************************************)
Intact(o, h, b) ==
  \A i \in 1 .. b.size : data[o + HeaderSize - 1 + i] = PayloadCell(h, b, i)

-----------------------------------------------------------------------------
(* What a caller of read_block gets. *)

Nothing == [id |-> "none", size |-> 0]
Failure == [id |-> "error", size |-> 0]

(***************************************************************************)
(* Store::read_block.  The height in the block's header is not compared.   *)
(***************************************************************************)
ReadBlock(h) ==
  LET e == C!ReadEntry(h) IN
  IF e.size = 0 THEN Nothing
  ELSE IF /\ e.size <= MaxBlockSize
          /\ Covered(e.offset, HeaderSize + e.size)
          /\ data[e.offset].kind = "header"
          /\ data[e.offset].block.size = e.size
          /\ HeaderAt(e.offset, data[e.offset].height, data[e.offset].block)
          /\ Intact(e.offset, data[e.offset].height, data[e.offset].block)
       THEN data[e.offset].block
       ELSE Failure

-----------------------------------------------------------------------------
(* A fresh store: Store::open with truncate. *)

NoJob == [height |-> 0, block |-> Nothing, offset |-> 0, saved |-> 0, alone |-> TRUE]
NoSnap == [max_height |-> 0, highest_contiguous |-> 0]
NoScan == [next |-> 0, end |-> 0, progress |-> 0, window |-> W!EmptyWindow]

Init ==
  /\ index = [h \in Heights |-> NoEntry]
  /\ header = [next_write_offset |-> 0, max_height |-> 0, highest_contiguous |-> 0]
  /\ data = [o \in Offsets |-> ZeroCell]
  /\ flen = [f \in Files |-> Absent]
  /\ data_highwater = 0
  /\ rsv = [w \in Writers |-> R!NoReservation]
  /\ landed = {}
  /\ holes = {}
  /\ max_contiguous_height = C!FloorIfEmpty
  /\ height_highwater = C!FloorIfEmpty
  /\ at = [w \in Writers |-> "idle"]
  /\ height = [w \in Writers |-> MinHeight]
  /\ prev = [w \in Writers |-> 0]
  /\ last_checkpoint_offset = 0
  /\ mode = "open"
  /\ scan = NoScan
  /\ pc = [w \in Writers |-> "idle"]
  /\ job = [w \in Writers |-> NoJob]
  /\ snap = [w \in Writers |-> NoSnap]
  /\ last = [h \in Heights |-> Nothing]
  /\ loose = [h \in Heights |-> {}]
  /\ acked = {}
  /\ writes = 0 /\ failures = 0 /\ crashes = 0

-----------------------------------------------------------------------------
(* write_block, up to the point where the data has landed. *)

Goto(w, p) == pc' = [pc EXCEPT ![w] = p]

(* The block of the write is not in the index yet. *)
Unpublished == {"resolve", "payload", "header", "release", "publish"}

(* write_block returns: its locals are gone. *)
Return(w) ==
  /\ Goto(w, "idle")
  /\ job' = [job EXCEPT ![w] = NoJob]
  /\ snap' = [snap EXCEPT ![w] = NoSnap]

InFlight(h) == {w \in Writers : pc[w] # "idle" /\ job[w].height = h}

(* The block of w may or may not be there after the next open. *)
MayReappear(w) == loose' = [loose EXCEPT ![job[w].height] = @ \union {job[w].block}]

(* Returns Ok: the caller may rely on the block. *)
ReturnOk(w) ==
  /\ Return(w)
  /\ acked' = acked \union {job[w].height}
  /\ UNCHANGED <<last, loose, writes, failures, crashes>>

(* Returns an error. *)
ReturnErr(w) ==
  /\ failures < MaxFailures
  /\ failures' = failures + 1
  /\ Return(w)
  /\ UNCHANGED <<last, acked, writes, crashes>>

(* A write of b at height h that reserves size cells. *)
BeginWriteOf(w, h, b, size) ==
  /\ mode = "open"
  /\ pc[w] = "idle"
  /\ writes < MaxWrites
  /\ writes' = writes + 1
  /\ R!ReserveSpace(w, size)
  /\ job' = [v \in Writers |->
               IF v = w
               THEN [height |-> h, block |-> b, offset |-> rsv'[w].offset,
                     saved |-> rsv'[w].end, alone |-> InFlight(h) = {}]
               ELSE [job[v] EXCEPT !.alone = @ /\ v \notin InFlight(h)]]
  /\ Goto(w, "resolve")
  /\ UNCHANGED <<disk, floor, last_checkpoint_offset, session, snap,
                 last, loose, acked, failures, crashes>>

(* Faulty variant: reserves the payload only. *)
BeginWriteNoHeader(w, h, b) == BeginWriteOf(w, h, b, b.size)

(***************************************************************************)
(* write_block reserves room for the header and the compressed block.  An  *)
(* empty block or a height below min_height is refused before that, and a  *)
(* failed reservation changes nothing.                                     *)
(***************************************************************************)
BeginWrite(w, h, b) == BeginWriteOf(w, h, b, HeaderSize + b.size)

(* FileSet::resolve: get_or_open creates the file if there is none. *)
Resolve(w) ==
  /\ pc[w] = "resolve"
  /\ flen' = [flen EXCEPT ![FileOf(job[w].offset)] = Larger(@, 0)]
  /\ Goto(w, "payload")
  /\ UNCHANGED <<index, header, data, reserve, floor, last_checkpoint_offset,
                 session, job, snap, known>>

WritePayload(w) ==
  /\ pc[w] = "payload"
  /\ LET b == job[w].block
         o == job[w].offset
     IN /\ data' = WithPayload(w, b.size)
        /\ flen' = Grown(o, HeaderSize + b.size)
  /\ Goto(w, "header")
  /\ UNCHANGED <<index, header, reserve, floor, last_checkpoint_offset,
                 session, job, snap, known>>

(* The commit point, and the sync that follows it in SyncMode::Sync. *)
WriteHeader(w) ==
  /\ pc[w] = "header"
  /\ data' = WithHeader(w, HeaderSize)
  /\ flen' = Grown(job[w].offset, HeaderSize)
  /\ R!Land(w)
  /\ Goto(w, "publish")
  /\ UNCHANGED <<index, header, floor, last_checkpoint_offset,
                 session, job, snap, known>>

(***************************************************************************)
(* An I/O error, or the crash of the process, inside one of these steps.   *)
(* Some of the bytes may have landed: a prefix of the payload, a part of   *)
(* the header, or all of it when the sync failed.  A writer that got       *)
(* the error goes on to release its reservation; one that was cut off by   *)
(* a crash never runs again.                                               *)
(***************************************************************************)
MayBreak == failures < MaxFailures \/ crashes < MaxCrashes

BreakOff(w) == MayBreak /\ Goto(w, "release")

ResolveFails(w) ==
  /\ pc[w] = "resolve"
  /\ \E created \in BOOLEAN :
       flen' = IF created THEN [flen EXCEPT ![FileOf(job[w].offset)] = Larger(@, 0)]
                          ELSE flen
  /\ BreakOff(w)
  /\ UNCHANGED <<index, header, data, reserve, floor, last_checkpoint_offset,
                 session, job, snap, known>>

PayloadFails(w) ==
  /\ pc[w] = "payload"
  /\ LET b == job[w].block
         o == job[w].offset
     IN \E n \in 0 .. b.size - 1 :
          /\ data' = WithPayload(w, n)
          /\ flen' = IF n = 0 THEN flen ELSE Grown(o, HeaderSize + n)
  /\ BreakOff(w)
  /\ UNCHANGED <<index, header, reserve, floor, last_checkpoint_offset,
                 session, job, snap, known>>

HeaderFails(w) ==
  /\ pc[w] = "header"
  /\ \/ \E n \in 0 .. HeaderSize - 1 :
          \/ data' = WithHeader(w, n)
          \/ data' = [WithHeader(w, n) EXCEPT ![job[w].offset + n] = TornCell]
     \/ Syncing /\ data' = WithHeader(w, HeaderSize)
  /\ BreakOff(w)
  /\ UNCHANGED <<index, header, flen, reserve, floor, last_checkpoint_offset,
                 session, job, snap, known>>

ReleaseReservation(w) ==
  /\ pc[w] = "release"
  /\ R!ReleaseReservation(w)
  /\ ReturnErr(w)
  /\ MayReappear(w)
  /\ UNCHANGED <<disk, floor, last_checkpoint_offset, session>>

-----------------------------------------------------------------------------
(* write_block, from the index entry on. *)

(* update_index_at *)
Publish(w) ==
  /\ pc[w] = "publish"
  /\ C!PublishEntry(w, job[w].height,
                    [offset |-> job[w].offset, size |-> job[w].block.size])
  /\ Goto(w, "advance")
  /\ LET h == job[w].height IN
       /\ last' = [last EXCEPT ![h] = job[w].block]
       /\ loose' = [loose EXCEPT ![h] =
                      IF job[w].alone THEN {} ELSE @ \union {job[w].block}]
  /\ UNCHANGED <<header, data, flen, reserve, last_checkpoint_offset, session,
                 job, snap, acked, writes, failures, crashes>>

(* The index write failed: the data stays where it is, unreferenced. *)
PublishFails(w) ==
  /\ pc[w] = "publish"
  /\ ReturnErr(w)
  /\ MayReappear(w)
  /\ UNCHANGED <<disk, reserve, floor, last_checkpoint_offset, session>>

(* advance_max_contiguous_height *)
AdvanceFloor(w) ==
  /\ pc[w] = "advance"
  /\ C!CompareExchange(w) \/ C!CascadeRead(w) \/ C!CascadeExchange(w)
  /\ UNCHANGED <<header, data, flen, reserve, last_checkpoint_offset, session,
                 local, known>>

(* update_highwater tells whether the tip rose: the first trigger. *)
RaiseHighwater(w) ==
  /\ pc[w] = "advance"
  /\ C!UpdateHighwater(w)
  /\ Goto(w, IF /\ height_highwater < job[w].height
                /\ job[w].height % CheckpointInterval = 0
             THEN "load" ELSE "decide")
  /\ UNCHANGED <<header, data, flen, reserve, last_checkpoint_offset, session,
                 job, snap, known>>

(* Faulty variant: one byte late. *)
ByteTriggerLate(w) == job[w].saved - last_checkpoint_offset > CheckpointBytes

(* The second trigger: bytes since the last checkpoint (saturating). *)
ByteTrigger(w) == job[w].saved - last_checkpoint_offset >= CheckpointBytes

NoCheckpointDue(w) ==
  /\ pc[w] = "decide"
  /\ ~ByteTrigger(w)
  /\ ReturnOk(w)
  /\ UNCHANGED <<disk, reserve, floor, last_checkpoint_offset, session>>

CheckpointDue(w) ==
  /\ pc[w] = "decide"
  /\ ByteTrigger(w)
  /\ Goto(w, "load")
  /\ UNCHANGED <<disk, reserve, floor, last_checkpoint_offset, session,
                 job, snap, known>>

(* checkpoint: the two atomics are loaded one after the other ... *)
CheckpointLoad(w) ==
  /\ \/ /\ pc[w] = "load"
        /\ snap' = [snap EXCEPT ![w].max_height = height_highwater]
        /\ Goto(w, "loadfloor")
     \/ /\ pc[w] = "loadfloor"
        /\ snap' = [snap EXCEPT ![w].highest_contiguous = max_contiguous_height]
        /\ Goto(w, "write")
  /\ UNCHANGED <<disk, reserve, floor, last_checkpoint_offset, session,
                 job, known>>

(* ... and the header is written. *)
CheckpointWrite(w) ==
  /\ pc[w] = "write"
  /\ header' = [next_write_offset |-> job[w].saved,
                max_height |-> snap[w].max_height,
                highest_contiguous |-> snap[w].highest_contiguous]
  /\ Goto(w, "store")
  /\ UNCHANGED <<index, data, flen, reserve, floor, last_checkpoint_offset,
                 session, job, snap, known>>

(* The sync or the write of the header failed: write_block returns it. *)
CheckpointFails(w) ==
  /\ pc[w] = "write"
  /\ ReturnErr(w)
  /\ UNCHANGED <<disk, reserve, floor, last_checkpoint_offset, session, loose>>

CheckpointStore(w) ==
  /\ pc[w] = "store"
  /\ last_checkpoint_offset' = job[w].saved
  /\ ReturnOk(w)
  /\ UNCHANGED <<disk, reserve, floor, session>>

WriterStep(w) ==
  \/ Resolve(w) \/ WritePayload(w) \/ WriteHeader(w)
  \/ Publish(w) \/ AdvanceFloor(w) \/ RaiseHighwater(w)
  \/ NoCheckpointDue(w) \/ CheckpointDue(w)
  \/ CheckpointLoad(w) \/ CheckpointWrite(w) \/ CheckpointStore(w)

WriterFault(w) ==
  \/ ResolveFails(w) \/ PayloadFails(w) \/ HeaderFails(w)
  \/ ReleaseReservation(w) \/ PublishFails(w) \/ CheckpointFails(w)

-----------------------------------------------------------------------------
(* The end of a session. *)

AllIdle == \A w \in Writers : pc[w] = "idle"

(* Nothing in memory outlives the process. *)
MemoryGone ==
  /\ data_highwater' = 0
  /\ rsv' = [w \in Writers |-> R!NoReservation]
  /\ landed' = {}
  /\ holes' = {}
  /\ max_contiguous_height' = C!FloorIfEmpty
  /\ height_highwater' = C!FloorIfEmpty
  /\ at' = [w \in Writers |-> "idle"]
  /\ height' = [w \in Writers |-> MinHeight]
  /\ prev' = [w \in Writers |-> 0]
  /\ last_checkpoint_offset' = 0
  /\ scan' = NoScan
  /\ pc' = [w \in Writers |-> "idle"]
  /\ job' = [w \in Writers |-> NoJob]
  /\ snap' = [w \in Writers |-> NoSnap]
  /\ mode' = "down"

(* Drop: a last checkpoint, refused if the offset makes no sense. *)
Close ==
  /\ mode = "open"
  /\ AllIdle
  /\ header' = IF data_highwater = 0 /\ height_highwater >= MinHeight
               THEN header
               ELSE [next_write_offset |-> data_highwater,
                     max_height |-> height_highwater,
                     highest_contiguous |-> max_contiguous_height]
  /\ MemoryGone
  /\ UNCHANGED <<index, data, flen, known>>

(***************************************************************************)
(* The process dies, also in the middle of a recovery.  (An open whose     *)
(* recovery fails half-way is the same: Drop writes no header then.)       *)
(***************************************************************************)
Crash ==
  /\ mode \in {"open", "recovering", "progress"}
  /\ crashes < MaxCrashes
  /\ crashes' = crashes + 1
  /\ loose' = [h \in Heights |-> loose[h] \union
                 {job[w].block : w \in {v \in InFlight(h) : pc[v] \in Unpublished}}]
  /\ MemoryGone
  /\ UNCHANGED <<disk, last, acked, writes, failures>>

-----------------------------------------------------------------------------
(* Store::open without truncate: recover. *)

(* FileSet::validate_layout: the files are 0 .. max without a gap ... *)
LayoutValid == \A f \in OnDisk : \A g \in 0 .. f : g \in OnDisk

LastFile == CHOOSE f \in OnDisk : \A g \in OnDisk : g <= f

(* Faulty variant: forgets what is in the last file. *)
LayoutEndFull == IF OnDisk = {} THEN 0 ELSE LastFile * Cap

(* ... and the data ends where the last of them ends. *)
LayoutEnd == IF OnDisk = {} THEN 0 ELSE LastFile * Cap + flen[LastFile]

Open ==
  /\ mode = "down"
  /\ IF LayoutValid /\ LayoutEnd >= header.next_write_offset
     THEN /\ mode' = "recovering"
          /\ scan' = [next |-> header.next_write_offset, end |-> LayoutEnd,
                      progress |-> header.next_write_offset,
                      window |-> W!EmptyWindow]
          /\ height_highwater' = header.max_height
          /\ data_highwater' = header.next_write_offset
          /\ last_checkpoint_offset' = header.next_write_offset
     ELSE /\ mode' = "refused"
          /\ UNCHANGED <<scan, height_highwater, data_highwater,
                         last_checkpoint_offset>>
  /\ UNCHANGED <<disk, rsv, landed, holes, max_contiguous_height, at, height,
                 prev, local, known>>

(***************************************************************************)
(* recover_unindexed_blocks, one iteration at offset scan.next.            *)
(***************************************************************************)
Scanning == /\ mode = "recovering"
            /\ scan.next < scan.end
            /\ FileOf(scan.next) \in OnDisk

(* Faulty variant: takes the skipped tail for the end of the data. *)
NeverAtFileEnd == FALSE

(* The header would not fit: taken for the skipped tail of this file. *)
AtFileEnd == ~Covered(scan.next, HeaderSize)

(***************************************************************************)
(* The scan reads through its window: first the header, then the payload.  *)
(***************************************************************************)
FileCells(f) == [i \in 1 .. flen[f] |-> data[f * Cap + i - 1]]

ReadThrough(window, o, n) ==
  W!After(window, FileOf(o), LocalOffset(o), n, FileCells(FileOf(o)))

AfterHeader == ReadThrough(scan.window, scan.next, HeaderSize)
HeaderCells == W!Bytes(AfterHeader, LocalOffset(scan.next), HeaderSize)
HeaderRead == HeaderCells[1]

AfterPayload(n) == ReadThrough(AfterHeader, scan.next + HeaderSize, n)
PayloadRead(n) == W!Bytes(AfterPayload(n), LocalOffset(scan.next) + HeaderSize, n)

(* The header makes sense, the block fits, and its payload matches. *)
BlockNext ==
  /\ Covered(scan.next, HeaderSize)
  /\ HeaderRead.kind = "header"
  /\ HeaderCells = [i \in 1 .. HeaderSize |->
                      HeaderPart(HeaderRead.height, HeaderRead.block, i - 1)]
  /\ HeaderRead.height >= MinHeight
  /\ LET b == HeaderRead.block IN
       /\ b.size <= MaxBlockSize
       /\ Covered(scan.next, HeaderSize + b.size)
       /\ PayloadRead(b.size) = [i \in 1 .. b.size |-> PayloadCell(HeaderRead.height, b, i)]

(* Faulty variant: goes back to the beginning of the same file. *)
ScanSameFile ==
  /\ Scanning
  /\ AtFileEnd
  /\ Cap # 0
  /\ scan' = [scan EXCEPT !.next = @ - LocalOffset(@)]
  /\ UNCHANGED <<disk, reserve, floor, last_checkpoint_offset, local, mode, known>>

(***************************************************************************)
(* advance_to_next_file, whether that file exists or not.  An index or an  *)
(* offset that overflows fails the open.                                   *)
(***************************************************************************)
ScanNextFile ==
  /\ Scanning
  /\ AtFileEnd
  /\ Cap # 0
  /\ IF FileOf(scan.next) < MaxFileIndex /\ R!NextFileStart(scan.next) <= MaxOffset
     THEN scan' = [scan EXCEPT !.next = R!NextFileStart(@)] /\ UNCHANGED mode
     ELSE mode' = "refused" /\ scan' = NoScan
  /\ UNCHANGED <<disk, reserve, floor, last_checkpoint_offset, local, known>>

RecoverBlock ==
  /\ Scanning
  /\ BlockNext
  /\ LET c == HeaderRead
         next == scan.next + HeaderSize + c.block.size
     IN /\ index' = [index EXCEPT ![c.height] =
                       [offset |-> scan.next, size |-> c.block.size]]
        /\ height_highwater' = Larger(height_highwater, c.height)
        /\ max_contiguous_height' = Larger(max_contiguous_height, c.height)
        /\ scan' = [scan EXCEPT !.next = next, !.window = AfterPayload(c.block.size)]
        /\ mode' = IF next - scan.progress >= CheckpointBytes
                   THEN "progress" ELSE "recovering"
  /\ UNCHANGED <<header, data, flen, reserve, at, height, prev,
                 last_checkpoint_offset, local, known>>

(* checkpoint_recovery_progress: highest_contiguous is left alone. *)
CheckpointProgress ==
  /\ mode = "progress"
  /\ header' = [header EXCEPT !.next_write_offset = scan.next,
                              !.max_height = height_highwater]
  /\ last_checkpoint_offset' = scan.next
  /\ scan' = [scan EXCEPT !.progress = scan.next]
  /\ mode' = "recovering"
  /\ UNCHANGED <<index, data, flen, reserve, floor, local, known>>

(***************************************************************************)
(* scan_contiguous_floor: the last height before the first gap, looking    *)
(* from the persisted floor to the highwater only.                         *)
(***************************************************************************)
ScanStart(resume) ==
  LET low == Larger(resume, C!FloorIfEmpty)
  IN IF low < height_highwater THEN low ELSE height_highwater

(* The index file reaches up to the highest height written so far. *)
IndexEnd == Max({MinHeight - 1} \union {h \in Heights : index[h] # NoEntry})

(* read_at returns as many of ChunkEntries entries as there are. *)
ChunkLast(c) == Min({c + ChunkEntries - 1, IndexEnd})

(* Faulty variant: the chunk after a full one begins one entry late. *)
NextChunkLate(c) == c + ChunkEntries + 1

NextChunk(c) == c + ChunkEntries

(* The heights of the chunk at c that end the scan. *)
Stops(c) == {h \in c .. ChunkLast(c) : h > height_highwater \/ ~C!Present(h)}

(* The last height before the first gap at or after c, chunk by chunk. *)
LastBeforeGap[c \in 0 .. MaxHeight + ChunkEntries + 1] ==
  IF ChunkLast(c) < c THEN c - 1
  ELSE IF Stops(c) # {} THEN Min(Stops(c)) - 1
  ELSE IF ChunkLast(c) < c + ChunkEntries - 1 THEN ChunkLast(c)
  ELSE LastBeforeGap[NextChunk(c)]

ScanIndex(start) ==
  IF start >= height_highwater THEN start ELSE LastBeforeGap[start + 1]

(* Faulty variant: returns the gap instead of the height before it. *)
ScanToGap(resume) ==
  IF height_highwater < MinHeight THEN C!FloorIfEmpty
  ELSE ScanIndex(ScanStart(resume)) + 1

(* Faulty variant: trusts the persisted floor and does not scan. *)
ScanNothing(resume) ==
  IF height_highwater < MinHeight THEN C!FloorIfEmpty ELSE ScanStart(resume)

ScanContiguousFloor(resume) ==
  IF height_highwater < MinHeight THEN C!FloorIfEmpty
  ELSE ScanIndex(ScanStart(resume))

(***************************************************************************)
(* The scan ends at the end of the data, or at the first bad block; then   *)
(* the store is open with the floor f and the highwater end.               *)
(***************************************************************************)
FinishAs(f, end) ==
  /\ mode = "recovering"
  /\ ~(Scanning /\ AtFileEnd /\ Cap # 0)
  /\ ~(Scanning /\ BlockNext)
  /\ max_contiguous_height' = f
  /\ data_highwater' = end
  /\ mode' = "open"
  /\ scan' = NoScan
  /\ last' = [h \in Heights |->
                IF ReadBlock(h) \in loose[h] THEN ReadBlock(h) ELSE last[h]]
  /\ loose' = [h \in Heights |-> {}]
  /\ UNCHANGED <<disk, rsv, landed, holes, height_highwater, at, height, prev,
                 last_checkpoint_offset, local, acked, writes, failures, crashes>>

(* Faulty variant: the running maximum of the scan is taken for the floor. *)
FinishAtMaximum == FinishAs(max_contiguous_height, scan.next)

(* Faulty variant: writes go on where the last checkpoint was. *)
FinishAtCheckpoint ==
  FinishAs(ScanContiguousFloor(header.highest_contiguous), header.next_write_offset)

FinishRecovery ==
  FinishAs(ScanContiguousFloor(header.highest_contiguous), scan.next)

RecoveryStep ==
  ScanNextFile \/ RecoverBlock \/ CheckpointProgress \/ FinishRecovery

Next ==
  \/ \E w \in Writers :
       \/ \E h \in Heights, b \in Block : BeginWrite(w, h, b)
       \/ WriterStep(w)
       \/ WriterFault(w)
  \/ Close \/ Crash \/ Open
  \/ RecoveryStep

Spec == Init /\ [][Next]_vars

(***************************************************************************)
(* recover is a loop of its own thread: it goes on until it is killed.     *)
(***************************************************************************)
FairSpec == Spec /\ WF_vars(RecoveryStep)

-----------------------------------------------------------------------------
(***************************************************************************)
(* A height of the store, or what stands for none: the floor of an empty   *)
(* store, and the zero in the header of a fresh one.                       *)
(***************************************************************************)
HeightOrNone == Heights \union {0, C!FloorIfEmpty}

(***************************************************************************)
(* Type correctness of the files, of the writers and of the recovery scan. *)
(***************************************************************************)
TypeOK ==
  /\ index \in [Heights -> Entry \union {NoEntry}]
  /\ header \in [next_write_offset : 0 .. MaxOffset, max_height : HeightOrNone,
                 highest_contiguous : HeightOrNone]
  /\ data \in [Offsets -> Cell]
  /\ flen \in [Files -> Absent .. MaxOffset]
  /\ R!RTypeOK /\ data_highwater <= MaxOffset
  /\ max_contiguous_height \in Heights \union {C!FloorIfEmpty}
  /\ height_highwater \in HeightOrNone
  /\ last_checkpoint_offset \in 0 .. MaxOffset
  /\ mode \in {"open", "down", "recovering", "progress", "refused"}
  /\ scan.next \in 0 .. MaxOffset
  /\ Len(scan.window.buf) <= MaxOffset
  /\ scan.window.room <= Larger(WindowSize, MaxOffset)
  /\ last \in [Heights -> Block \union {Nothing}]
  /\ loose \in [Heights -> SUBSET Block]
  /\ acked \subseteq Heights

(***************************************************************************)
(* An open store answers every read with the block that was published last *)
(* at that height: nothing is lost, spoilt or replaced by an older block,  *)
(* not in the course of writing, not by a crash at any point of a write or *)
(* of a recovery, and not by what later writes put where a torn block was. *)
(* Only a write that failed, was cut off before its index entry, or        *)
(* overlapped with another at the same height, leaves a choice, and the    *)
(* next recovery settles it for good.                                      *)
(***************************************************************************)
Durable == mode = "open" => \A h \in Heights : ReadBlock(h) = last[h]

(***************************************************************************)
(* The store is a HeightMap: a write takes effect when its index entry is  *)
(* written, and a reopen chooses among what was left open.                 *)
(***************************************************************************)
HM == INSTANCE HeightMap WITH
  Blocks <- Block,
  open <- mode = "open",
  content <- [h \in Heights |-> IF mode = "open" THEN ReadBlock(h) ELSE last[h]],
  phase <- [w \in Writers |-> IF pc[w] = "idle" THEN "idle"
                              ELSE IF pc[w] \in Unpublished THEN "pending" ELSE "applied"],
  op <- [w \in Writers |-> [height |-> job[w].height, block |-> job[w].block,
                            alone |-> job[w].alone]]

(***************************************************************************)
(* Every behaviour of the store, with its writers, errors, crashes and     *)
(* recoveries, is one of the atomic map: reads are linearizable and never  *)
(* go back, over any number of reopens.                                    *)
(***************************************************************************)
ImplementsHeightMap == HM!Spec

(***************************************************************************)
(* A block that was acknowledged can be read whenever the store is open    *)
(* (README.md: "recovers gracefully from unclean shutdown by scanning data *)
(* files and rebuilding any missing index entries").                       *)
(***************************************************************************)
AckedSurvive == mode = "open" => \A h \in acked : ReadBlock(h) \in Block

(***************************************************************************)
(* max_contiguous_height can be trusted by a consumer that does no check   *)
(* of its own: every height from min_height to it can be read.             *)
(***************************************************************************)
FloorReadable ==
  mode = "open" /\ max_contiguous_height > C!FloorIfEmpty =>
    \A h \in MinHeight .. max_contiguous_height : ReadBlock(h) \in Block

(***************************************************************************)
(* With no write in progress the floor is the highest such height and the  *)
(* highwater is not below it, also when both come out of a recovery.       *)
(***************************************************************************)
FloorComplete ==
  mode = "open" /\ AllIdle =>
    /\ ~C!Present(max_contiguous_height + 1)
    /\ max_contiguous_height > C!FloorIfEmpty =>
         max_contiguous_height <= height_highwater

(***************************************************************************)
(* A store that was written by this code can be opened again: the layout   *)
(* check of recover never refuses it.                                      *)
(***************************************************************************)
NeverRefused == mode # "refused"

(***************************************************************************)
(* A store all of whose sessions were closed, and whose writes succeeded,  *)
(* can be opened again, however its blocks are spread over capped files    *)
(* and whatever tails were skipped: Drop persists an offset that recover   *)
(* finds in the files.  (After a crash or a failed write this is false,    *)
(* see NeverRefused.)                                                      *)
(***************************************************************************)
CleanReopens == crashes = 0 /\ failures = 0 => NeverRefused

(***************************************************************************)
(* The byte trigger bounds what a recovery has to walk again: as long as   *)
(* no I/O error occurs, between writes less than CheckpointBytes of data   *)
(* lie past the persisted offset ("This caps how much of the data file a   *)
(* recovery scan has to re-walk").                                         *)
(***************************************************************************)
GapBounded ==
  mode = "open" /\ AllIdle /\ failures = 0 =>
    data_highwater - header.next_write_offset < CheckpointBytes

(* The bytes of the data files that the entry of h refers to. *)
EntryBytes(h) ==
  IF index[h] = NoEntry THEN {}
  ELSE index[h].offset .. index[h].offset + HeaderSize + index[h].size - 1

(***************************************************************************)
(* While the store is open the bytes an index entry refers to never        *)
(* change, so a read_block that fetched the entry and reads the data later *)
(* gets the block of that entry.                                           *)
(***************************************************************************)
PublishedBytesStable ==
  [][mode = "open" /\ mode' = "open" =>
       \A h \in Heights : \A o \in EntryBytes(h) : data'[o] = data[o]]_vars

(***************************************************************************)
(* No space is handed out twice in a session that began with a recovery.   *)
(***************************************************************************)
NoOverlap == R!NoOverlap /\ R!HighwaterCovers

(***************************************************************************)
(* A recovery comes to an end: it opens the store or fails with an error,  *)
(* or the process dies.                                                    *)
(***************************************************************************)
RecoveryEnds == mode = "recovering" ~> mode \in {"open", "down", "refused"}

=============================================================================
