----------------------------- MODULE PowerLoss ------------------------------
(***************************************************************************)
(* What survives a loss of power (SyncMode of blockstore/src/store.rs).    *)
(* A write goes to the page cache, which the system writes back to the     *)
(* disk whenever it likes and in any order, a block possibly in part; only *)
(* sync_all makes a file what it was at that moment.  In SyncMode::Sync    *)
(* the data file is synced before the index entry is written, and the      *)
(* index file before the header; nothing waits for the header itself, nor  *)
(* for the header that the creation of the store writes.                   *)
(*                                                                         *)
(* A block is one unit of the one data file, and an index entry stands for *)
(* a page of entries.  Writes that fail, a data file per cap and the two   *)
(* parts of a block are in the module BlockStore.                          *)
(***************************************************************************)
EXTENDS Integers, FiniteSetsExt

CONSTANTS
  Writers,
  MaxHeight,   \* bound: the heights written are 1 .. MaxHeight
  Blocks,
  MaxOffset,   \* bound on the size of the data file, in blocks
  Interval,    \* CHECKPOINT_INTERVAL
  Bytes,       \* CHECKPOINT_BYTES, in blocks
  MaxLosses,   \* bound on the losses of power
  MaxCrashes,  \* bound on the crashes of the process
  Syncing,     \* SyncMode::Sync
  Settled,     \* TRUE: a store is opened when its data file is on the disk
  NoBlock, Torn, Failure

ASSUME PowerLossAssumption ==
  /\ MaxHeight \in Nat /\ MaxOffset \in Nat /\ MaxLosses \in Nat /\ MaxCrashes \in Nat
  /\ Interval \in Nat \ {0} /\ Bytes \in Nat \ {0}
  /\ Syncing \in BOOLEAN /\ Settled \in BOOLEAN

Heights == 1 .. MaxHeight
Rows == 0 .. MaxHeight
Slots == 0 .. MaxOffset - 1

(* A block in the data file is found with its height. *)
Record == [height : Heights, block : Blocks]

ASSUME MarkersAssumption ==
  /\ NoBlock \notin Blocks /\ Failure \notin Blocks
  /\ NoBlock \notin Record /\ Torn \notin Record

VARIABLES
  data,      \* data[p]: the block at p in the data file, as a reader sees it
  index,     \* index[r]: the entry at r, 0 or the offset of a block plus 1
  header,    \* the header of the index file
  disk,      \* the same three as they are on the disk
  at,        \* where the store is
  mem,       \* min_height, next_write_offset, max_height and floor in memory
  highwater, \* data_highwater
  lastcp,    \* last_checkpoint_offset
  job,       \* job[w]: what writer w is doing
  last,      \* last[h]: the block acknowledged last
  loose,     \* loose[h]: blocks whose writes were cut off since
  losses,    \* how often the power failed
  crashes    \* how often the process died

files == <<data, index, header>>
pvars == <<files, disk, at, mem, highwater, lastcp, job, last, loose, losses, crashes>>

(* The header of a new store, and what a file reads as where nothing was written. *)
NewHeader == [min |-> 1, next |-> 0, max |-> 0, floor |-> 0]
ZeroHeader == [min |-> 0, next |-> 0, max |-> 0, floor |-> 0]
Idle == [stage |-> "idle", height |-> 0, block |-> NoBlock, offset |-> 0]

(* A store that was just created: its header is written, not synced. *)
PInit ==
  /\ data = [p \in Slots |-> NoBlock]
  /\ index = [r \in Rows |-> 0]
  /\ header = NewHeader
  /\ disk = [data |-> data, index |-> index, header |-> ZeroHeader]
  /\ at = "open"
  /\ mem = NewHeader /\ highwater = 0 /\ lastcp = 0
  /\ job = [w \in Writers |-> Idle]
  /\ last = [h \in Heights |-> NoBlock]
  /\ loose = [h \in Heights |-> {}]
  /\ losses = 0 /\ crashes = 0

-----------------------------------------------------------------------------
(* The page cache and the disk. *)

WriteBack ==
  /\ \/ \E p \in Slots : /\ data[p] # disk.data[p]
                         /\ \E c \in {data[p], Torn} : disk' = [disk EXCEPT !.data[p] = c]
     \/ \E r \in Rows : /\ index[r] # disk.index[r]
                        /\ disk' = [disk EXCEPT !.index[r] = index[r]]
     \/ header # disk.header /\ disk' = [disk EXCEPT !.header = header]
  /\ UNCHANGED <<files, at, mem, highwater, lastcp, job, last, loose, losses, crashes>>

SyncData == disk' = [disk EXCEPT !.data = data]
SyncIndex == disk' = [disk EXCEPT !.index = index, !.header = header]

(* The length of the data file: a hole below a block counts. *)
Length == Max({-1} \union {p \in Slots : data[p] # NoBlock}) + 1

Whole(p) == p \in Slots /\ data[p] \notin {NoBlock, Torn}

(* index_entry_offset: the entry of h is as far in as h is above min_height. *)
Row(h) == h - mem.min

(***************************************************************************)
(* read_block: an entry whose block does not check out is an error.  That  *)
(* the block is of height h is not looked at.                              *)
(***************************************************************************)
Read(h) ==
  LET entry == index[Row(h)] IN
    CASE entry = 0 -> NoBlock
      [] Whole(entry - 1) -> data[entry - 1].block
      [] OTHER -> Failure

-----------------------------------------------------------------------------
(* write_block. *)

Goto(w, stage) == job' = [job EXCEPT ![w].stage = stage]

Reserve(w, h, b) ==
  /\ at = "open" /\ job[w].stage = "idle"
  /\ highwater < MaxOffset
  /\ highwater' = highwater + 1
  /\ job' = [job EXCEPT ![w] = [stage |-> "write", height |-> h, block |-> b,
                                offset |-> highwater]]
  /\ loose' = [loose EXCEPT ![h] = @ \union {b}]
  /\ UNCHANGED <<files, disk, at, mem, lastcp, last, losses, crashes>>

WriteData(w) ==
  /\ job[w].stage = "write"
  /\ data' = [data EXCEPT ![job[w].offset] = [height |-> job[w].height, block |-> job[w].block]]
  /\ Goto(w, IF Syncing THEN "sync" ELSE "index")
  /\ UNCHANGED <<index, header, disk, at, mem, highwater, lastcp, last, loose, losses, crashes>>

(* Faulty variant: the data file is not synced. *)
SyncNothing(w) ==
  /\ job[w].stage = "sync"
  /\ Goto(w, "index")
  /\ UNCHANGED <<files, disk, at, mem, highwater, lastcp, last, loose, losses, crashes>>

SyncBlock(w) ==
  /\ job[w].stage = "sync"
  /\ SyncData
  /\ Goto(w, "index")
  /\ UNCHANGED <<files, at, mem, highwater, lastcp, last, loose, losses, crashes>>

WriteEntry(w) ==
  /\ job[w].stage = "index"
  /\ index' = [index EXCEPT ![Row(job[w].height)] = job[w].offset + 1]
  /\ Goto(w, "advance")
  /\ UNCHANGED <<data, header, disk, at, mem, highwater, lastcp, last, loose, losses, crashes>>

(* The top of the run of heights with entries that begins at f. *)
Climb(f, top) == Max({g \in f .. top : \A k \in f + 1 .. g : index[Row(k)] # 0})

Triggers(w) ==
  \/ job[w].height > mem.max /\ job[w].height % Interval = 0
  \/ job[w].offset + 1 - lastcp >= Bytes

Acknowledge(w) ==
  LET h == job[w].height IN
    /\ last' = [last EXCEPT ![h] = job[w].block]
    /\ loose' = [loose EXCEPT ![h] = {job[v].block : v \in {u \in Writers \ {w} :
                                                            job[u].height = h}}]
    /\ job' = [job EXCEPT ![w] = Idle]

(* The floor and the highest height; then a checkpoint, or the end. *)
Advance(w) ==
  /\ job[w].stage = "advance"
  /\ mem' = [mem EXCEPT !.floor = IF job[w].height = @ + 1 THEN Climb(@, MaxHeight) ELSE @,
                        !.max = IF job[w].height > @ THEN job[w].height ELSE @]
  /\ IF Triggers(w) THEN Goto(w, "checkpoint") /\ UNCHANGED <<last, loose>> ELSE Acknowledge(w)
  /\ UNCHANGED <<files, disk, at, highwater, lastcp, losses, crashes>>

(* Faulty variant: the header is written although nothing was synced. *)
CheckpointUnsynced(w) ==
  /\ job[w].stage = "checkpoint"
  /\ Goto(w, "header")
  /\ UNCHANGED <<files, disk, at, mem, highwater, lastcp, last, loose, losses, crashes>>

(* checkpoint: the index file is synced before ... *)
CheckpointSync(w) ==
  /\ job[w].stage = "checkpoint"
  /\ IF Syncing THEN SyncIndex ELSE UNCHANGED disk
  /\ Goto(w, "header")
  /\ UNCHANGED <<files, at, mem, highwater, lastcp, last, loose, losses, crashes>>

(* ... the header is written, with the values of this moment. *)
CheckpointHeader(w) ==
  /\ job[w].stage = "header"
  /\ header' = [mem EXCEPT !.next = job[w].offset + 1]
  /\ lastcp' = job[w].offset + 1
  /\ Acknowledge(w)
  /\ UNCHANGED <<data, index, disk, at, mem, highwater, losses, crashes>>

-----------------------------------------------------------------------------
(* Drop: the same, when no call is under way. *)

CloseSync ==
  /\ at = "open" /\ \A w \in Writers : job[w].stage = "idle"
  /\ IF Syncing THEN SyncIndex ELSE UNCHANGED disk
  /\ at' = "closing"
  /\ UNCHANGED <<files, mem, highwater, lastcp, job, last, loose, losses, crashes>>

Stopped ==
  /\ at' = "closed"
  /\ mem' = ZeroHeader /\ highwater' = 0 /\ lastcp' = 0
  /\ job' = [w \in Writers |-> Idle]

(* checkpoint refuses an offset of zero for a store that holds blocks. *)
CloseHeader ==
  /\ at = "closing"
  /\ header' = IF highwater = 0 /\ mem.max >= mem.min THEN header
               ELSE [mem EXCEPT !.next = highwater]
  /\ Stopped
  /\ UNCHANGED <<data, index, disk, last, loose, losses, crashes>>

(* The process dies; what it wrote is in the page cache. *)
Crash ==
  /\ at # "closed"
  /\ crashes < MaxCrashes
  /\ crashes' = crashes + 1
  /\ Stopped
  /\ UNCHANGED <<files, disk, last, loose, losses>>

(* The power fails; what was written back is left. *)
LosePower ==
  /\ losses < MaxLosses
  /\ losses' = losses + 1
  /\ data' = disk.data /\ index' = disk.index /\ header' = disk.header
  /\ Stopped
  /\ UNCHANGED <<disk, last, loose, crashes>>

-----------------------------------------------------------------------------
(* recover. *)

(***************************************************************************)
(* The header that open reads: what is in the file, unless the file is     *)
(* empty and IndexFileHeader::default() stays (a file of zeros is the      *)
(* other way to have none of it).                                          *)
(***************************************************************************)
HeaderRead ==
  {header} \union {r \in {NewHeader} : header = ZeroHeader /\ \A i \in Rows : index[i] = 0}

(***************************************************************************)
(* The scan takes what is in the page cache for what is on the disk.       *)
(* Settled: it is, because whoever opens the store after a crash of its    *)
(* process has the data file written back first.                           *)
(***************************************************************************)
Open ==
  /\ at = "closed"
  /\ Settled => disk.data = data
  /\ mem' \in HeaderRead
  /\ at' = IF Length < mem'.next THEN "refused" ELSE "scan"
  /\ lastcp' = mem'.next
  /\ UNCHANGED <<files, disk, highwater, job, last, loose, losses, crashes>>

(* A block that checks out gets its entry; progress is a checkpoint's worth. *)
ScanBlock ==
  /\ at = "scan"
  /\ Whole(mem.next)
  /\ LET h == data[mem.next].height IN
       /\ index' = [index EXCEPT ![Row(h)] = mem.next + 1]
       /\ mem' = [mem EXCEPT !.next = @ + 1, !.max = IF h > @ THEN h ELSE @]
  /\ at' = IF mem.next + 1 - lastcp >= Bytes THEN "progress" ELSE "scan"
  /\ UNCHANGED <<data, header, disk, highwater, lastcp, job, last, loose, losses, crashes>>

(* checkpoint_recovery_progress: in every mode the entries come first ... *)
ProgressSync ==
  /\ at = "progress"
  /\ SyncIndex
  /\ at' = "persist"
  /\ UNCHANGED <<files, mem, highwater, lastcp, job, last, loose, losses, crashes>>

(* ... and the persisted floor stays. *)
ProgressHeader ==
  /\ at = "persist"
  /\ header' = mem
  /\ lastcp' = mem.next
  /\ at' = "scan"
  /\ UNCHANGED <<data, index, disk, mem, highwater, job, last, loose, losses, crashes>>

(* The first place without a block ends the scan; the floor is looked up. *)
FinishRecovery ==
  /\ at = "scan"
  /\ ~Whole(mem.next)
  /\ mem' = [mem EXCEPT !.floor = Climb(Min({mem.floor, mem.max}), mem.max)]
  /\ highwater' = mem.next
  /\ at' = "open"
  /\ UNCHANGED <<files, disk, lastcp, job, last, loose, losses, crashes>>

-----------------------------------------------------------------------------
PNext ==
  \/ WriteBack
  \/ \E w \in Writers :
       \/ \E h \in Heights, b \in Blocks : Reserve(w, h, b)
       \/ WriteData(w) \/ SyncBlock(w) \/ WriteEntry(w) \/ Advance(w)
       \/ CheckpointSync(w) \/ CheckpointHeader(w)
  \/ CloseSync \/ CloseHeader \/ Crash \/ LosePower
  \/ Open \/ ScanBlock \/ ProgressSync \/ ProgressHeader \/ FinishRecovery

PSpec == PInit /\ [][PNext]_pvars

-----------------------------------------------------------------------------
(* A height reads as acknowledged last, or as a write that was cut off since. *)
Right(h) == Read(h) \in {last[h]} \union loose[h]

(***************************************************************************)
(* Whatever a loss of power leaves, the store opens again and every height *)
(* reads right, the ones that were never written included.  (checkpoint:   *)
(* "We are guaranteeing that the data in the index file is correct up to   *)
(* the point where the last block was written".)                           *)
(***************************************************************************)
AckedDurable ==
  /\ at # "refused"
  /\ at = "open" => \A h \in Heights : Right(h)

(***************************************************************************)
(* No loss of power takes an acknowledged block, not even one that takes   *)
(* the header of the new store with it: the store opens again and every    *)
(* acknowledged height reads right.  As long as the store knows its        *)
(* min_height, so do the heights that were never acknowledged.             *)
(***************************************************************************)
AckedKept ==
  /\ at # "refused"
  /\ at = "open" => \A h \in Heights : last[h] # NoBlock \/ mem.min = 1 => Right(h)

(***************************************************************************)
(* The floor that an open store reports, or has persisted for a later one, *)
(* is never ahead of the entries on disk that a loss of power leaves:      *)
(* whatever survives, every height up to the floor can be read.            *)
(***************************************************************************)
FloorDurable ==
  at = "open" => \A h \in 1 .. mem.floor : Read(h) \notin {NoBlock, Failure}

=============================================================================
