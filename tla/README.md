# A TLA+ verification of blockstore

`blockstore` is a Rust library that keeps one compressed block per height in
append-only data files, with an index file of fixed-size entries beside them.
Its hard part is small and concentrated: many threads call `write_block` at
once and share an offset counter, two atomics and a header; the process may
die at any instant; the next `open` has to put the index together again from
the data files. That part is what the modules here model. Paths below are
relative to the repository (`store.rs` is `blockstore/src/store.rs`).

Run a model with `tlc -config <cfg> <MC module>`, check the proofs with
`tlapm <module>.tla` for `OrderLemmas` and each of the modules `*Proofs`
(`BlockStoreProofs` and `TransferProofs` take some minutes, the others less).
`PROJECT.json` lists the runs, the mutants, the theorems, the hazards and, for
every definition that models code, the lines it models.

## 1. Inventory

| Component | State | Operations | What makes it correct |
|---|---|---|---|
| Space allocation (`store.rs`, `reserve_space`, `release_reservation`) | `data_highwater` under a mutex; the extent a writer holds | reserve (skipping to the next file if the block would straddle the cap), release on failure | no byte handed out twice, no block across two files, the highwater above everything owned |
| Contiguity floor (`store.rs`, `update_index_at`, `advance_max_contiguous_height`, `update_highwater`) | index entries, the atomics `max_contiguous_height` and `height_highwater` | publish, compare-exchange, cascade over entries published earlier, raise the highwater | the floor claims no missing height; it is not left behind |
| Store (`store.rs`, `file_set.rs`) | index file and its header, data files, `last_checkpoint_offset` | `write_block`, `read_block`, `checkpoint`, `Drop`, `open` with `recover` | acknowledged blocks stay readable over crashes; every store written by the code opens again; recovery work is bounded |
| File handles (`file_set.rs`) | LRU order and map of open files, an advisory lock per file | `get_or_open`, `touch`, `insert`, `split_offset`, `validate_layout` | order and map agree, never more handles than allowed, no self-inflicted lock conflict, no two blocks in one place |
| `CachedStore` (`cached_store.rs`) | a byte-bounded LRU of decompressed blocks | read-through, write-through | a hit returns what the store would |
| Opening (`store.rs`, `open`, `remove_existing_data_files`) | open options, lock of the index file, the header | truncate, lock, remove the data files, write or read the header | a live store is never disturbed; a fresh one inherits nothing |
| Chunked index scan, `ScanWindow` (`store.rs`) | buffers over the index and data files | `scan_contiguous_floor`, windowed reads in recovery | equal to reading entry by entry |
| Page cache and disk (`store.rs`, `SyncMode`) | what was written back | `sync_all` of a data file and of the index file, write-back at any time | in `SyncMode::Sync` an acknowledged block survives a loss of power |
| C interface and Go wrapper (`blockstore-ffi`) | the handle, the buffers handed out | open, read, write, close; copy and free of a result | no call into a dropped store, every buffer freed once, a read is current |
| CLI (`blockstore-cli`) | one or two open stores, the streams of keys | get, copy, import | a copy is exact, an import pairs the parts of one height |
| Metrics, benchmarks, build scripts | – | – | not modelled, section 8 |

Interactions. `write_block` compresses, reserves (mutex), resolves a file
(`FileSet`, second mutex), writes the payload, then the header, then the index
entry, then moves the floor and the highwater (atomics), then perhaps
checkpoints (header of the index file). Nothing holds a lock over two of these
steps, so other writers, readers and a crash come in between any two. `Drop`
checkpoints once more. `open` without truncate validates the file layout,
walks the data from the persisted offset, rewrites index entries and
recomputes the floor. `CachedStore` calls the store and then its own cache;
the C interface holds one or the other behind a handle, and the Go wrapper
calls it from any number of goroutines. The tool opens a store for reading, a
fresh one for writing, or both.

Hard behaviours: interleavings of writers after the data has landed (the code
itself has a TODO asking whether there is a race, `store.rs:1139`); the order
in which failed writes give space back; a crash between any two writes, and
again in the recovery; what the scan meets where a torn or unfinished block
lies, in particular at the end of a capped file; checkpoints that overtake each
other; stale index entries; two processes in one directory; what a loss of
power leaves; Go calls that overlap a close. They are the `hazards` of `PROJECT.json`, each with
the properties that would catch it.

## 2. Modules

| Module | Models | Composed from |
|---|---|---|
| `Reservation` | space allocation, `split_offset` | |
| `Contiguity` | index publication, floor, highwater | |
| `ScanWindow` | the read-ahead window, as operators on a window value | |
| `BlockStore` | the store: write, read, checkpoint, drop, crash, open, recovery | `Reservation`, `Contiguity`, `ScanWindow` (instances `R`, `C`, `W`, sharing variables) |
| `HeightMap` | what a store promises: a map from heights to blocks | implemented by `BlockStore` |
| `FileSet` | the cache of file handles and their locks | |
| `DataFiles` | writers and readers of the data files | `Reservation` and `FileSet` |
| `Lifecycle` | sessions that open, use and leave store directories | |
| `Transfer` | the command line tool beside a user of the library | `Lifecycle` |
| `CachedStore` | the block cache over a map-like store | |
| `Handle` | the Go and C interface | `CachedStore` |
| `PowerLoss` | page cache, disk and the order of the syncs | |
| `ReservationProofs`, `ContiguityProofs` | theorems | extend the two modules |
| `DataFilesProofs` | theorems about `FileSet` and its composition with `Reservation` | extends `DataFiles`, `ReservationProofs` |
| `HandleProofs`, `PowerLossProofs` | theorems | extend the two modules |
| `BlockStoreProofs` | theorems about the store as a whole | extends `BlockStore`; instances of `ReservationProofs` and `ContiguityProofs` |
| `TransferProofs` | theorems about directories, sessions and the tool | extends `Transfer` |
| `OrderLemmas` | minima and maxima of sets of numbers | |
| `MC*` | symmetry sets for TLC | extend the modules they are named after |

**Reservation.** An extent is `[prev, offset, end)`: `prev` is the highwater
before, below `offset` when the tail of a file was skipped. Both operations run
wholly under the mutex, so each is one action. `landed` (bytes written) and
`holes` (given up while somebody had reserved behind) are history: the code
does not store them, the properties are about them. `Cap = 0` stands for
`max_data_file_size = None`. The checked arithmetic of the code appears as
`CanReserve`; `SplitOffset` saturates the file index as the code does.

**Contiguity.** Each load, compare-exchange, index read and index write is a
step of its own. `at[w]` is the place in `advance_max_contiguous_height` and
`update_highwater`; `prev[w]` is the local of the cascade loop. `CInit` is any
state a clean `open` leaves: an arbitrary set of present heights, the floor
before its first gap, the highwater at its top.

**BlockStore.** A data file is a sequence of cells. A block is `HeaderSize`
header cells (the first has height and block, in which size and checksum of the
payload stand; the others are the rest of the 22 bytes) and `size` payload cells that remember which block they are part of and where in
it, so "decompresses and has the header's checksum" is `Intact`: exactly the
cells of one block in their order. `flen` is the length of each file, `Absent`
when it does not exist; sparse regions are zero cells. The writer's program
counter `pc` goes

    idle -> resolve -> payload -> header -> publish -> advance
         -> [decide] -> [load -> loadfloor -> write -> store] -> idle

with the error exits of the code: an error before the index entry goes to
`release` (`release_reservation`), a later one returns at once. A step that is
cut off may have done a part of its work: a prefix of the payload, a part of the
header, an intact header whose sync failed, a file created and not written.
`job` holds the locals of `write_block`, `snap` the two atomics `checkpoint`
loads one after the other. `Close` is `Drop`; `Crash` forgets memory and keeps
every byte written; `Open` is `recover` up to the scan, `ScanNextFile`,
`RecoverBlock` and `CheckpointProgress` are one iteration of
`recover_unindexed_blocks` each, `FinishRecovery` sets floor and highwater.
`mode = "refused"` is an `open` that returned the layout error.
`read_block` is the operator `ReadBlock`, evaluated in every state;
`PublishedBytesStable` is what makes a read that is not atomic equal to one
that is. The scan reads through a `ScanWindow` of `WindowSize` cells and the
floor is looked up in chunks of `ChunkEntries` entries, both small enough to be
crossed. `Syncing` is `SyncMode::Sync`: only then can a block be complete on
disk and its write fail all the same. `last[h]` is the block acknowledged last,
`loose[h]` the blocks whose writes failed, were cut off, or overlapped it, any
of which may be there after a restart; a restart that finds one settles it.

**HeightMap.** The abstract store: `Begin`, `Apply`, `Finish` and `Fail` of a
write, `Stop` (shutdown or crash) and `Reopen`, which may bring back for each
height its content or one loose block, and nothing else. `BlockStore` implements
it (`ImplementsHeightMap`) with `content` mapped to `ReadBlock`; `Apply` is the
moment the index entry is published. A step of the store that changes what can
be read of any height at any other moment is not a step of the map.

**FileSet.** `get_or_open` looks under the mutex, lets go, and looks again
before it opens. A `File` lives as long as the cache or a caller has an `Arc`,
and its advisory lock with it, so a second open of a live file fails even in
the same process (`OpenBlocked`).

**DataFiles.** The two together as `write_block` and `read_block` use them:
the file that is looked up is the one `SplitOffset` gives for the reserved
offset, a write that finds it locked gives its space back, and readers age the
cache while writers hold files.

**Lifecycle.** A session is one `Store::open` until its drop, by some process;
the steps are those of the code: index file opened (and emptied by truncate),
lock, each data file removed, header written, or header read and `recover`. An
index file is absent, empty or past its header; entries are slots relative to
the `min_height` the session found in the header, so a session with another
minimum reads other slots. Inside, a write and a recovery are one step and a
block is one unit: `BlockStore` has the rest. `Polite` and `Recreate` are the
discipline of callers under which the properties hold: who truncates is alone in
the directory until its store is open, and an index that a crash left without a
header is created again, not opened.

**Transfer.** `get`, `copy` and `import`, one at a time, with the sessions
`Source` and `Target`, beside a `User` of the library in the same directories.
A LevelDB table is the set of heights it has a key for, an iterator the sorted
sequence of them; a block put together by `import` is the set of heights its
parts were taken from, so parts of two heights show. Databases with several
blocks at one height are left out: the keys' hashes are ignored by the code.

**CachedStore.** The store behind is a map. `ReadMiss`, `Fetch`, `Populate`,
and `WriteThrough`, `CacheWritten` are the places between which the mutex is
free. The `lru-mem` crate is external: an insert may drop any other entries,
and refuses a block larger than the whole budget. `Careful` selects callers
that rewrite a height only while no other call works on it and with a block
that fits.

**Handle.** A goroutine's call loads `s.handle`, enters Rust (`NullHandle` if it
is nil), takes the steps of the store or of `CachedStore` there, comes out with
a result that may own a buffer, and in `Answer` copies and frees it. `heap` is
the set of buffers allocated. `Close` drops the store and clears the handle only
when it returns. `Quiet` selects callers that let other calls finish before
`Close`. `seen[t]` is history: what the height of a read held at some instant
since the call began. The height accessors read an atomic or return 0 for nil
and are not steps.

**PowerLoss.** Every file exists twice, as readers see it and on disk.
`WriteBack` moves any block (also in part), index entry or the header to the
disk at any time, an entry standing for the page it is on; `SyncData` and `SyncIndex` are `sync_all`; `LosePower` sets
the files to what is on the disk. `write_block`, `checkpoint`, `Drop` and
`recover` are cut into steps where the order of a sync and a write matters. The
store has just been created, with `min_height = 1`, and its header is not on the
disk: what a loss of power leaves in its place is zeros, or an empty file, which
`open` takes for a default header (`HeaderRead`). Entries are rows counted from
the `min_height` that `open` found (`Row`), so a lost header moves them all. That
the directory entry of a new file is durable is assumed: without the index file
an `open` without truncate fails.
`Settled` selects operators that have the data file written back before a store
is opened after a crash of the process.

Definitions marked "Faulty variant" are not used by any specification. Each is
a plausible bug of the definition next to it; putting it in that definition's
place makes TLC report the property named in `PROJECT.json` under `mutants`,
which shows that the property can fail.

## 3. Runs

All runs that pass explore their whole state space. Symmetry is over writers or
threads, and over block ids, which the specifications only compare for equality.
The runs with a liveness property use no symmetry.

| Run | Instance | Shows |
|---|---|---|
| `data_files` | 3 threads that write and read, sizes 2 and 3 in files of 4, offsets up to 14, of which three files hold 12, cache of 2 | no overlap, highwater above everything, no straddling, two blocks in one place only past the last file; cache structures agree and stay bounded; no self-inflicted lock failure while the files in use fit |
| `contiguity` | 3 writers, heights 2..5, any initial index; fairness | the floor is sound in every state, exact at rest, and catches up; the highwater loses no maximum |
| `store_crash` | 1 writer, one file, headers of 2 cells, sizes 1 and 2, 3 writes, 1 I/O error, 2 crashes, byte trigger 5, interval 2, `Sync` | the store implements `HeightMap` over a crash at every step of a write and of a recovery, also after an I/O error; the floor is right; the store opens again; the recovery gap is bounded |
| `store_files` | 1 writer, files of 6 cells, 5 writes, 1 crash, a window of 5 cells, chunks of 2 entries; fairness | every published block is read and the floor exact over three data files with skipped tails and a crash; a store that was shut down cleanly opens again; the recovery ends |
| `store_writers` | 2 writers, 2 I/O errors, no crash | concurrent writers of the same and of different heights and their failures spoil no block, the bytes behind an index entry never change, and the store implements `HeightMap` |
| `cached` | 2 goroutines, 2 heights, 3 blocks, one larger than the budget, late errors, cached and uncached; `Careful`, `Quiet` | the cache agrees with the store, reads are current, no dropped store is entered, no buffer is leaked or freed twice |
| `cli` | a user and the tool, 2 directories, heights up to 2, 2 blocks per store, caps of none and 1; `Polite`, `Recreate` | a fresh store is empty, a live one intact, a copy exact, an import paired, with a crash at any step |
| `power` | 1 writer, 2 heights, 3 blocks of space, 2 losses of power, 1 crash, `Sync`, `Settled`, a header that is not on the disk | no acknowledged block is lost, the floor is not ahead of what survives |
| `lost_behind_hole`, `refused_past_tail`, `power_fresh`, `power_writers` | see section 4 | what the code does where a comment or a document says otherwise |

Why the bounds are enough. The order of two extents, a rewind and a
reservation after it need two threads, a third sees what they leave; the theorems
of section 5 are for any number. The cascade needs a gap, an entry beyond it and a second writer that loses the exchange. A recovery that starts from a
persisted offset, finds a good block and then a torn one, and is killed after
having persisted progress, needs three blocks and two crashes; the byte trigger
of 5 makes a checkpoint fall before, inside and after them. A header of two
cells is the smallest of which a part can be written and into which a tail can be
too short by a part. A cap of six cells with blocks of three and four leaves tails
of zero, two and three cells, and a torn block under a shorter one leaves one; a
window of three or five cells is crossed by a block, ends inside one and grows for
one. Offsets past the twelve that three files of four hold make `SplitOffset`
saturate in `data_files`. Two
directories are a source and a target, or twice the same one. A header that
outlives its entries needs a checkpoint, a block after it and a loss of power; a
second one falls into the recovery from the first.

Deadlock is checked except where the system may stop: `data_files`,
`store_writers` and the store runs that exhibit a disagreement end when the
bound on offsets, writes or failures is used up with a writer that had been cut
off. `MaxOffset`, `MaxWrites`, `MaxFailures`, `MaxCrashes`, `MaxHeight` and
`MaxFileIndex` are the named bounds; `MaxFileIndex` and `MaxOffset` stand for
`u32::MAX` and `u64::MAX` in `Reservation`.

Fairness. `contiguity`: weak fairness of each writer's `Advance` – the code
between publishing and returning takes no lock and waits for nobody, and the
scheduler runs every thread. `store_files`: weak fairness of `RecoveryStep` –
`recover` is a loop of the opening thread that nobody else can stop except by
killing the process, which is an action. Nobody is obliged to start a write.

## 4. Where code and comments disagree

Four runs exhibit a disagreement (`findings` in `PROJECT.json`):

* `lost_behind_hole`: the scan stops at the first offset without a valid block.
  With two writers that may be the extent of the one that had not finished, and
  a block acknowledged behind it is not recovered (`store.rs:770`).
* `refused_past_tail`: one writer and files of limited size. The payload of a
  write that a crash cut off makes the file longer than the shorter block written
  over it. The next open finds fewer bytes than a header behind that block, takes
  them for a skipped tail, and goes to the start of a file that does not exist;
  a clean shutdown persists that offset and the open after it refuses the store
  (`store.rs:749`, `573`). With the 22 bytes of a header this takes a payload that
  is 1 to 21 bytes longer than the next one.
* `power_fresh`: an entry reaches the disk and the header of the new store does
  not. The store opens with `min_height` 0 and the height below the one written
  reads as its block (`store.rs:497`). The acknowledged block itself is not lost:
  the offset in a header of zeros is 0, so the scan finds it (`AckedKept`).
* `power_writers`: in `SyncMode::Sync`, writer B checkpoints an offset that covers
  the space of writer A while A has yet to write its index entry. Both are
  acknowledged; a loss of power keeps the header and drops A's entry, and no scan
  looks below the header's offset again (`store.rs:1238`).

The same specifications show more of this kind with other constants; no run of
the project checks them:

* `NeverRefused`, two writers, `Cap = 0`, sizes `{1}`, three writes, two failures,
  no crash: of two failed writes the earlier one gives its space back first; the
  later one then rewinds only to the end of the hole. A clean shutdown persists an
  offset beyond the end of the file and the next open refuses the store
  (`store.rs:1116`, `573`), where `store.rs:1110-1113` calls a hole "survivable".
* `Durable`, one writer, `Syncing`, `Cap = 6`, `MaxOffset = 12`, three writes, one
  failure, no crash: a block that skipped to a new file lands, its `sync_all`
  fails, and the reservation is rewound to the tail of the old file. A later,
  acknowledged write of the height goes into that tail; after a clean restart the
  scan goes on from there to the new file and the failed block becomes the content
  of the height again (`store.rs:992`), where `store.rs:942-944` says "the bytes
  never landed". With two writers and two such failures it happens without a cap,
  too.
* `NoAlias`, two writers, sizes `{1, 2}`, `Cap = 2`, `MaxFileIndex = 1`,
  `MaxOffset = 8`, `Start = 0`: once the last file that a `u32` can number is
  exactly full, the next reservation does not skip, so nothing looks at the file
  index, and `split_offset` saturates to the beginning of that file. It opens,
  where `file_set.rs:93-94` says that "opening will fail naturally".
* `DataFiles` with more files than `Capacity`: a file evicted while in use cannot
  be opened again by the same process until its user is done, and the operation
  that tries fails (`file_set.rs:221`); DIFFERENCES.md:199 says "Evicted file
  handles don't strand in-flight operations".
* `FloorSound`, one writer, `MinHeight = 0`, `MaxHeight = 2`: an empty floor looks
  like height 0, and a write at height 1 moves the floor over the missing height
  0 (`store.rs:1128`), where DIFFERENCES.md:160-165 promises the exact floor.
* `Coherent` with `Careful = FALSE`, two goroutines: a reader that fetched the old
  block puts it into the cache after a writer has put the new one there
  (`cached_store.rs:84`). With one goroutine, a block larger than the cache
  replaces a cached one in the store only (`cached_store.rs:108`).
  `cached_store.rs:171-172` says that a write "invalidates the prior cache entry".
* `LiveStoreIntact` with `Polite = FALSE`: an open with truncate empties the index
  file of a live store and only then is told `WouldBlock` (`store.rs:460`);
  DIFFERENCES.md:296-297 says that a second open "fails fast with
  `io::ErrorKind::WouldBlock` instead of corrupting data". `copy` with the source
  as its target does it to itself.
* `Durable`, two writers, `MaxHeight = 3`, `Cap = 0`, `MaxOffset = 11`, four
  writes, one crash: an index entry left behind by a recovery that stopped early
  leads to space that is handed out again. Its height reads as an error or, once a
  block of the same size is there, as the block of another height: `read_block`
  compares the size but not the height (`store.rs:1360`).
* `FreshIsEmpty` with `Recreate = FALSE`: a crash in an open with truncate leaves
  an empty index; a plain open takes the default header, its first entry leaves a
  hole where the header should be, and after a crash the next open reads
  `min_height = 0` from it and returns the blocks of other heights
  (`store.rs:497`).
* `HandleLive` with `Quiet = FALSE`: `Close` frees the store before it clears the
  handle, so a concurrent call or a second `Close` uses it (`blockstore.go:100`).
* `AckedKept` with `Settled = FALSE`: a recovery indexes a block that is only in
  the page cache, and the entry reaches the disk before the block. A shutdown or a
  progress checkpoint then also persists a header past it, and a loss of power
  leaves a data file shorter than the header says: the store is refused
  (`store.rs:863`, `573`). With `Syncing = FALSE` one write suffices.
* `AckedSurvive`, one writer, `Cap = 6`, `MaxOffset = 12`, four writes, two
  crashes, both triggers at 100: orphan payload bytes in the tail of a file make
  the tail look long enough for a header, so the scan ends there instead of
  going to the next file (`store.rs:750`, `file_set.rs:133`).
* `NeverRefused`, two writers, `Cap = 3`, sizes `{1}`, one crash: file 1 exists
  and file 0 does not (`file_set.rs:141`).
* `FloorReadable`, two writers, sizes `{1, 2}`, one crash: the cascade counts an
  entry the recovery scan had rejected (`store.rs:1146`).
* `GapBounded`, two writers, `CheckpointBytes = 6`, four writes: checkpoints in
  the reverse order of their offsets set the header back (`store.rs:1241`).
* `GapBounded` with the constants of `store_files`: a recovery that skips the
  tail of a file checks for a progress checkpoint at its next block only, and may
  end without one (`store.rs:754`).
* `AckedSurvive`, `MaxBlockSize = 1`, sizes `{1, 2}`: `write_block` accepts a
  compressed size that `read_block` refuses (`store.rs:902`, `1315`).
* `Coherent` with `Careful = FALSE` and `LateErrors`: a rewrite whose checkpoint
  fails leaves the old block in the cache, as the comment at
  `cached_store.rs:99-100` announces.

`ImplementsHeightMap`, `FloorReadable`, `NeverRefused` and `GapBounded` therefore hold under
the conditions of the runs that check them – one writer with crashes, or several
writers without – and the lists above are what delimits them. The disciplines
`Careful`, `Quiet`, `Polite`, `Recreate` and `Settled` are of the same kind: a
property that holds under one of them does not catch the behaviour it excludes,
which the entry above that drops it shows instead.

## 5. What is proved

Every theorem is for all values of the constants that satisfy the named
assumptions of the modules (which TLC evaluates in the runs): any number of
writers, threads, heights and blocks, any cap, any limit. A hypothesis beyond
them is written in the theorem, and section 4 has the behaviour that refutes the
statement without it.

| Theorem | Property | Hypothesis |
|---|---|---|
| `ReservationTyped`, `ReservationNoOverlap`, `ReservationHighwaterCovers`, `ReservationWithinOneFile` | the same names | – |
| `ReservationAliasConfined` | `AliasConfined` | – |
| `ContiguityTyped`, `ContiguityFloorSound`, `ContiguityFloorExact`, `ContiguityHighwaterExact` | the same names | `MinHeight # 0` |
| `FileSetConsistent`, `FileSetBounded`, `FileSetNoSpuriousBlock` | `CacheConsistent`, `CacheBounded`, `NoSpuriousBlock` | – |
| `DataFilesImplementReservation`, `DataFilesImplementFileSet`, `DataFilesSafe` | refinement; the safety of both parts | – |
| `HandleBuffersReturned` | `BuffersReturned` | – |
| `QuietHandleLive` | `HandleLive` | `Quiet` |
| `CarefulCoherent`, `CarefulReadCurrent` | `Coherent`, `ReadCurrent` | `Careful /\ Quiet` |
| `PowerAckedKept`, `PowerFloorDurable` | `AckedKept`, `FloorDurable` | one writer, `Syncing`, `Settled` |
| `StoreNoOverlap` | `NoOverlap` | –, crashes included |
| `StoreDurable`, `StoreBytesStable`, `StoreImplementsHeightMap` | `Durable`, `PublishedBytesStable`, `ImplementsHeightMap` | `Tidy` |
| `StoreFloorReadable`, `StoreFloorComplete` | `FloorReadable`, `FloorComplete` | `Tidy /\ MinHeight # 0` |
| `StoreTyped` | `TypeOK` | –, crashes included |
| `StoreGapBounded` | `GapBounded` | `Solo`; crashes included |
| `SoloNeverRefused`, `SoloDurable`, `SoloBytesStable`, `SoloImplementsHeightMap` | `NeverRefused`, `Durable`, `PublishedBytesStable`, `ImplementsHeightMap` | `Solo`; crashes and I/O errors included |
| `SoloAckedSurvive` | `AckedSurvive` | `Solo`; crashes and I/O errors included |
| `SoloFloorReadable`, `SoloFloorComplete` | `FloorReadable`, `FloorComplete` | `Solo /\ MinHeight # 0`; crashes and I/O errors included |
| `ScanFindsFirstGap` | what the chunked index scan computes | – |
| `TruncatedIsFresh`, `OpenStoreSafe`, `CopyIsExact`, `ImportIsExact` | `FreshIsEmpty`, `LiveStoreIntact`, `CopyExact`, `ImportExact` | `Callers`, that is `Polite /\ Recreate`; crashes included |

**ReservationProofs.** `NoOverlap` is not inductive: nothing in it says where
`prev` of an extent lies, and `prev` is where a rewind takes the highwater. The
invariant `RInv` adds that extents are `WellFormed` (`prev <= offset < end`) and
that every two of them, one of which is held, are `Ordered` with the skipped
tail included (one ends at or before the `prev` of the other). The last reserver
has `end = data_highwater`, so everything else ends at or below its `prev`, and
the rewind uncovers nothing. `WithinOneFile` is proved on top of `RInv`, and
`AliasConfined` on top of `RInv` and `Apart` (what has settled is ordered, too):
file number and local offset determine the offset of a block unless the file
number saturated. The lemmas about `NextFileStart` and `WriteOffset` carry the
arithmetic of the cap; the step lemmas (`ReserveKeepsRInv` and the like) are
what `BlockStoreProofs` uses again.

**ContiguityProofs.** `FloorExact` is the answer to the TODO at `store.rs:1139`:
there is no race, even though no lock is held. `CInv` adds `LocalsSound` (what a
writer in the cascade knows of the floor and of the entries) and `DutyKept`:
whenever the height after the floor has an entry, some writer still has the duty
to move the floor – it is before its first exchange at that height, or in the
cascade exactly at the floor. A writer that loses an exchange loses it to one
that takes the duty over. `HighwaterPending` says the same of the highwater.

**DataFilesProofs.** The invariant of the handle cache says that `order` has no
repetition and lists what the map holds, and that a file which is open is cached
or in somebody's hands, so that a blocked open needs more files than fit. The
composition is shown to implement each of its parts: every step of a writer or a
reader is a step of the allocator or leaves it alone, and the same for the cache.
The safety of both then needs no second proof.

**HandleProofs.** The invariant is built in layers, each proved with the ones
before it: the shape of a call (which stage goes with which operation and tag),
the handle (a call inside the library entered a store that is alive, which is
where `Quiet` is used), the buffers (a call between its result and its answer
owns exactly the buffer the result carries), the cache (what a reader has
fetched or a writer has written is still what the store holds when it is cached,
which is where `Careful` is used), and what a read has in hand. The buffers need
none of the disciplines: a `Close` at the wrong moment leaks or frees nothing of
what results carry.

**PowerLossProofs.** There are a frontier `n` and a `min_height` `z`, 0 or 1, such
that the records below `n` are on the disk, the index entries of both copies,
viewed from `z`, point below `n`, and every record below the offset of either
header is indexed in both copies; the floor of either header is founded in both.
A header that is not zero has `min = z`; `z` is 1 until a loss of power takes the
first header, and then both headers are zero, so nothing is claimed by either and
the next recovery scans everything (an index file without entries may be taken
for one of either `z`).
That is why an acknowledged block survives the loss, while an entry of before it
is now another height's: `Straight` (an entry leads to a block of its height) is
part of the invariant for `z = 1` only, and `AckedDurable` fails for `z = 0`. The
rest is the order of the syncs: data before the entry, entries before the header.
With two writers the header of one covers the entry of the other, and the
invariant fails where `power_writers` shows it.

**BlockStoreProofs.** Three invariants for any number of writers, each on top of
the one before.

* `SInv` holds in every state, whatever crashes, failures and recoveries came
  before: the allocator's `RInv` while the store is open, the locals of every
  writer inside the extent it reserved, files no longer than
  the cap, the scan below the end of the last file with a read-ahead window
  that is a copy of the file. It gives `StoreNoOverlap`.
* `TInv` is for `Tidy` stores: no crash, no I/O error after a block is complete
  on disk (which only `Syncing` makes possible), no block that `read_block`
  would refuse for its size. Failed writes are otherwise allowed, in any number
  and order, and so are any number of shutdowns and reopenings. A range is
  `Kept` when it lies below the frontier and no writer holds any of it. `TInv`
  says that every entry's bytes are kept and decode to the block published last,
  that no block header lies outside what is kept – so that the recovery
  scan finds nothing – and that the header's mark is kept. A rewind
  spares what is kept because the extent given back was held. Under `TInv` the
  readable content is `last`, and each step is a step of `HeightMap` or
  invisible.
* `FInv` adds the floor: the `CInv` of `ContiguityProofs` while the store is open
  and, while it is closed, a header from which the scan of the index resumes to
  the same floor.

`Tidy` excludes what section 4 shows to fail: with crashes and two writers a
block behind a hole is lost (`lost_behind_hole`), with failures after a sync a
dead block returns, and an oversize block is accepted and never
read again.

`YInv` adds to `SInv` what `TypeOK` says of the header, the floor and the scan. A
floor in range is not a local matter: what `FinishRecovery` stores is what the
chunked scan of the index returns, from a header that crashes may have left
behind, so `ScanInRange` bounds it for every index and every header.

The other theorems are about crashes. `Solo` is one writer and one data file, and
no block that `read_block` would refuse. Section 4 has counterexamples with two
writers, to `NeverRefused`, `Durable`, `AckedSurvive`, `FloorReadable` and
`GapBounded`, and with files of limited size, to `NeverRefused`, `Durable`,
`AckedSurvive` and `GapBounded`. Within `Solo` everything else is allowed: an I/O
error at any place where the model has one, a crash at any step of a write, of a
recovery, of the recovery from a crash in a recovery, in any number, torn
payloads, remnants of failed writes under later ones, any trigger for
checkpoints. The invariants are these.

* `GapInv`: with one writer the header, `last_checkpoint_offset` and the scan's
  own mark agree except between the two halves of a checkpoint; so the trigger
  measures exactly the gap it is meant to bound.
* `LInv`: there are a set `S` of offsets and an end `E` such that a whole record
  begins at each offset of `S` below `E` and ends at the next one, and no header
  cell lies past `E` (`Log`). The persisted offset and the scan are in `S`
  (`Marks`), and the writer works at `E` (`AtWork`). A complete block at `E`, that a recovery would take for a
  record, belongs to a write that failed or is in progress (`Remnant`).
  `Restored` ties the index to the log: while the store is open the entry of a
  height leads to the record of the block published last; while it is closed,
  that is so or the scan has yet to reach a record of the height; and the last
  record of a height past the persisted offset is one that the caller may find.
  The last clause is what makes it inductive: a recovery that is killed has
  replaced an entry by one to an older record, and the next recovery, from the
  persisted offset, passes the later record again. `ScanTakes` and `ScanAccepts`
  say that the scan, through its window, takes exactly the whole blocks, so it
  ends at `E`, which is where the next write goes.
* `AInv`: what is acknowledged was published. With `LInv` it gives
  `SoloAckedSurvive`, which is the promise of the repository's README.md that the
  run `lost_behind_hole` refutes for two writers.
* `GInv`: the floor and the highwater in the header can be relied upon in every
  state (`Persisted`), and an entry above the header's highwater leads to a
  block that the next scan will come to (`Marked`), so that at the end of every
  recovery the highwater knows of every entry. From there `ScanResumes` finds the
  floor exactly. A progress checkpoint moves highwater and offset together and
  leaves the floor alone, which `Marked` needs.

`LInv` and `GInv` were checked by TLC on the instance of `store_crash` before
they were proved. The lemmas that map a step to a step of `HeightMap`
(`NextMaps`) are shared by `StoreImplementsHeightMap` and
`SoloImplementsHeightMap`: they ask only for a readable content equal to `last`.

`ScanFindsFirstGap` is about the recursive function `LastBeforeGap`: from any
height and for any size of chunk it stops below the first absent height. Without
a usable induction theorem it is proved from the least counterexample: a function
that satisfies the recursion exists, so `LastBeforeGap` satisfies it too, and in
the non-empty set of distances to the end at which the claim fails there is no
least one.

**TransferProofs.** Here crashes are included, between any two steps of an
open and in the middle of a command. `LInv` says where the lock is (with the
session that is past it, and a session that truncates is alone in its
directory), and what a directory is worth: one whose index has a header is
`Sound`, one without is blank and in the hands of who truncates. `Sound` is
about the data alone: the files hold `n` blocks one after the other (`Tiled`),
and each slot points to the last block of its height, so that
`acked` is what the slots point to. It is stronger than what can be read needs,
because it has to survive a recovery: `RecoverSound` shows that the layout is
accepted, that the scan from the header's offset ends at `n`, and that it
finds no entry the index does not have. `WriteSound` carries the arithmetic of the
cap over an append. On top of it `CopyInv` and `ImportInv` say what the tool has
written so far, in terms of `acked`; a step of anybody else leaves both alone
(`ToolAside`), because an open store is in no other session's hands. For
`import` it is also shown that the keys of any table can be put in order
(`Sortable`), from the least counterexample. Without `Polite` a truncation
empties the index of an open store, and without `Recreate` a store is opened
with the default header: the behaviours of section 4.

## 6. What only TLC checks

* Liveness (`FloorCatchesUp`, `RecoveryEnds`): fairness is beyond the prover.
* Crashes with files of limited size: `Durable` and `FloorComplete` in
  `store_files`. The log of `Solo` has no skipped tails. With them the first is
  true of an instance with one crash and no I/O error only (section 4), which is
  not a condition that steps preserve.
* `CleanReopens` in `store_files`: what is left of `NeverRefused` with files of
  limited size when no session crashed and no write failed.

## 7. Plan

Done: all modules of section 2, the runs of section 3 and the theorems of
section 5. Every safety property of a passing run except `CleanReopens` is stated
by a theorem. Two things would extend them:

1. `CleanReopens` for every cap: with no crash and no failure the files end where
   the highwater is, or at the tail that the last reservation skipped.
2. Several writers with crashes, under the condition that no reservation is open
   below an acknowledged block when the process dies.

## 8. Not modelled

* Torn index entries: an entry is 16 bytes and is written whole; so is the header.
* The bytes of headers, compression, checksums: `Intact` stands for them; hash
  collisions do not occur.
* In `Lifecycle` and `PowerLoss`, the parts of a block and failed writes, which
  `BlockStore` has; in `PowerLoss`, several data files.
* Metrics, wording of errors, logging; the hex dump and the progress output of
  the tool; benchmarks, build scripts. The pinning of Go memory during a call.
* The dead code `FileSet::evict` and `for_each_open`.
