----------------------------- MODULE Lifecycle ------------------------------
(***************************************************************************)
(* The life of store directories (Store::open and Drop of                  *)
(* blockstore/src/store.rs): several sessions, each an open of a directory *)
(* by some process, with the order of truncation, lock, removal of the     *)
(* data files and header, and a crash between any two of them.             *)
(*                                                                         *)
(* What happens inside an open store is the module BlockStore; here a      *)
(* write, a recovery and a shutdown are one step each, and a block is one  *)
(* unit of a data file.  The index file is kept slot by slot: the slot of  *)
(* a height depends on the min_height the session found in the header.     *)
(***************************************************************************)
EXTENDS Integers, Sequences, FiniteSetsExt

CONSTANTS
  Sessions,
  Dirs,
  MaxHeight,    \* bound: the largest height written
  Blocks,       \* the blocks that users write
  NoBlock,      \* what a read returns where there is none
  Failure,      \* what a read returns when it fails
  MinHeights,   \* the minimum heights that a store is created with
  Caps,         \* the file sizes it is created with, 0 for unlimited
  MaxFile,      \* bound on the number of data files
  MaxBlocks,    \* bound on the number of blocks in a store
  Polite,       \* TRUE: a truncating open has its directory to itself
  Recreate      \* TRUE: a store whose creation was cut off is created again

ASSUME LifecycleAssumption ==
  /\ MaxHeight \in Nat /\ MaxFile \in Nat /\ MaxBlocks \in Nat
  /\ MinHeights \subseteq Nat /\ Caps \subseteq Nat
  /\ Polite \in BOOLEAN /\ Recreate \in BOOLEAN

NoSession == "nobody"
NoDir == "nowhere"

ASSUME MarkersAssumption ==
  /\ NoSession \notin Sessions /\ NoDir \notin Dirs
  /\ NoBlock \notin Blocks /\ Failure \notin Blocks

VARIABLES
  \* on disk
  index,    \* index[d]: the state of the index file, its header and slots
  files,    \* files[d][f]: the blocks in data file f, none if it is absent
  \* the sessions
  at,       \* where each session is
  dir,      \* its directory
  opt,      \* the options it is being opened with
  mem,      \* its Store: min_height, the file cap and data_highwater
  lock,     \* lock[d]: the session with the lock on the index file
  \* what the callers know
  acked     \* acked[d][h]: the last block written since somebody wiped d

lvars == <<index, files, at, dir, opt, mem, lock, acked>>

Heights == 0 .. MaxHeight
FileIndices == 0 .. MaxFile

(* IndexFileHeader::default(), and a header that is a hole in the file. *)
DefaultHeader == [min |-> 1, cap |-> 0, next |-> 0]
ZeroHeader == [min |-> 0, cap |-> 0, next |-> 0]

EmptySlots == [i \in Heights |-> 0]

(* How long the index file is: absent, empty, or past its header. *)
NoIndex == [file |-> "absent", header |-> DefaultHeader, slots |-> EmptySlots]
EmptyIndex == [NoIndex EXCEPT !.file = "empty"]

NoOptions == [truncate |-> FALSE, min |-> 0, cap |-> 0]
NoStore == [min |-> 0, cap |-> 0, highwater |-> 0]

LInit ==
  /\ index = [d \in Dirs |-> NoIndex]
  /\ files = [d \in Dirs |-> [f \in FileIndices |-> <<>>]]
  /\ at = [s \in Sessions |-> "idle"]
  /\ dir = [s \in Sessions |-> NoDir]
  /\ opt = [s \in Sessions |-> NoOptions]
  /\ mem = [s \in Sessions |-> NoStore]
  /\ lock = [d \in Dirs |-> NoSession]
  /\ acked = [d \in Dirs |-> [h \in Heights |-> NoBlock]]

-----------------------------------------------------------------------------
(* Positions, files and reads. *)

FileOf(cap, p) == IF cap = 0 THEN 0 ELSE p \div cap
Local(cap, p) == IF cap = 0 THEN p ELSE p % cap

Holding(d) == {f \in FileIndices : files[d][f] # <<>>}

(* A block of directory d is at position p, for a store with this cap. *)
IsBlock(d, cap, p) ==
  /\ FileOf(cap, p) \in FileIndices
  /\ Local(cap, p) < Len(files[d][FileOf(cap, p)])

BlockAt(d, cap, p) == files[d][FileOf(cap, p)][Local(cap, p) + 1]

(* read_block of an open session: the entry, then whatever is there. *)
Read(s, h) ==
  LET entry == index[dir[s]].slots[h - mem[s].min]
      p == entry - 1
  IN IF h < mem[s].min THEN Failure
     ELSE IF entry = 0 THEN NoBlock
     ELSE IF IsBlock(dir[s], mem[s].cap, p) THEN BlockAt(dir[s], mem[s].cap, p).block
     ELSE Failure

-----------------------------------------------------------------------------
(* Store::open, step by step. *)

Busy(d) == {s \in Sessions : at[s] # "idle" /\ dir[s] = d}

(***************************************************************************)
(* The discipline of the callers.  Polite: who truncates a directory is    *)
(* alone there until its store is open.  Recreate: an index without a      *)
(* header, left behind by a crash in Store::open, is not opened.           *)
(***************************************************************************)
MayOpen(d, truncate) ==
  IF truncate THEN Polite => Busy(d) = {}
  ELSE /\ Polite => \A r \in Busy(d) : ~opt[r].truncate
       /\ Recreate => index[d].file # "empty"

Goto(s, place) == at' = [at EXCEPT ![s] = place]

(***************************************************************************)
(* The index file is opened, and emptied or created if the options say     *)
(* truncate: before anybody asks for the lock.                             *)
(***************************************************************************)
OpenIndex(s, d, o) ==
  /\ at[s] = "idle"
  /\ MayOpen(d, o.truncate)
  /\ o.truncate \/ index[d].file # "absent"
  /\ index' = IF o.truncate THEN [index EXCEPT ![d] = EmptyIndex] ELSE index
  /\ acked' = IF o.truncate /\ lock[d] = NoSession
              THEN [acked EXCEPT ![d] = [h \in Heights |-> NoBlock]] ELSE acked
  /\ Goto(s, "lock")
  /\ dir' = [dir EXCEPT ![s] = d]
  /\ opt' = [opt EXCEPT ![s] = o]
  /\ UNCHANGED <<files, mem, lock>>

(* The session is over; dropping its files gives the lock up. *)
Gone(S) ==
  /\ at' = [s \in Sessions |-> IF s \in S THEN "idle" ELSE at[s]]
  /\ opt' = [s \in Sessions |-> IF s \in S THEN NoOptions ELSE opt[s]]
  /\ mem' = [s \in Sessions |-> IF s \in S THEN NoStore ELSE mem[s]]
  /\ lock' = [d \in Dirs |-> IF lock[d] \in S THEN NoSession ELSE lock[d]]
  /\ dir' = [s \in Sessions |-> IF s \in S THEN NoDir ELSE dir[s]]

(* Faulty variant: the lock is not exclusive. *)
SharedLock(s) ==
  /\ at[s] = "lock"
  /\ lock' = [lock EXCEPT ![dir[s]] = s]
  /\ Goto(s, IF opt[s].truncate THEN "remove" ELSE "header")
  /\ UNCHANGED <<index, files, dir, opt, mem, acked>>

TryLock(s) ==
  /\ at[s] = "lock"
  /\ lock[dir[s]] = NoSession
  /\ lock' = [lock EXCEPT ![dir[s]] = s]
  /\ Goto(s, IF opt[s].truncate THEN "remove" ELSE "header")
  /\ UNCHANGED <<index, files, dir, opt, mem, acked>>

WouldBlock(s) ==
  /\ at[s] = "lock"
  /\ lock[dir[s]] # NoSession
  /\ Gone({s})
  /\ UNCHANGED <<index, files, acked>>

(* remove_existing_data_files: one after the other, in any order. *)
RemoveFile(s) ==
  /\ at[s] = "remove"
  /\ \E f \in Holding(dir[s]) : files' = [files EXCEPT ![dir[s]][f] = <<>>]
  /\ UNCHANGED <<index, at, dir, opt, mem, lock, acked>>

(* Faulty variant: the data files stay. *)
NothingToRemove(d) == TRUE

AllRemoved(d) == Holding(d) = {}

(* The header of a fresh store is written, and the store is open. *)
CreateStore(s) ==
  /\ at[s] = "remove"
  /\ AllRemoved(dir[s])
  /\ index' = [index EXCEPT ![dir[s]].file = "full",
                            ![dir[s]].header = [min |-> opt[s].min, cap |-> opt[s].cap,
                                                next |-> 0]]
  /\ mem' = [mem EXCEPT ![s] = [min |-> opt[s].min, cap |-> opt[s].cap, highwater |-> 0]]
  /\ opt' = [opt EXCEPT ![s] = NoOptions]
  /\ Goto(s, "open")
  /\ UNCHANGED <<files, dir, lock, acked>>

(* The header read back: an index that is too short leaves the default. *)
ReadHeader(d) == IF index[d].file = "full" THEN index[d].header ELSE DefaultHeader

(***************************************************************************)
(* recover: the layout, and the entries of the blocks past the header's    *)
(* offset, up to the first one the store does not accept.                  *)
(***************************************************************************)
LayoutEnd(d, cap) ==
  IF Holding(d) = {} THEN 0
  ELSE Max(Holding(d)) * cap + Len(files[d][Max(Holding(d))])

LayoutValid(d, h) ==
  /\ \A f \in Holding(d) : 0 .. f \subseteq Holding(d)
  /\ h.cap = 0 => Holding(d) \subseteq {0}
  /\ LayoutEnd(d, h.cap) >= h.next

Bad(d, h) == {p \in h.next .. LayoutEnd(d, h.cap) :
                IsBlock(d, h.cap, p) => BlockAt(d, h.cap, p).height < h.min}

ScanEnd(d, h) == Min(Bad(d, h) \union {LayoutEnd(d, h.cap)})

Recovered(d, h) ==
  [i \in Heights |->
     LET found == {p \in h.next .. ScanEnd(d, h) - 1 :
                     BlockAt(d, h.cap, p).height - h.min = i}
     IN IF found = {} THEN index[d].slots[i] ELSE Max(found) + 1]

Recover(s) ==
  /\ at[s] = "header"
  /\ LET d == dir[s]
         h == ReadHeader(d)
     IN IF LayoutValid(d, h)
        THEN /\ index' = [index EXCEPT
                            ![d].slots = Recovered(d, h),
                            ![d].header = IF index[d].file = "full" THEN @ ELSE ZeroHeader,
                            ![d].file = IF Recovered(d, h) = index[d].slots THEN @ ELSE "full"]
             /\ mem' = [mem EXCEPT ![s] = [min |-> h.min, cap |-> h.cap,
                                           highwater |-> ScanEnd(d, h)]]
             /\ Goto(s, "open")
        ELSE Goto(s, "refused") /\ UNCHANGED <<index, mem>>
  /\ opt' = [opt EXCEPT ![s] = NoOptions]
  /\ UNCHANGED <<files, dir, lock, acked>>

(* The open fails: Drop writes no header, since recovered is not set. *)
Refuse(s) ==
  /\ at[s] = "refused"
  /\ Gone({s})
  /\ UNCHANGED <<index, files, acked>>

OpenStep(s) ==
  \/ TryLock(s) \/ WouldBlock(s) \/ RemoveFile(s) \/ CreateStore(s)
  \/ Recover(s) \/ Refuse(s)

-----------------------------------------------------------------------------
(* An open store. *)

CanWrite(s, h) ==
  /\ at[s] = "open"
  /\ h >= mem[s].min
  /\ mem[s].highwater < MaxBlocks
  /\ FileOf(mem[s].cap, mem[s].highwater) \in FileIndices

(* An entry past the end of an emptied index leaves a hole before it. *)
Write(s, h, b) ==
  /\ CanWrite(s, h)
  /\ LET d == dir[s]
         p == mem[s].highwater
         f == FileOf(mem[s].cap, p)
         l == Local(mem[s].cap, p)
     IN /\ files' = [files EXCEPT ![d][f] =
                       SubSeq(@, 1, l) \o <<[height |-> h, block |-> b]>>
                                       \o SubSeq(@, l + 2, Len(@))]
        /\ index' = [index EXCEPT ![d].slots[h - mem[s].min] = p + 1,
                                  ![d].header = IF index[d].file = "full" THEN @ ELSE ZeroHeader,
                                  ![d].file = "full"]
        /\ acked' = [acked EXCEPT ![d][h] = b]
        /\ mem' = [mem EXCEPT ![s].highwater = p + 1]
  /\ UNCHANGED <<at, dir, opt, lock>>

(* Drop: the last checkpoint of each of these sessions, and the lock. *)
Close(S) ==
  /\ \A s \in S : at[s] = "open"
  /\ index' = [d \in Dirs |->
                 IF \E s \in S : dir[s] = d
                 THEN LET s == CHOOSE r \in S : dir[r] = d
                      IN [index[d] EXCEPT !.file = "full",
                                          !.header = [min |-> mem[s].min, cap |-> mem[s].cap,
                                                      next |-> mem[s].highwater]]
                 ELSE index[d]]
  /\ Gone(S)
  /\ UNCHANGED <<files, acked>>

(* The process with the sessions S dies. *)
Crash(S) ==
  /\ \E s \in S : at[s] # "idle"
  /\ Gone(S)
  /\ UNCHANGED <<index, files, acked>>

-----------------------------------------------------------------------------
(***************************************************************************)
(* After an open with truncate no block of an earlier store is ever seen   *)
(* again, also when the fresh store dies at once and is recovered from     *)
(* what is in the directory ("Otherwise old data would haunt a fresh       *)
(* store"): what was not written at a height since is not read there.      *)
(***************************************************************************)
FreshIsEmpty ==
  \A s \in Sessions : at[s] = "open" =>
    \A h \in mem[s].min .. MaxHeight :
      acked[dir[s]][h] = NoBlock => Read(s, h) = NoBlock

(***************************************************************************)
(* A store keeps every block it acknowledged, through second opens and     *)
(* crashes: it can be read, and the directory is not refused.              *)
(* (DIFFERENCES.md: "A second open against the same directory fails fast   *)
(* with io::ErrorKind::WouldBlock instead of corrupting data".)  With      *)
(* Polite the second opens are those without truncate, and it says nothing *)
(* of one that truncates, which breaks it.                                 *)
(***************************************************************************)
LiveStoreIntact ==
  \A s \in Sessions : at[s] \in {"open", "refused"} =>
    \A h \in Heights : acked[dir[s]][h] # NoBlock =>
      at[s] = "open" /\ Read(s, h) = acked[dir[s]][h]

=============================================================================
