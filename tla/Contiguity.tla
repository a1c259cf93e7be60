----------------------------- MODULE Contiguity -----------------------------
(***************************************************************************)
(* Publication of index entries and the lock-free contiguity floor:        *)
(* the part of Store::write_block after the data has landed                *)
(* (update_index_at, advance_max_contiguous_height, update_highwater in    *)
(* blockstore/src/store.rs).                                               *)
(*                                                                         *)
(* max_contiguous_height and height_highwater are atomics; no lock is      *)
(* held, so every load, compare_exchange and index read or write is a step *)
(* of its own and other writers may run between any two of them.  Heights  *)
(* may be written in any order, more than once and by several writers.     *)
(***************************************************************************)
EXTENDS Integers

CONSTANTS
  Writers,     \* the threads inside write_block
  MinHeight,   \* IndexFileHeader.min_height
  MaxHeight,   \* the largest height the callers use
  Entry        \* the non-zero index entries

ASSUME ContiguityAssumption ==
  /\ MinHeight \in Nat
  /\ MaxHeight \in Nat

(* The entry read where none was written: offset and size are 0. *)
CONSTANT ZeroEntry

ASSUME ZeroEntryAssumption == ZeroEntry \notin Entry

VARIABLES
  index,                  \* index[h]: the entry of height h in the index file
  max_contiguous_height,  \* Store.max_contiguous_height
  height_highwater,       \* Store.height_highwater
  at,                     \* at[w]: where writer w is
  height,                 \* height[w]: the height w is writing
  prev                    \* prev[w]: the local of the cascade loop

cvars == <<index, max_contiguous_height, height_highwater, at, height, prev>>

Heights == MinHeight .. MaxHeight

(* u64::saturating_sub(1) *)
Pred(h) == IF h = 0 THEN 0 ELSE h - 1

FloorIfEmpty == Pred(MinHeight)

(***************************************************************************)
(* read_index_entry: beyond the last entry of the file it yields a zero    *)
(* entry.                                                                  *)
(***************************************************************************)
ReadEntry(h) == IF h \in Heights THEN index[h] ELSE ZeroEntry

Present(h) == ReadEntry(h) # ZeroEntry

Places == {"idle", "cas", "read", "cascade", "highwater"}

(* Every height from MinHeight to m has an entry. *)
ContiguousTo(m) == \A h \in MinHeight .. m : Present(h)

(***************************************************************************)
(* A store just opened: recover has set the floor to the last entry before *)
(* the first gap and the highwater to the highest entry.  Without entries  *)
(* the highwater is that of a fresh store or, from the header of a store   *)
(* that never took a checkpoint, 0.                                        *)
(***************************************************************************)
CInit ==
  /\ index \in [Heights -> Entry \union {ZeroEntry}]
  /\ max_contiguous_height \in FloorIfEmpty .. MaxHeight
  /\ max_contiguous_height > FloorIfEmpty => ContiguousTo(max_contiguous_height)
  /\ ~Present(max_contiguous_height + 1)
  /\ height_highwater \in {0} \union (FloorIfEmpty .. MaxHeight)
  /\ height_highwater > FloorIfEmpty => Present(height_highwater)
  /\ \A h \in Heights : Present(h) => h <= height_highwater
  /\ at = [w \in Writers |-> "idle"]
  /\ height = [w \in Writers |-> MinHeight]
  /\ prev = [w \in Writers |-> 0]

-----------------------------------------------------------------------------
(* update_index_at: the entry of height h becomes e. *)
PublishEntry(w, h, e) ==
  /\ at[w] = "idle"
  /\ index' = [index EXCEPT ![h] = e]
  /\ height' = [height EXCEPT ![w] = h]
  /\ at' = [at EXCEPT ![w] = "cas"]
  /\ UNCHANGED <<max_contiguous_height, height_highwater, prev>>

(* Faulty variant: fetch_max in place of the compare_exchange. *)
FetchMax(w) ==
  /\ at[w] = "cas"
  /\ max_contiguous_height' = IF max_contiguous_height < height[w]
                              THEN height[w] ELSE max_contiguous_height
  /\ prev' = [prev EXCEPT ![w] = height[w]]
  /\ at' = [at EXCEPT ![w] = "read"]
  /\ UNCHANGED <<index, height_highwater, height>>

(***************************************************************************)
(* advance_max_contiguous_height, the first compare_exchange: from the     *)
(* height below ours to ours.  On failure the write is out of order and    *)
(* the floor is left to whoever closes the gap.  On success the cascade    *)
(* loop begins; prev already holds its incremented value.                  *)
(***************************************************************************)
CompareExchange(w) ==
  /\ at[w] = "cas"
  /\ IF max_contiguous_height = Pred(height[w])
     THEN /\ max_contiguous_height' = height[w]
          /\ prev' = [prev EXCEPT ![w] = Pred(height[w]) + 1]
          /\ at' = [at EXCEPT ![w] = "read"]
     ELSE /\ at' = [at EXCEPT ![w] = "highwater"]
          /\ UNCHANGED <<max_contiguous_height, prev>>
  /\ UNCHANGED <<index, height_highwater, height>>

(* Faulty variant: stops at the highwater as of right now. *)
CascadeToHighwater(w) ==
  /\ at[w] = "read"
  /\ at' = [at EXCEPT ![w] =
              IF Present(prev[w] + 1) /\ prev[w] + 1 <= height_highwater
              THEN "cascade" ELSE "highwater"]
  /\ UNCHANGED <<index, max_contiguous_height, height_highwater, height, prev>>

(* Faulty variant: a read past the end of the index counts as an entry. *)
CascadePastEnd(w) ==
  /\ at[w] = "read"
  /\ at' = [at EXCEPT ![w] =
              IF Present(prev[w] + 1) \/ prev[w] + 1 > MaxHeight
              THEN "cascade" ELSE "highwater"]
  /\ UNCHANGED <<index, max_contiguous_height, height_highwater, height, prev>>

(* The cascade loop reads the entry after prev and stops at a gap. *)
CascadeRead(w) ==
  /\ at[w] = "read"
  /\ at' = [at EXCEPT ![w] = IF Present(prev[w] + 1) THEN "cascade"
                                                     ELSE "highwater"]
  /\ UNCHANGED <<index, max_contiguous_height, height_highwater, height, prev>>

(* Raise the floor over the entry read, unless somebody else moved it. *)
CascadeExchange(w) ==
  /\ at[w] = "cascade"
  /\ IF max_contiguous_height = prev[w]
     THEN /\ max_contiguous_height' = prev[w] + 1
          /\ prev' = [prev EXCEPT ![w] = prev[w] + 1]
          /\ at' = [at EXCEPT ![w] = "read"]
     ELSE /\ at' = [at EXCEPT ![w] = "highwater"]
          /\ UNCHANGED <<max_contiguous_height, prev>>
  /\ UNCHANGED <<index, height_highwater, height>>

(* The locals of a writer that is done go out of scope. *)
Leave(w) ==
  /\ at' = [at EXCEPT ![w] = "idle"]
  /\ height' = [height EXCEPT ![w] = MinHeight]
  /\ prev' = [prev EXCEPT ![w] = 0]

(* Faulty variant: a plain store in place of the maximum. *)
StoreHighwater(w) ==
  /\ at[w] = "highwater"
  /\ height_highwater' = height[w]
  /\ Leave(w)
  /\ UNCHANGED <<index, max_contiguous_height>>

(* update_highwater: fetch_update to the maximum. *)
UpdateHighwater(w) ==
  /\ at[w] = "highwater"
  /\ height_highwater' = IF height_highwater < height[w] THEN height[w]
                                                         ELSE height_highwater
  /\ Leave(w)
  /\ UNCHANGED <<index, max_contiguous_height>>

Advance(w) ==
  \/ CompareExchange(w)
  \/ CascadeRead(w)
  \/ CascadeExchange(w)
  \/ UpdateHighwater(w)

CNext ==
  \E w \in Writers :
    \/ \E h \in Heights, e \in Entry : PublishEntry(w, h, e)
    \/ Advance(w)

CSpec == CInit /\ [][CNext]_cvars

(***************************************************************************)
(* A thread inside write_block runs on: nothing in this part blocks.  No   *)
(* writer is obliged to begin a write.                                     *)
(***************************************************************************)
CFairSpec == CSpec /\ \A w \in Writers : WF_cvars(Advance(w))

-----------------------------------------------------------------------------
(***************************************************************************)
(* Type correctness; in particular the floor never runs past the heights   *)
(* that exist.                                                             *)
(***************************************************************************)
CTypeOK ==
  /\ index \in [Heights -> Entry \union {ZeroEntry}]
  /\ max_contiguous_height \in Heights \union {FloorIfEmpty}
  /\ height_highwater \in Heights \union {0, FloorIfEmpty}
  /\ at \in [Writers -> Places]
  /\ height \in [Writers -> Nat]
  /\ prev \in [Writers -> Nat]

Idle(w) == at[w] = "idle"

(***************************************************************************)
(* The floor never claims a height that is missing: max_contiguous_height  *)
(* above its empty value means that every height from min_height to it has *)
(* an index entry, at every instant of every interleaving of the           *)
(* compare_exchange loops.                                                 *)
(***************************************************************************)
FloorSound ==
  max_contiguous_height > FloorIfEmpty => ContiguousTo(max_contiguous_height)

(***************************************************************************)
(* The floor is exact whenever no write is in progress: the height after   *)
(* it is missing.  This is the race that the TODO in                       *)
(* advance_max_contiguous_height asks about: a writer that stops its       *)
(* cascade at a gap, or loses a compare_exchange, must leave the floor to  *)
(* another writer that is still going to move it.                          *)
(***************************************************************************)
FloorExact ==
  (\A w \in Writers : Idle(w)) => ~Present(max_contiguous_height + 1)

(***************************************************************************)
(* With no write in progress height_highwater is at least every height in  *)
(* the index, hence at least the floor: the fetch_update of concurrent     *)
(* writers loses no maximum.                                               *)
(***************************************************************************)
HighwaterExact ==
  (\A w \in Writers : Idle(w)) =>
    \A h \in Heights : Present(h) => h <= height_highwater

(***************************************************************************)
(* Once every height up to h has its entry, the floor reaches h, however   *)
(* the cascades of the writers interleave and whatever further writes come *)
(* in.                                                                     *)
(***************************************************************************)
FloorCatchesUp ==
  \A h \in Heights : ContiguousTo(h) ~> max_contiguous_height >= h
=============================================================================
