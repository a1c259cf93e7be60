---------------------------- MODULE CachedStore ----------------------------
(***************************************************************************)
(* The read-through cache in front of a store (blockstore/src/             *)
(* cached_store.rs).  read_block and write_block go to the store and to    *)
(* the cache one after the other, with the mutex taken for the cache only, *)
(* so another thread may run between the two.                              *)
(*                                                                         *)
(* The store behind it is a map from heights to blocks.  An error of the   *)
(* store is passed on and leaves the cache alone; a write that failed may  *)
(* have reached the index all the same (its checkpoint failed).            *)
(* The lru-mem cache is external: an insert replaces the entry of the key  *)
(* and may drop any others to keep the byte budget, and a block larger     *)
(* than the whole budget is refused and leaves the cache as it is.  A read *)
(* that hits changes nothing but the recency order, which the choice of    *)
(* what is dropped stands for, so it is not an action.  The module Handle  *)
(* puts the steps together into the calls of its users.                    *)
(***************************************************************************)
EXTENDS Integers

CONSTANTS
  Threads, Heights,
  Blocks,        \* the blocks that are written
  Oversize,      \* those larger than the cache's byte budget
  Careful,       \* TRUE: the callers keep the discipline of MayWrite
  LateErrors,    \* TRUE: a write may fail after its entry was published
  NoBlock        \* what read_block returns for a height without a block

ASSUME CachedStoreAssumption ==
  /\ Oversize \subseteq Blocks
  /\ Careful \in BOOLEAN /\ LateErrors \in BOOLEAN
  /\ NoBlock \notin Blocks /\ NoBlock \notin Heights

VARIABLES
  stored,  \* the blocks in the inner store
  cache,   \* the cached blocks, NoBlock where there is none
  at,      \* where each thread is
  job      \* job[t]: the height it works on and the block it carries

kvars == <<stored, cache, at, job>>

NoJob == [height |-> NoBlock, block |-> NoBlock]

Init ==
  /\ stored = [h \in Heights |-> NoBlock]
  /\ cache = [h \in Heights |-> NoBlock]
  /\ at = [t \in Threads |-> "idle"]
  /\ job = [t \in Threads |-> NoJob]

-----------------------------------------------------------------------------
(* LruCache::insert of a block that fits; drops any set of others. *)
InsertFitting(h, b) ==
  \E dropped \in SUBSET (Heights \ {h}) :
    cache' = [k \in Heights |-> IF k = h THEN b
                                ELSE IF k \in dropped THEN NoBlock ELSE cache[k]]

Insert(h, b) ==
  IF b \in Oversize THEN UNCHANGED cache ELSE InsertFitting(h, b)

Start(t, place, h, b) ==
  /\ at[t] = "idle"
  /\ at' = [at EXCEPT ![t] = place]
  /\ job' = [job EXCEPT ![t] = [height |-> h, block |-> b]]

Return(t) ==
  /\ at' = [at EXCEPT ![t] = "idle"]
  /\ job' = [job EXCEPT ![t] = NoJob]

(* read_block: the look into the cache finds nothing. *)
ReadMiss(t, h) ==
  /\ cache[h] = NoBlock
  /\ Start(t, "fetch", h, NoBlock)
  /\ UNCHANGED <<stored, cache>>

(* inner.read_block; a height without a block is not cached. *)
Fetch(t) ==
  /\ at[t] = "fetch"
  /\ LET b == stored[job[t].height] IN
       IF b = NoBlock
       THEN Return(t)
       ELSE /\ job' = [job EXCEPT ![t].block = b]
            /\ at' = [at EXCEPT ![t] = "populate"]
  /\ UNCHANGED <<stored, cache>>

(* The block that was read is put into the cache. *)
Populate(t) ==
  /\ at[t] = "populate"
  /\ Insert(job[t].height, job[t].block)
  /\ Return(t)
  /\ UNCHANGED stored

(***************************************************************************)
(* Careful callers rewrite a height only while no other call works on it,  *)
(* and with a block that the cache can hold.                               *)
(***************************************************************************)
MayWrite(h, b) ==
  Careful /\ stored[h] # NoBlock =>
    b \notin Oversize /\ \A t \in Threads : job[t].height # h

(* write_block: the inner store first ... *)
WriteThrough(t, h, b) ==
  /\ MayWrite(h, b)
  /\ stored' = [stored EXCEPT ![h] = b]
  /\ Start(t, "cache", h, b)
  /\ UNCHANGED cache

(***************************************************************************)
(* The checkpoint of inner.write_block failed after the entry was          *)
(* published; the cache is not touched.  (For a careful caller only the    *)
(* first write of a height fails like this.)                               *)
(***************************************************************************)
WriteFailsLate(t, h, b) ==
  /\ LateErrors
  /\ at[t] = "idle"
  /\ Careful => stored[h] = NoBlock
  /\ stored' = [stored EXCEPT ![h] = b]
  /\ UNCHANGED <<cache, at, job>>

(* Faulty variant: a block already cached is kept. *)
CacheIfAbsent(t) ==
  /\ at[t] = "cache"
  /\ IF cache[job[t].height] = NoBlock
     THEN Insert(job[t].height, job[t].block) ELSE UNCHANGED cache
  /\ Return(t)
  /\ UNCHANGED stored

(* ... and then the cache. *)
CacheWritten(t) ==
  /\ at[t] = "cache"
  /\ Insert(job[t].height, job[t].block)
  /\ Return(t)
  /\ UNCHANGED stored

-----------------------------------------------------------------------------
(***************************************************************************)
(* Once nobody is working on a height, the cache holds nothing for it or   *)
(* what the store holds: a read that hits then returns the block a read of *)
(* the store would.  (The test write_overrides_cache_at_same_height:       *)
(* "Writing a block at an existing height invalidates the prior cache      *)
(* entry -- subsequent reads return the new payload".)                     *)
(***************************************************************************)
Coherent ==
  \A h \in Heights :
    (\A t \in Threads : job[t].height # h) => cache[h] \in {NoBlock, stored[h]}

=============================================================================
