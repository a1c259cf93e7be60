------------------------------ MODULE FileSet ------------------------------
(***************************************************************************)
(* The cache of open data files (blockstore/src/file_set.rs): FileSet::    *)
(* get_or_open with its two passes through the mutex, the LRU order kept   *)
(* by Inner, and the advisory lock each open File carries.                 *)
(*                                                                         *)
(* A File lives as long as the cache or some caller has an Arc to it, and  *)
(* its lock with it.  A second open of a file that is still locked fails   *)
(* (within one process too), so at most one File per index is alive and    *)
(* the index identifies it.                                                *)
(***************************************************************************)
EXTENDS Integers, Sequences, FiniteSets

CONSTANTS
  Threads,   \* callers of resolve: readers and writers
  Indices,   \* the data file indices in use
  Capacity   \* max_data_files, at least 1

ASSUME FileSetAssumption == Indices \subseteq Nat /\ Capacity \in Nat \ {0}

NoFile == -1

VARIABLES
  order,    \* Inner.order: least recently used first
  handles,  \* the indices with an entry in Inner.handles
  at,       \* where each caller is
  want,     \* want[t]: the index it asked for
  held,     \* held[t]: the index of the File it has an Arc to
  opened    \* the indices opened so far

fvars == <<order, handles, at, want, held, opened>>

FInit ==
  /\ order = <<>>
  /\ handles = {}
  /\ at = [t \in Threads |-> "idle"]
  /\ want = [t \in Threads |-> NoFile]
  /\ held = [t \in Threads |-> NoFile]
  /\ opened = {}

-----------------------------------------------------------------------------
(* Where the index is in the order. *)
Positions(i) == {n \in 1 .. Len(order) : order[n] = i}

(* Faulty variant: pushes the index without taking it out first. *)
TouchAgain(i) == IF order # <<>> /\ order[Len(order)] = i THEN order
                 ELSE Append(order, i)

(* Inner::touch: the index, if it is there, becomes the most recently used. *)
Touched(i) ==
  IF Positions(i) = {} THEN order
  ELSE LET p == CHOOSE n \in Positions(i) : \A m \in Positions(i) : n <= m
       IN SubSeq(order, 1, p - 1) \o SubSeq(order, p + 1, Len(order)) \o <<i>>

(* Faulty variant: makes room only when the cache is over-full already. *)
EvictLate(i) == Cardinality(handles) > Capacity

(* Inner::insert: one handle more than the capacity needs room. *)
MustEvict(i) == Cardinality(handles \union {i}) > Capacity

(* Inner::insert of an index that is not in the cache. *)
Insert(i) ==
  IF MustEvict(i) /\ order # <<>>
  THEN /\ order' = Append(Tail(order), i)
       /\ handles' = (handles \ {Head(order)}) \union {i}
  ELSE /\ order' = Append(order, i)
       /\ handles' = handles \union {i}

(* The caller gets a clone of the Arc. *)
Obtain(t, i) ==
  /\ at' = [at EXCEPT ![t] = "using"]
  /\ held' = [held EXCEPT ![t] = i]
  /\ want' = [want EXCEPT ![t] = NoFile]

(* lookup: under the mutex, a hit or a miss. *)
Lookup(t, i) ==
  /\ at[t] = "idle"
  /\ IF i \in handles
     THEN /\ order' = Touched(i)
          /\ Obtain(t, i)
     ELSE /\ at' = [at EXCEPT ![t] = "miss"]
          /\ want' = [want EXCEPT ![t] = i]
          /\ UNCHANGED <<order, held>>
  /\ UNCHANGED <<handles, opened>>

(* Faulty variant: there is no second look. *)
NoSecondLook(i) == FALSE

(* The second look, under the mutex again: somebody else was faster. *)
SecondLook(i) == i \in handles

(* A File for the index is alive, in the cache or out of it. *)
StillLocked(i) == i \in handles \/ \E t \in Threads : held[t] = i

FoundMeanwhile(t) ==
  /\ at[t] = "miss"
  /\ SecondLook(want[t])
  /\ order' = Touched(want[t])
  /\ Obtain(t, want[t])
  /\ UNCHANGED <<handles, opened>>

(* The file is opened, locked and put into the cache. *)
OpenFile(t) ==
  /\ at[t] = "miss"
  /\ ~SecondLook(want[t])
  /\ ~StillLocked(want[t])
  /\ Insert(want[t])
  /\ opened' = opened \union {want[t]}
  /\ Obtain(t, want[t])

(* try_lock fails: get_or_open returns WouldBlock. *)
OpenBlocked(t) ==
  /\ at[t] = "miss"
  /\ ~SecondLook(want[t])
  /\ StillLocked(want[t])
  /\ at' = [at EXCEPT ![t] = "blocked"]
  /\ want' = [want EXCEPT ![t] = NoFile]
  /\ UNCHANGED <<order, handles, held, opened>>

(* The read or write is over, or its error was returned: the Arc drops. *)
Finish(t) ==
  /\ at[t] \in {"using", "blocked"}
  /\ at' = [at EXCEPT ![t] = "idle"]
  /\ held' = [held EXCEPT ![t] = NoFile]
  /\ UNCHANGED <<order, handles, want, opened>>

FNext ==
  \E t \in Threads :
    \/ \E i \in Indices : Lookup(t, i)
    \/ FoundMeanwhile(t)
    \/ OpenFile(t)
    \/ OpenBlocked(t)
    \/ Finish(t)

FSpec == FInit /\ [][FNext]_fvars

-----------------------------------------------------------------------------
(***************************************************************************)
(* The two structures of the cache agree: order lists every cached handle  *)
(* exactly once.  A duplicate or a stray index would make insert evict     *)
(* nothing and let the cache grow.                                         *)
(***************************************************************************)
CacheConsistent ==
  /\ Len(order) = Cardinality(handles)
  /\ {order[n] : n \in 1 .. Len(order)} = handles

(***************************************************************************)
(* Never more than max_data_files handles are cached, whatever the callers *)
(* do between a miss and the open that follows it.                         *)
(***************************************************************************)
CacheBounded == Cardinality(handles) <= Capacity

(***************************************************************************)
(* As long as the files in use fit into the cache, get_or_open never fails *)
(* because of a lock this process holds itself: the open is done under the *)
(* mutex after a second look "so concurrent callers racing on the same     *)
(* cold index don't both open the file".                                   *)
(***************************************************************************)
NoSpuriousBlock ==
  Cardinality(opened) <= Capacity => \A t \in Threads : at[t] # "blocked"

=============================================================================
