----------------------------- MODULE DataFiles ------------------------------
(***************************************************************************)
(* Reservation and FileSet together, the way write_block and read_block    *)
(* use them (blockstore/src/store.rs): a writer reserves space, resolves   *)
(* the file that holds it and writes there, or gives the space back; a     *)
(* reader resolves the file of a block that landed.                        *)
(***************************************************************************)
EXTENDS Reservation, FileSet

ASSUME DataFilesAssumption ==
  /\ Writers \subseteq Threads
  /\ 0 .. MaxFileIndex \subseteq Indices

VARIABLE failed  \* writers on their way to release_reservation

dvars == <<rvars, fvars, failed>>

DInit == RInit /\ FInit /\ failed = {}

(* write_block: reserve_space comes first, without a file. *)
BeginWrite(t, size) ==
  /\ at[t] = "idle"
  /\ ReserveSpace(t, size)
  /\ UNCHANGED <<fvars, failed>>

(* FileSet::resolve: the index of the file that holds offset o. *)
ResolveOffset(t, o) ==
  /\ Lookup(t, SplitOffset(o).file)
  /\ UNCHANGED <<rvars, failed>>

ResolveForWrite(t) ==
  /\ Holds(t) /\ t \notin failed
  /\ ResolveOffset(t, rsv[t].offset)

ResolveForRead(t) ==
  /\ t \in Writers => ~Holds(t)
  /\ \E e \in landed : ResolveOffset(t, e.offset)

(* The rest of get_or_open, for either of them. *)
GetOrOpen(t) ==
  /\ FoundMeanwhile(t) \/ OpenFile(t) \/ OpenBlocked(t)
  /\ UNCHANGED <<rvars, failed>>

WriteLands(t) ==
  /\ at[t] = "using"
  /\ Land(t)
  /\ Finish(t)
  /\ UNCHANGED failed

(* The file cannot be opened or a write fails: the closure returns ... *)
WriteFails(t) ==
  /\ Holds(t)
  /\ Finish(t)
  /\ failed' = failed \union {t}
  /\ UNCHANGED rvars

(* ... and the space is given back. *)
GiveBack(t) ==
  /\ t \in failed
  /\ ReleaseReservation(t)
  /\ failed' = failed \ {t}
  /\ UNCHANGED fvars

ReadReturns(t) ==
  /\ t \in Writers => ~Holds(t)
  /\ Finish(t)
  /\ UNCHANGED <<rvars, failed>>

DNext ==
  \/ \E t \in Writers :
       \/ \E size \in Sizes : BeginWrite(t, size)
       \/ ResolveForWrite(t) \/ WriteLands(t) \/ WriteFails(t) \/ GiveBack(t)
  \/ \E t \in Threads : ResolveForRead(t) \/ GetOrOpen(t) \/ ReadReturns(t)

DSpec == DInit /\ [][DNext]_dvars

=============================================================================
