---------------------------- MODULE Reservation ----------------------------
(***************************************************************************)
(* Space allocation in the data files: Store::reserve_space and            *)
(* Store::release_reservation (blockstore/src/store.rs).                   *)
(*                                                                         *)
(* Writers share one mutex-protected highwater.  A write reserves the      *)
(* bytes [offset, end) by moving the highwater to end; with a cap on the   *)
(* file size it first skips to the next file if the block would straddle   *)
(* the boundary, so prev (the highwater before) may lie below offset.  A   *)
(* write whose bytes land keeps its extent; one that fails hands it back,  *)
(* but only if it is still the last reserver: otherwise it leaves a hole.  *)
(* Each operation runs entirely under the mutex, so each is one action.    *)
(***************************************************************************)
EXTENDS Integers

CONSTANTS
  Writers,       \* the threads inside write_block
  Sizes,         \* sizes of blocks with their header (size_with_header)
  Cap,           \* max_data_file_size; 0 for None (one unlimited file)
  MaxOffset,     \* the largest offset there is: u64::MAX in the code
  MaxFileIndex,  \* the largest file index there is: u32::MAX in the code
  Start          \* the highwater when the session opens

ASSUME ReservationAssumption ==
  /\ Sizes \subseteq Nat \ {0}
  /\ Cap \in Nat
  /\ MaxOffset \in Nat
  /\ MaxFileIndex \in Nat
  /\ Start \in Nat

VARIABLES
  data_highwater,  \* Store.data_highwater
  rsv,             \* rsv[w]: the extent writer w holds, or NoReservation
  landed,          \* the extents whose bytes were written
  holes            \* the extents given up while not the last one

rvars == <<data_highwater, rsv, landed, holes>>

(***************************************************************************)
(* What reserve_space returns: the extent and the highwater before it.     *)
(* An extent is never empty, so end = 0 marks a writer that holds none.    *)
(***************************************************************************)
Extent == [prev : Nat, offset : Nat, end : Nat]

NoReservation == [prev |-> 0, offset |-> 0, end |-> 0]

Holds(w) == rsv[w].end # 0

RInit ==
  /\ data_highwater = Start
  /\ rsv = [w \in Writers |-> NoReservation]
  /\ landed = {}
  /\ holes = {}

-----------------------------------------------------------------------------
(* advance_to_next_file: where the file after the one holding c begins. *)
NextFileStart(c) == ((c \div Cap) + 1) * Cap

(* Faulty variant: off by one at the end of the file. *)
FitsOffByOne(c, size) == Cap = 0 \/ (c % Cap) + size <= Cap + 1

(* The block fits between c and the end of the file that holds c. *)
FitsInFile(c, size) == Cap = 0 \/ (c % Cap) + size <= Cap

WriteOffset(c, size) == IF FitsInFile(c, size) THEN c ELSE NextFileStart(c)

(***************************************************************************)
(* The conditions under which reserve_space returns Ok.  Otherwise it      *)
(* returns an error and changes nothing.                                   *)
(***************************************************************************)
CanReserve(c, size) ==
  /\ Cap # 0 => size <= Cap
  /\ ~FitsInFile(c, size) => (c \div Cap) + 1 <= MaxFileIndex
  /\ WriteOffset(c, size) + size <= MaxOffset

(* Faulty variant: the highwater grows by the size, not to the end. *)
ReserveForgetsSkip(w, size) ==
  /\ ~Holds(w)
  /\ CanReserve(data_highwater, size)
  /\ LET o == WriteOffset(data_highwater, size) IN
       rsv' = [rsv EXCEPT ![w] = [prev |-> data_highwater,
                                  offset |-> o, end |-> o + size]]
  /\ data_highwater' = data_highwater + size
  /\ UNCHANGED <<landed, holes>>

ReserveSpace(w, size) ==
  /\ ~Holds(w)
  /\ CanReserve(data_highwater, size)
  /\ LET o == WriteOffset(data_highwater, size) IN
       /\ rsv' = [rsv EXCEPT ![w] = [prev |-> data_highwater,
                                     offset |-> o, end |-> o + size]]
       /\ data_highwater' = o + size
  /\ UNCHANGED <<landed, holes>>

(* The write of the reserved bytes succeeded: the space is the block's. *)
Land(w) ==
  /\ Holds(w)
  /\ landed' = landed \union {rsv[w]}
  /\ rsv' = [rsv EXCEPT ![w] = NoReservation]
  /\ UNCHANGED <<data_highwater, holes>>

(* Faulty variant: rewinds although somebody reserved after us. *)
ReleaseAlways(w) ==
  /\ Holds(w)
  /\ data_highwater' = rsv[w].prev
  /\ rsv' = [rsv EXCEPT ![w] = NoReservation]
  /\ UNCHANGED <<landed, holes>>

(* Faulty variant: gives the size back a second time. *)
ReleaseTwice(w) ==
  /\ Holds(w)
  /\ data_highwater = rsv[w].end
  /\ data_highwater' = rsv[w].prev - (rsv[w].end - rsv[w].offset)
  /\ rsv' = [rsv EXCEPT ![w] = NoReservation]
  /\ UNCHANGED <<landed, holes>>

(* Faulty variant: never rewinds. *)
ReleaseNever(w) ==
  /\ Holds(w)
  /\ holes' = holes \union {rsv[w]}
  /\ rsv' = [rsv EXCEPT ![w] = NoReservation]
  /\ UNCHANGED <<data_highwater, landed>>

(* The write failed.  Rewinding is only allowed to the last reserver. *)
ReleaseReservation(w) ==
  /\ Holds(w)
  /\ IF data_highwater = rsv[w].end
     THEN data_highwater' = rsv[w].prev /\ UNCHANGED holes
     ELSE UNCHANGED data_highwater /\ holes' = holes \union {rsv[w]}
  /\ rsv' = [rsv EXCEPT ![w] = NoReservation]
  /\ UNCHANGED landed

(* Faulty variant: saturates one file early. *)
SplitOffsetEarly(o) ==
  IF Cap = 0 THEN [file |-> 0, local |-> o]
  ELSE [file |-> IF o \div Cap < MaxFileIndex THEN o \div Cap ELSE MaxFileIndex - 1,
        local |-> o % Cap]

(* FileSet::split_offset: the file index saturates at the largest there is. *)
SplitOffset(o) ==
  IF Cap = 0 THEN [file |-> 0, local |-> o]
  ELSE [file |-> IF o \div Cap <= MaxFileIndex THEN o \div Cap ELSE MaxFileIndex,
        local |-> o % Cap]

RNext ==
  \E w \in Writers :
    \/ \E size \in Sizes : ReserveSpace(w, size)
    \/ Land(w)
    \/ ReleaseReservation(w)

RSpec == RInit /\ [][RNext]_rvars

-----------------------------------------------------------------------------
(***************************************************************************)
(* Type correctness of the allocator's state.                              *)
(***************************************************************************)
RTypeOK ==
  /\ data_highwater \in Nat
  /\ rsv \in [Writers -> Extent]
  /\ landed \subseteq Extent
  /\ holes \subseteq Extent

Disjoint(e, f) == e.end <= f.offset \/ f.end <= e.offset

(***************************************************************************)
(* No byte is ever handed out twice: what a writer holds overlaps neither  *)
(* what another writer holds, nor a block that landed, nor a hole.  This   *)
(* is what release_reservation's "last reserver" test is for (a rewind by  *)
(* anyone else would overlap a later reserver's block).                    *)
(***************************************************************************)
NoOverlap ==
  \A w \in Writers : Holds(w) =>
    /\ \A v \in Writers \ {w} : Holds(v) => Disjoint(rsv[w], rsv[v])
    /\ \A e \in landed \union holes : Disjoint(rsv[w], e)

(***************************************************************************)
(* The highwater is never below the end of space somebody owns, whatever   *)
(* sequence of reservations and rewinds led here: reserve_space may hand   *)
(* out everything above it.                                                *)
(***************************************************************************)
HighwaterCovers ==
  /\ \A w \in Writers : Holds(w) => rsv[w].end <= data_highwater
  /\ \A e \in landed \union holes : e.end <= data_highwater

(***************************************************************************)
(* No block straddles two data files, whatever rewinds preceded it:        *)
(* read_block resolves a single file for the header and the payload, and   *)
(* the recovery scan never follows a block into the next file.             *)
(***************************************************************************)
WithinOneFile ==
  Cap # 0 => \A e \in landed \union holes \union {rsv[w] : w \in Writers} :
                e.end # 0 => e.offset \div Cap = (e.end - 1) \div Cap

(* The space of blocks that were or are being written. *)
Owned == landed \union {rsv[w] : w \in {v \in Writers : Holds(v)}}

(* Resolved to files, two blocks have their bytes to themselves. *)
ApartInFiles(e, f) ==
  LET p == SplitOffset(e.offset)
      q == SplitOffset(f.offset)
  IN p.file = q.file => \/ p.local + (e.end - e.offset) <= q.local
                        \/ q.local + (f.end - f.offset) <= p.local

(***************************************************************************)
(* Two blocks never share bytes of a file.  split_offset counts on the     *)
(* open of a file past the last one to fail, but the saturated index names *)
(* a file that exists: this is false, and AliasConfined says how far.      *)
(***************************************************************************)
NoAlias == \A e, f \in Owned : e # f => ApartInFiles(e, f)

(***************************************************************************)
(* Two blocks share bytes of a file only if one of them is past the last   *)
(* file that has a number, so that split_offset saturated: reserve_space   *)
(* lets a block go there when it fits into the file, which it asks first.  *)
(***************************************************************************)
AliasConfined ==
  \A e, f \in Owned :
    e # f /\ ~ApartInFiles(e, f) =>
      \E o \in {e.offset, f.offset} : Cap # 0 /\ o \div Cap > MaxFileIndex

=============================================================================
