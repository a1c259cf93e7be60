------------------------- MODULE ReservationProofs -------------------------
(***************************************************************************)
(* Theorems about the allocator, for every set of writers, every cap on    *)
(* the file size and every block size.                                     *)
(*                                                                         *)
(* NoOverlap alone is not inductive: a rewind sets the highwater to prev,  *)
(* so one must know that nothing is owned above prev.  The invariant RInv  *)
(* therefore orders the extents together with the highwater each of them   *)
(* found: of two extents, one ends before the other's prev.                *)
(***************************************************************************)
EXTENDS Reservation, TLAPS

(* An extent begins at or after the highwater it found. *)
WellFormed(e) == e.prev <= e.offset /\ e.offset < e.end

Ordered(e, f) == e.end <= f.prev \/ f.end <= e.prev

Settled == landed \union holes

RInv ==
  /\ RTypeOK
  /\ \A w \in Writers : Holds(w) =>
       /\ WellFormed(rsv[w])
       /\ rsv[w].end <= data_highwater
       /\ \A v \in Writers : v # w /\ Holds(v) => Ordered(rsv[w], rsv[v])
       /\ \A e \in Settled : Ordered(rsv[w], e)
  /\ \A e \in Settled : WellFormed(e) /\ e.end <= data_highwater

(***************************************************************************)
(* The next file begins above every offset of this one.                    *)
(***************************************************************************)
LEMMA NextFileStartAbove ==
  ASSUME NEW c \in Nat, Cap # 0
  PROVE  NextFileStart(c) \in Nat /\ c < NextFileStart(c)
<1> DEFINE q == c \div Cap
<1>1. Cap \in Nat /\ Cap > 0
  BY ReservationAssumption
<1>2. q \in Nat /\ c = Cap * q + (c % Cap) /\ c % Cap \in 0 .. Cap - 1
  BY <1>1
<1>3. (q + 1) * Cap = Cap * q + Cap
  BY <1>1, <1>2
<1>4. Cap * q \in Nat
  BY <1>1, <1>2
<1> QED
  BY <1>1, <1>2, <1>3, <1>4 DEF NextFileStart

(***************************************************************************)
(* reserve_space never hands out an offset below the highwater.            *)
(***************************************************************************)
LEMMA WriteOffsetAbove ==
  ASSUME NEW c \in Nat, NEW size
  PROVE  WriteOffset(c, size) \in Nat /\ c <= WriteOffset(c, size)
<1>1. CASE FitsInFile(c, size)
  BY <1>1 DEF WriteOffset
<1>2. CASE ~FitsInFile(c, size)
  <2>1. Cap # 0
    BY <1>2 DEF FitsInFile
  <2> QED
    BY <1>2, <2>1, NextFileStartAbove DEF WriteOffset
<1> QED
  BY <1>1, <1>2

(***************************************************************************)
(* A session that just opened owns nothing: RInv holds.                    *)
(***************************************************************************)
LEMMA RInitInv == RInit => RInv
BY ReservationAssumption
   DEF RInit, RInv, RTypeOK, Extent, NoReservation, Holds, Settled

(***************************************************************************)
(* reserve_space keeps RInv: the new extent begins at or above the highwater, *)
(* so it lies after everything that is owned.                              *)
(***************************************************************************)
LEMMA ReserveKeepsRInv ==
  ASSUME RInv, NEW w \in Writers, NEW size \in Sizes, ReserveSpace(w, size)
  PROVE  RInv'
<1> DEFINE o == WriteOffset(data_highwater, size)
           new == [prev |-> data_highwater, offset |-> o, end |-> o + size]
<1>1. size \in Nat /\ size > 0
  BY ReservationAssumption
<1>2. data_highwater \in Nat /\ rsv \in [Writers -> Extent]
  BY DEF RInv, RTypeOK
<1>3. o \in Nat /\ data_highwater <= o
  BY <1>2, WriteOffsetAbove
<1>4. new \in Extent /\ WellFormed(new) /\ new.end = o + size
  BY <1>1, <1>2, <1>3 DEF Extent, WellFormed
<1>5. /\ rsv' = [rsv EXCEPT ![w] = new]
      /\ data_highwater' = o + size
      /\ landed' = landed /\ holes' = holes /\ Settled' = Settled
      /\ ~Holds(w)
  BY DEF ReserveSpace, Settled
<1> HIDE DEF o
<1>6. RTypeOK'
  BY <1>1, <1>2, <1>3, <1>4, <1>5 DEF RInv, RTypeOK
<1>7. \A v \in Writers : v # w => rsv'[v] = rsv[v]
  BY <1>2, <1>5
<1>8. rsv'[w] = new
  BY <1>2, <1>5
<1>9. \A v \in Writers : v # w /\ Holds(v) =>
        rsv[v].end \in Nat /\ rsv[v].end <= data_highwater
  BY <1>2 DEF RInv, Extent
<1>10. \A e \in Settled : e.end \in Nat /\ e.end <= data_highwater
  BY DEF RInv, RTypeOK, Extent, Settled
<1>11. \A e \in Settled : WellFormed(e) /\ e.end <= data_highwater'
  BY <1>1, <1>2, <1>3, <1>5, <1>10 DEF RInv
<1>12. ASSUME NEW v \in Writers, Holds(v)'
       PROVE  /\ WellFormed(rsv'[v])
              /\ rsv'[v].end <= data_highwater'
              /\ \A u \in Writers : u # v /\ Holds(u)' => Ordered(rsv'[v], rsv'[u])
              /\ \A e \in Settled' : Ordered(rsv'[v], e)
  <2>1. CASE v = w
    <3>1. WellFormed(rsv'[v]) /\ rsv'[v].end <= data_highwater'
      BY <1>1, <1>3, <1>4, <1>5, <1>8, <2>1
    <3>2. \A u \in Writers : u # v /\ Holds(u)' => Ordered(rsv'[v], rsv'[u])
      BY <1>7, <1>8, <1>9, <2>1 DEF Ordered, Holds
    <3>3. \A e \in Settled' : Ordered(rsv'[v], e)
      BY <1>5, <1>8, <1>10, <2>1 DEF Ordered
    <3> QED BY <3>1, <3>2, <3>3
  <2>2. CASE v # w
    <3>1. Holds(v) /\ rsv'[v] = rsv[v]
      BY <1>7, <1>12, <2>2 DEF Holds
    <3>2. WellFormed(rsv'[v]) /\ rsv'[v].end <= data_highwater'
      BY <1>1, <1>2, <1>3, <1>5, <1>9, <2>2, <3>1 DEF RInv
    <3>3. ASSUME NEW u \in Writers, u # v, Holds(u)'
          PROVE  Ordered(rsv'[v], rsv'[u])
      <4>1. CASE u = w
        BY <1>8, <1>9, <2>2, <3>1, <4>1 DEF Ordered
      <4>2. CASE u # w
        BY <1>7, <3>1, <3>3, <4>2 DEF RInv, Holds
      <4> QED BY <4>1, <4>2
    <3>4. \A e \in Settled' : Ordered(rsv'[v], e)
      BY <1>5, <3>1 DEF RInv
    <3> QED BY <3>2, <3>3, <3>4
  <2> QED BY <2>1, <2>2
<1> QED
  BY <1>5, <1>6, <1>11, <1>12 DEF RInv

(***************************************************************************)
(* A write that lands keeps RInv: an owned extent becomes a settled one.   *)
(***************************************************************************)
LEMMA LandKeepsRInv ==
  ASSUME RInv, NEW w \in Writers, Land(w)
  PROVE  RInv'
<1>1. /\ data_highwater \in Nat /\ rsv \in [Writers -> Extent]
      /\ data_highwater' = data_highwater
      /\ landed' = landed \union {rsv[w]} /\ holes' = holes
      /\ rsv' = [rsv EXCEPT ![w] = NoReservation]
      /\ Holds(w)
  BY DEF RInv, RTypeOK, Land
<1>2. NoReservation \in Extent /\ NoReservation.end = 0
  BY DEF NoReservation, Extent
<1>3. RTypeOK'
  BY <1>1, <1>2 DEF RInv, RTypeOK
<1>4. \A v \in Writers : Holds(v)' => v # w /\ Holds(v) /\ rsv'[v] = rsv[v]
  BY <1>1, <1>2 DEF Holds
<1>5. Settled' = Settled \union {rsv[w]}
  BY <1>1 DEF Settled
<1>6. \A e \in Settled' : WellFormed(e) /\ e.end <= data_highwater'
  BY <1>1, <1>5 DEF RInv
<1>7. \A v \in Writers : Holds(v)' =>
        /\ WellFormed(rsv'[v])
        /\ rsv'[v].end <= data_highwater'
        /\ \A u \in Writers : u # v /\ Holds(u)' => Ordered(rsv'[v], rsv'[u])
        /\ \A e \in Settled' : Ordered(rsv'[v], e)
  BY <1>1, <1>4, <1>5 DEF RInv
<1> QED
  BY <1>3, <1>6, <1>7 DEF RInv

(***************************************************************************)
(* The heart of it: the last reserver owns the top, so everything else     *)
(* ends at or below the highwater it found, and rewinding to that frees    *)
(* nobody else's bytes.                                                    *)
(***************************************************************************)
LEMMA ReleaseKeepsRInv ==
  ASSUME RInv, NEW w \in Writers, ReleaseReservation(w)
  PROVE  RInv'
<1>1. /\ data_highwater \in Nat /\ rsv \in [Writers -> Extent]
      /\ landed \subseteq Extent /\ holes \subseteq Extent
      /\ landed' = landed
      /\ rsv' = [rsv EXCEPT ![w] = NoReservation]
      /\ Holds(w)
  BY DEF RInv, RTypeOK, ReleaseReservation
<1>2. NoReservation \in Extent /\ NoReservation.end = 0
  BY DEF NoReservation, Extent
<1>3. \A v \in Writers : Holds(v)' => v # w /\ Holds(v) /\ rsv'[v] = rsv[v]
  BY <1>1, <1>2 DEF Holds
<1>4. CASE data_highwater = rsv[w].end
  <2>1. data_highwater' = rsv[w].prev /\ holes' = holes /\ Settled' = Settled
    BY <1>1, <1>4 DEF ReleaseReservation, Settled
  <2>2. RTypeOK'
    BY <1>1, <1>2, <2>1 DEF RInv, RTypeOK, Extent
  <2>3. \A v \in Writers : v # w /\ Holds(v) => rsv[v].end <= rsv[w].prev
    <3> SUFFICES ASSUME NEW v \in Writers, v # w, Holds(v)
                 PROVE  rsv[v].end <= rsv[w].prev
      OBVIOUS
    <3>1. rsv[v] \in Extent /\ rsv[w] \in Extent
      BY <1>1
    <3>2. Ordered(rsv[w], rsv[v]) /\ WellFormed(rsv[v]) /\ rsv[v].end <= data_highwater
      BY <1>1 DEF RInv
    <3> QED
      BY <1>1, <1>4, <3>1, <3>2 DEF Ordered, WellFormed, Extent
  <2>4. \A e \in Settled : e.end <= rsv[w].prev
    <3> SUFFICES ASSUME NEW e \in Settled
                 PROVE  e.end <= rsv[w].prev
      OBVIOUS
    <3>1. e \in Extent /\ rsv[w] \in Extent
      BY <1>1 DEF Settled
    <3>2. Ordered(rsv[w], e) /\ WellFormed(e) /\ e.end <= data_highwater
      BY <1>1 DEF RInv
    <3> QED
      BY <1>1, <1>4, <3>1, <3>2 DEF Ordered, WellFormed, Extent
  <2>5. \A e \in Settled' : WellFormed(e) /\ e.end <= data_highwater'
    BY <2>1, <2>4 DEF RInv
  <2>6. \A v \in Writers : Holds(v)' =>
          /\ WellFormed(rsv'[v])
          /\ rsv'[v].end <= data_highwater'
          /\ \A u \in Writers : u # v /\ Holds(u)' => Ordered(rsv'[v], rsv'[u])
          /\ \A e \in Settled' : Ordered(rsv'[v], e)
    BY <1>3, <2>1, <2>3 DEF RInv
  <2> QED
    BY <2>2, <2>5, <2>6 DEF RInv
<1>5. CASE data_highwater # rsv[w].end
  <2>1. /\ data_highwater' = data_highwater
        /\ holes' = holes \union {rsv[w]}
        /\ Settled' = Settled \union {rsv[w]}
    BY <1>1, <1>5 DEF ReleaseReservation, Settled
  <2>2. RTypeOK'
    BY <1>1, <1>2, <2>1 DEF RInv, RTypeOK
  <2>3. \A e \in Settled' : WellFormed(e) /\ e.end <= data_highwater'
    BY <1>1, <2>1 DEF RInv
  <2>4. \A v \in Writers : Holds(v)' =>
          /\ WellFormed(rsv'[v])
          /\ rsv'[v].end <= data_highwater'
          /\ \A u \in Writers : u # v /\ Holds(u)' => Ordered(rsv'[v], rsv'[u])
          /\ \A e \in Settled' : Ordered(rsv'[v], e)
    BY <1>1, <1>3, <2>1 DEF RInv
  <2> QED
    BY <2>2, <2>3, <2>4 DEF RInv
<1> QED
  BY <1>4, <1>5

(***************************************************************************)
(* Every step of the allocator keeps RInv.                                 *)
(***************************************************************************)
LEMMA RNextKeepsRInv == RInv /\ [RNext]_rvars => RInv'
<1> SUFFICES ASSUME RInv, [RNext]_rvars
             PROVE  RInv'
  OBVIOUS
<1>1. ASSUME NEW w \in Writers, NEW size \in Sizes, ReserveSpace(w, size)
      PROVE  RInv'
  BY <1>1, ReserveKeepsRInv
<1>2. ASSUME NEW w \in Writers, Land(w)
      PROVE  RInv'
  BY <1>2, LandKeepsRInv
<1>3. ASSUME NEW w \in Writers, ReleaseReservation(w)
      PROVE  RInv'
  BY <1>3, ReleaseKeepsRInv
<1>4. CASE UNCHANGED rvars
  BY <1>4 DEF rvars, RInv, RTypeOK, Holds, Settled
<1> QED
  BY <1>1, <1>2, <1>3, <1>4 DEF RNext

(***************************************************************************)
(* RInv holds in every reachable state of reserve_space, landings and      *)
(* release_reservation: the invariant the theorems below follow from.      *)
(***************************************************************************)
THEOREM RInvAlways == RSpec => []RInv
BY RInitInv, RNextKeepsRInv, PTL DEF RSpec

(***************************************************************************)
(* reserve_space and release_reservation keep the allocator's state well   *)
(* typed; in particular no rewind takes the highwater below zero.          *)
(***************************************************************************)
THEOREM ReservationTyped == RSpec => []RTypeOK
<1>1. RInv => RTypeOK
  BY DEF RInv
<1> QED
  BY RInvAlways, <1>1, PTL

(* What is ordered is disjoint. *)
LEMMA RInvSafe == RInv => NoOverlap /\ HighwaterCovers
<1>1. RInv => NoOverlap
  <2> SUFFICES ASSUME RInv, NEW w \in Writers, Holds(w)
               PROVE  /\ \A v \in Writers \ {w} : Holds(v) => Disjoint(rsv[w], rsv[v])
                      /\ \A e \in landed \union holes : Disjoint(rsv[w], e)
    BY DEF NoOverlap
  <2>1. rsv[w] \in Extent /\ WellFormed(rsv[w])
    BY DEF RInv, RTypeOK
  <2>2. ASSUME NEW v \in Writers \ {w}, Holds(v)
        PROVE  Disjoint(rsv[w], rsv[v])
    <3>1. rsv[v] \in Extent /\ WellFormed(rsv[v]) /\ Ordered(rsv[w], rsv[v])
      BY <2>2 DEF RInv, RTypeOK
    <3> QED
      BY <2>1, <3>1 DEF Disjoint, Ordered, WellFormed, Extent
  <2>3. ASSUME NEW e \in landed \union holes
        PROVE  Disjoint(rsv[w], e)
    <3>1. e \in Extent /\ WellFormed(e) /\ Ordered(rsv[w], e)
      BY <2>3 DEF RInv, RTypeOK, Settled
    <3> QED
      BY <2>1, <3>1 DEF Disjoint, Ordered, WellFormed, Extent
  <2> QED
    BY <2>2, <2>3
<1>2. RInv => HighwaterCovers
  BY DEF RInv, HighwaterCovers, Settled
<1> QED
  BY <1>1, <1>2

(***************************************************************************)
(* No byte is handed out twice, whatever the writers, the sizes and the    *)
(* cap, and however reservations, landings and failed writes interleave.   *)
(***************************************************************************)
THEOREM ReservationNoOverlap == RSpec => []NoOverlap
BY RInvAlways, RInvSafe, PTL

(***************************************************************************)
(* The highwater stays above everything that is owned: what reserve_space  *)
(* hands out next is free.                                                 *)
(***************************************************************************)
THEOREM ReservationHighwaterCovers == RSpec => []HighwaterCovers
BY RInvAlways, RInvSafe, PTL

-----------------------------------------------------------------------------
(***************************************************************************)
(* Offsets Cap * q .. Cap * q + Cap - 1 are those of file q.               *)
(***************************************************************************)
LEMMA FileOfOffset ==
  ASSUME NEW q \in Nat, NEW r \in Nat, Cap # 0, r < Cap
  PROVE  (Cap * q + r) \div Cap = q
<1> DEFINE x == Cap * q + r
           p == x \div Cap
<1>1. Cap \in Nat /\ Cap > 0
  BY ReservationAssumption
<1>2. Cap * q \in Nat /\ x \in Nat
  BY <1>1
<1>3. p \in Nat /\ x = Cap * p + (x % Cap) /\ x % Cap \in 0 .. Cap - 1
  BY <1>1, <1>2
<1>4. ~(p > q)
  <2> SUFFICES ASSUME p > q PROVE FALSE
    OBVIOUS
  <2> HIDE DEF p
  <2>1. PICK d \in Nat : p = q + 1 + d
    <3>1. p - q - 1 \in Nat /\ p = q + 1 + (p - q - 1)
      BY <1>3
    <3> QED BY <3>1
  <2>2. Cap * p = Cap * q + Cap + Cap * d
    BY <1>1, <1>3, <2>1
  <2>3. Cap * d \in Nat
    BY <1>1, <2>1
  <2> QED
    BY <1>1, <1>2, <1>3, <2>2, <2>3
<1>5. ~(p < q)
  <2> SUFFICES ASSUME p < q PROVE FALSE
    OBVIOUS
  <2> HIDE DEF p
  <2>1. PICK d \in Nat : q = p + 1 + d
    <3>1. q - p - 1 \in Nat /\ q = p + 1 + (q - p - 1)
      BY <1>3
    <3> QED BY <3>1
  <2>2. Cap * q = Cap * p + Cap + Cap * d
    BY <1>1, <1>3, <2>1
  <2>3. Cap * d \in Nat /\ Cap * p \in Nat
    BY <1>1, <1>3, <2>1
  <2> QED
    BY <1>1, <1>2, <1>3, <2>2, <2>3
<1> QED
  BY <1>3, <1>4, <1>5

(***************************************************************************)
(* Where reserve_space puts a block that is not larger than a file, the    *)
(* block's first and last byte are in the same file.                       *)
(***************************************************************************)
LEMMA ReservedInOneFile ==
  ASSUME NEW c \in Nat, NEW size \in Nat \ {0}, Cap # 0, size <= Cap
  PROVE  LET o == WriteOffset(c, size)
         IN  o \div Cap = (o + size - 1) \div Cap
<1>1. Cap \in Nat /\ Cap > 0
  BY ReservationAssumption
<1> DEFINE q == c \div Cap
           r == c % Cap
<1>2. q \in Nat /\ r \in Nat /\ r < Cap /\ c = Cap * q + r /\ Cap * q \in Nat
  BY <1>1
<1> HIDE DEF q, r
<1>3. CASE FitsInFile(c, size)
  <2>1. WriteOffset(c, size) = c /\ r + size <= Cap
    BY <1>3 DEF WriteOffset, FitsInFile, r
  <2>2. r + size - 1 \in Nat /\ r + size - 1 < Cap
    BY <1>1, <1>2, <2>1
  <2>3. c \div Cap = q /\ (Cap * q + (r + size - 1)) \div Cap = q
    BY <1>2, <2>2, FileOfOffset DEF q
  <2>4. c + size - 1 = Cap * q + (r + size - 1)
    BY <1>1, <1>2
  <2> QED
    BY <2>1, <2>3, <2>4
<1>4. CASE ~FitsInFile(c, size)
  <2>1. WriteOffset(c, size) = (q + 1) * Cap
    BY <1>4 DEF WriteOffset, NextFileStart, q
  <2>2. (q + 1) * Cap = Cap * (q + 1) + 0 /\ q + 1 \in Nat
    BY <1>1, <1>2
  <2>3. (q + 1) * Cap + size - 1 = Cap * (q + 1) + (size - 1)
    BY <1>1, <1>2
  <2>4. size - 1 \in Nat /\ size - 1 < Cap
    BY <1>1
  <2>5. (Cap * (q + 1) + 0) \div Cap = q + 1
    BY <1>1, <2>2, FileOfOffset
  <2>6. (Cap * (q + 1) + (size - 1)) \div Cap = q + 1
    BY <1>1, <2>2, <2>4, FileOfOffset
  <2> QED
    BY <2>1, <2>2, <2>3, <2>5, <2>6
<1> QED
  BY <1>3, <1>4

(***************************************************************************)
(* No block ever straddles two data files.                                 *)
(***************************************************************************)
THEOREM ReservationWithinOneFile == RSpec => []WithinOneFile
<1> DEFINE InOneFile(e) == e.end # 0 => e.offset \div Cap = (e.end - 1) \div Cap
           All == landed \union holes \union {rsv[w] : w \in Writers}
<1>1. RInit => WithinOneFile
  BY DEF RInit, WithinOneFile, NoReservation
<1>2. RInv /\ WithinOneFile /\ [RNext]_rvars => WithinOneFile'
  <2> SUFFICES ASSUME RInv, WithinOneFile, [RNext]_rvars, Cap # 0, NEW e \in All'
               PROVE  InOneFile(e)
    BY DEF WithinOneFile
  <2>1. \A f \in All : InOneFile(f)
    BY DEF WithinOneFile
  <2>2. rsv \in [Writers -> Extent] /\ data_highwater \in Nat
    BY DEF RInv, RTypeOK
  <2>3. InOneFile(NoReservation)
    BY DEF NoReservation
  <2>4. ASSUME NEW w \in Writers, NEW size \in Sizes, ReserveSpace(w, size)
        PROVE  InOneFile(e)
    <3> DEFINE o == WriteOffset(data_highwater, size)
               new == [prev |-> data_highwater, offset |-> o, end |-> o + size]
    <3>1. size \in Nat \ {0} /\ size <= Cap
      BY <2>4, ReservationAssumption DEF ReserveSpace, CanReserve
    <3>2. o \div Cap = (o + size - 1) \div Cap
      BY <2>2, <3>1, ReservedInOneFile
    <3>3. rsv' = [rsv EXCEPT ![w] = new] /\ landed' = landed /\ holes' = holes
      BY <2>4 DEF ReserveSpace
    <3>4. e \in All \/ e = new
      BY <2>2, <3>3
    <3>5. o \in Nat
      BY <2>2, WriteOffsetAbove
    <3> HIDE DEF o
    <3>6. InOneFile(new)
      BY <3>1, <3>2, <3>5
    <3> HIDE DEF InOneFile
    <3> QED
      BY <2>1, <3>4, <3>6
  <2>5. ASSUME NEW w \in Writers, Land(w) \/ ReleaseReservation(w)
        PROVE  InOneFile(e)
    <3>1. e \in All \/ e = NoReservation
      BY <2>2, <2>5 DEF Land, ReleaseReservation
    <3> QED
      BY <2>1, <2>3, <3>1
  <2>6. CASE UNCHANGED rvars
    BY <2>1, <2>6 DEF rvars
  <2> QED
    BY <2>4, <2>5, <2>6 DEF RNext
<1> QED
  BY RInvAlways, <1>1, <1>2, PTL DEF RSpec

-----------------------------------------------------------------------------
(* Blocks and holes of the past are ordered among themselves, too. *)
Apart == \A e, f \in Settled : e # f => Ordered(e, f)

(***************************************************************************)
(* Apart is kept by every step: an extent that settles was ordered with    *)
(* the settled ones while it was held.                                     *)
(***************************************************************************)
LEMMA RNextKeepsApart == RInv /\ Apart /\ [RNext]_rvars => Apart'
<1> SUFFICES ASSUME RInv, Apart, [RNext]_rvars
             PROVE  Apart'
  OBVIOUS
<1>1. ASSUME NEW w \in Writers, NEW size \in Sizes, ReserveSpace(w, size)
      PROVE  Apart'
  BY <1>1 DEF ReserveSpace, Settled, Apart, Ordered
<1>2. ASSUME NEW w \in Writers, Land(w) \/ ReleaseReservation(w)
      PROVE  Apart'
  <2>1. /\ Holds(w)
        /\ Settled' = Settled \/ Settled' = Settled \union {rsv[w]}
    BY <1>2 DEF Land, ReleaseReservation, Settled
  <2>2. \A e \in Settled : Ordered(rsv[w], e) /\ Ordered(e, rsv[w])
    BY <2>1 DEF RInv, Ordered
  <2> QED
    BY <2>1, <2>2 DEF Apart, Ordered
<1>3. CASE UNCHANGED rvars
  BY <1>3 DEF rvars, Apart, Settled
<1> QED
  BY <1>1, <1>2, <1>3 DEF RNext

(***************************************************************************)
(* An offset that a file index can express is in the file it is divided    *)
(* into, at the place the division leaves.                                 *)
(***************************************************************************)
LEMMA SplitExact ==
  ASSUME Cap # 0, NEW o \in Nat, ~(o \div Cap > MaxFileIndex)
  PROVE  /\ SplitOffset(o).file \in Nat /\ SplitOffset(o).local \in Nat
         /\ o = Cap * SplitOffset(o).file + SplitOffset(o).local
<1> DEFINE q == o \div Cap
<1>1. Cap \in Nat /\ Cap > 0 /\ MaxFileIndex \in Nat
  BY ReservationAssumption
<1>2. q \in Nat /\ o % Cap \in Nat /\ o = Cap * q + (o % Cap)
  BY <1>1
<1>3. SplitOffset(o) = [file |-> IF q <= MaxFileIndex THEN q ELSE MaxFileIndex,
                        local |-> o % Cap]
  BY DEF SplitOffset
<1>4. ~(q > MaxFileIndex)
  OBVIOUS
<1> HIDE DEF q
<1>5. q <= MaxFileIndex
  BY <1>1, <1>2, <1>4
<1> QED
  BY <1>2, <1>3, <1>5

(***************************************************************************)
(* Resolved to files, two blocks share bytes only past the last file that  *)
(* has a number, for any writers, sizes, cap and limits: apart from the    *)
(* saturation of split_offset nothing makes two offsets one place.         *)
(***************************************************************************)
THEOREM ReservationAliasConfined == RSpec => []AliasConfined
<1>1. RInit => Apart
  BY DEF RInit, Apart, Settled
<1>2. RInv /\ Apart => AliasConfined
  <2> SUFFICES ASSUME RInv, Apart, NEW e \in Owned, NEW f \in Owned, e # f,
                      Cap # 0 => /\ ~(e.offset \div Cap > MaxFileIndex)
                                 /\ ~(f.offset \div Cap > MaxFileIndex)
               PROVE  ApartInFiles(e, f)
    BY DEF AliasConfined
  <2>1. e \in Extent /\ WellFormed(e) /\ f \in Extent /\ WellFormed(f)
    BY DEF RInv, RTypeOK, Owned, Settled
  <2>2. Ordered(e, f)
    BY DEF RInv, Owned, Apart, Settled, Ordered
  <2>3. /\ e.offset \in Nat /\ e.end \in Nat /\ e.offset < e.end
        /\ f.offset \in Nat /\ f.end \in Nat /\ f.offset < f.end
        /\ e.end <= f.offset \/ f.end <= e.offset
    BY <2>1, <2>2 DEF Extent, WellFormed, Ordered
  <2>4. CASE Cap = 0
    BY <2>3, <2>4 DEF SplitOffset, ApartInFiles
  <2>5. CASE Cap # 0
    <3> DEFINE p == SplitOffset(e.offset)
               q == SplitOffset(f.offset)
    <3>1. /\ p.file \in Nat /\ p.local \in Nat
          /\ e.offset = Cap * p.file + p.local
      BY <2>3, <2>5, SplitExact
    <3>2. /\ q.file \in Nat /\ q.local \in Nat
          /\ f.offset = Cap * q.file + q.local
      BY <2>3, <2>5, SplitExact
    <3>3. Cap * p.file \in Nat
      BY <3>1, ReservationAssumption
    <3> HIDE DEF p, q
    <3>4. ASSUME p.file = q.file
          PROVE  \/ p.local + (e.end - e.offset) <= q.local
                 \/ q.local + (f.end - f.offset) <= p.local
      BY <2>3, <3>1, <3>2, <3>3, <3>4
    <3> QED
      BY <3>4 DEF ApartInFiles, p, q
  <2> QED
    BY <2>4, <2>5
<1> QED
  BY RInvAlways, RNextKeepsApart, <1>1, <1>2, PTL DEF RSpec

=============================================================================
