-------------------------- MODULE ContiguityProofs --------------------------
(***************************************************************************)
(* Theorems about the contiguity floor, for every number of writers and    *)
(* every range of heights that begins above 0.  (With min_height = 0 the   *)
(* empty floor, min_height - 1 saturated, is itself a height, and the      *)
(* first theorem is false: see the README, section 4.)                     *)
(*                                                                         *)
(* FloorExact speaks of quiet states only and is not inductive.  What      *)
(* holds in every state is that the duty to move the floor never gets      *)
(* lost: whenever the entry above the floor exists, some writer is about   *)
(* to find it, either because it wrote it and has not tried its            *)
(* compare_exchange yet, or because its cascade stands at the floor.       *)
(***************************************************************************)
EXTENDS Contiguity, TLAPS

(* Writer w is going to raise the floor above its present value. *)
OnDuty(w) ==
  \/ at[w] = "cas" /\ height[w] = max_contiguous_height + 1
  \/ at[w] \in {"read", "cascade"} /\ prev[w] = max_contiguous_height

DutyKept ==
  Present(max_contiguous_height + 1) => \E w \in Writers : OnDuty(w)

(* What a writer knows at each place. *)
LocalsSound ==
  \A w \in Writers :
    /\ at[w] # "idle" => height[w] \in Heights /\ Present(height[w])
    /\ at[w] = "cascade" => Present(prev[w] + 1)

(* A height above the highwater belongs to a writer that will raise it. *)
HighwaterPending ==
  \A h \in Heights : Present(h) =>
    h <= height_highwater \/ \E w \in Writers : at[w] # "idle" /\ height[w] = h

CInv ==
  /\ CTypeOK
  /\ FloorSound
  /\ LocalsSound
  /\ DutyKept
  /\ HighwaterPending

(***************************************************************************)
(* Heights and the floor below them when min_height is not 0.              *)
(***************************************************************************)
LEMMA HeightFacts ==
  ASSUME MinHeight # 0
  PROVE  /\ FloorIfEmpty \in Nat /\ FloorIfEmpty + 1 = MinHeight
         /\ \A h \in Heights : h \in Nat /\ h > FloorIfEmpty /\ Pred(h) = h - 1
         /\ ZeroEntry \notin Entry
  BY ContiguityAssumption, ZeroEntryAssumption DEF FloorIfEmpty, Pred, Heights

(* Only heights of the store have entries. *)
LEMMA PresentInHeights == \A h : Present(h) => h \in Heights
  BY DEF Present, ReadEntry

(***************************************************************************)
(* CInv holds in a store that was just opened.                             *)
(***************************************************************************)
LEMMA CInitInv == MinHeight # 0 /\ CInit => CInv
<1> SUFFICES ASSUME MinHeight # 0, CInit
             PROVE  CInv
  OBVIOUS
<1>1. CTypeOK
  BY HeightFacts, ContiguityAssumption
     DEF CInit, CTypeOK, Heights, Places
<1>2. FloorSound /\ LocalsSound /\ DutyKept /\ HighwaterPending
  BY DEF CInit, FloorSound, LocalsSound, DutyKept, HighwaterPending
<1> QED
  BY <1>1, <1>2 DEF CInv

(***************************************************************************)
(* update_index_at keeps CInv: if the new entry is the one above the floor, *)
(* its own writer is on duty.                                              *)
(***************************************************************************)
LEMMA PublishKeepsCInv ==
  ASSUME MinHeight # 0, CInv,
         NEW w \in Writers, NEW k \in Heights, NEW e \in Entry,
         PublishEntry(w, k, e)
  PROVE  CInv'
<1> USE HeightFacts
<1>1. /\ index' = [index EXCEPT ![k] = e]
      /\ height' = [height EXCEPT ![w] = k]
      /\ at' = [at EXCEPT ![w] = "cas"]
      /\ max_contiguous_height' = max_contiguous_height
      /\ height_highwater' = height_highwater
      /\ prev' = prev
      /\ at[w] = "idle"
  BY DEF PublishEntry
<1>2. /\ index \in [Heights -> Entry \union {ZeroEntry}]
      /\ at \in [Writers -> Places] /\ height \in [Writers -> Nat]
      /\ prev \in [Writers -> Nat]
  BY DEF CInv, CTypeOK
<1>3. CTypeOK'
  BY <1>1, <1>2 DEF CInv, CTypeOK, Places
<1>4. \A h : Present(h)' <=> (Present(h) \/ h = k)
  BY <1>1, <1>2 DEF Present, ReadEntry
<1>5. \A v \in Writers : v # w => at'[v] = at[v] /\ height'[v] = height[v]
  BY <1>1, <1>2
<1>6. at'[w] = "cas" /\ height'[w] = k
  BY <1>1, <1>2
<1>7. FloorSound'
  BY <1>1, <1>4 DEF CInv, FloorSound, ContiguousTo
<1>8. LocalsSound'
  BY <1>1, <1>4, <1>5, <1>6 DEF CInv, LocalsSound
<1>9. DutyKept'
  <2> SUFFICES ASSUME Present(max_contiguous_height + 1)'
               PROVE  \E v \in Writers : OnDuty(v)'
    BY DEF DutyKept
  <2>1. CASE max_contiguous_height + 1 = k
    BY <1>1, <1>6, <2>1 DEF OnDuty
  <2>2. CASE max_contiguous_height + 1 # k
    <3>1. Present(max_contiguous_height + 1)
      BY <1>1, <1>4, <2>2
    <3>2. PICK v \in Writers : OnDuty(v)
      BY <3>1 DEF CInv, DutyKept
    <3>3. v # w
      BY <1>1, <3>2 DEF OnDuty
    <3> QED
      BY <1>1, <1>5, <3>2, <3>3 DEF OnDuty
  <2> QED
    BY <2>1, <2>2
<1>10. HighwaterPending'
  BY <1>1, <1>4, <1>5, <1>6 DEF CInv, HighwaterPending
<1> QED
  BY <1>3, <1>7, <1>8, <1>9, <1>10 DEF CInv

(***************************************************************************)
(* The first compare_exchange keeps CInv: it moves the floor over the entry *)
(* of its own writer, or it was not on duty.                               *)
(***************************************************************************)
LEMMA CompareExchangeKeepsCInv ==
  ASSUME MinHeight # 0, CInv, NEW w \in Writers, CompareExchange(w)
  PROVE  CInv'
<1> USE HeightFacts
<1>1. /\ index' = index /\ height' = height
      /\ height_highwater' = height_highwater
      /\ at[w] = "cas"
  BY DEF CompareExchange
<1>2. /\ at \in [Writers -> Places] /\ height \in [Writers -> Nat]
      /\ prev \in [Writers -> Nat]
      /\ max_contiguous_height \in Heights \union {FloorIfEmpty}
  BY DEF CInv, CTypeOK
<1>3. height[w] \in Heights /\ Present(height[w]) /\ Pred(height[w]) = height[w] - 1
  BY <1>1 DEF CInv, LocalsSound
<1>4. \A h : Present(h)' <=> Present(h)
  BY <1>1 DEF Present, ReadEntry
<1>5. CASE max_contiguous_height = Pred(height[w])
  <2>1. /\ max_contiguous_height' = height[w]
        /\ prev' = [prev EXCEPT ![w] = height[w]]
        /\ at' = [at EXCEPT ![w] = "read"]
    BY <1>3, <1>5 DEF CompareExchange
  <2>2. /\ at'[w] = "read" /\ prev'[w] = height[w]
        /\ \A v \in Writers : v # w => at'[v] = at[v] /\ prev'[v] = prev[v]
    BY <1>2, <2>1
  <2>3. CTypeOK'
    BY <1>1, <1>2, <1>3, <2>1 DEF CInv, CTypeOK, Places
  <2>4. \A h \in MinHeight .. height[w] :
          h = height[w] \/ h \in MinHeight .. max_contiguous_height
    BY <1>2, <1>3, <1>5, ContiguityAssumption DEF Heights
  <2>5. \A h \in MinHeight .. max_contiguous_height : Present(h)
    <3>1. CASE max_contiguous_height = FloorIfEmpty
      BY <3>1, ContiguityAssumption
    <3>2. CASE max_contiguous_height # FloorIfEmpty
      <4>1. max_contiguous_height > FloorIfEmpty
        BY <1>2, <3>2
      <4> QED
        BY <4>1 DEF CInv, FloorSound, ContiguousTo
    <3> QED BY <3>1, <3>2
  <2>6. FloorSound'
    BY <1>3, <1>4, <2>1, <2>4, <2>5 DEF FloorSound, ContiguousTo
  <2>7. LocalsSound'
    BY <1>1, <1>4, <2>2 DEF CInv, LocalsSound
  <2>8. DutyKept'
    BY <2>1, <2>2 DEF DutyKept, OnDuty
  <2>9. HighwaterPending'
    BY <1>1, <1>4, <2>2 DEF CInv, HighwaterPending
  <2> QED
    BY <2>3, <2>6, <2>7, <2>8, <2>9 DEF CInv
<1>6. CASE max_contiguous_height # Pred(height[w])
  <2>1. /\ max_contiguous_height' = max_contiguous_height
        /\ prev' = prev
        /\ at' = [at EXCEPT ![w] = "highwater"]
    BY <1>6 DEF CompareExchange
  <2>2. /\ at'[w] = "highwater"
        /\ \A v \in Writers : v # w => at'[v] = at[v]
    BY <1>2, <2>1
  <2>3. CTypeOK'
    BY <1>1, <1>2, <2>1 DEF CInv, CTypeOK, Places
  <2>4. FloorSound'
    BY <1>4, <2>1 DEF CInv, FloorSound, ContiguousTo
  <2>5. LocalsSound'
    BY <1>1, <1>4, <2>1, <2>2 DEF CInv, LocalsSound
  <2>6. ~OnDuty(w)
    BY <1>1, <1>2, <1>3, <1>6 DEF OnDuty
  <2>7. DutyKept'
    BY <1>1, <1>4, <2>1, <2>2, <2>6 DEF CInv, DutyKept, OnDuty
  <2>8. HighwaterPending'
    BY <1>1, <1>4, <2>2 DEF CInv, HighwaterPending
  <2> QED
    BY <2>3, <2>4, <2>5, <2>7, <2>8 DEF CInv
<1> QED
  BY <1>5, <1>6

(***************************************************************************)
(* The read of the cascade loop keeps CInv: who stops at a gap leaves no   *)
(* entry above the floor behind.                                           *)
(***************************************************************************)
LEMMA CascadeReadKeepsCInv ==
  ASSUME MinHeight # 0, CInv, NEW w \in Writers, CascadeRead(w)
  PROVE  CInv'
<1> DEFINE to == IF Present(prev[w] + 1) THEN "cascade" ELSE "highwater"
<1>1. /\ index' = index /\ height' = height /\ prev' = prev
      /\ max_contiguous_height' = max_contiguous_height
      /\ height_highwater' = height_highwater
      /\ at[w] = "read"
      /\ at' = [at EXCEPT ![w] = to]
  BY DEF CascadeRead
<1>2. at \in [Writers -> Places]
  BY DEF CInv, CTypeOK
<1>3. \A h : Present(h)' <=> Present(h)
  BY <1>1 DEF Present, ReadEntry
<1>4. /\ at'[w] = to
      /\ \A v \in Writers : v # w => at'[v] = at[v]
  BY <1>1, <1>2
<1>5. CTypeOK'
  BY <1>1, <1>2 DEF CInv, CTypeOK, Places
<1>6. FloorSound'
  BY <1>1, <1>3 DEF CInv, FloorSound, ContiguousTo
<1>7. LocalsSound'
  BY <1>1, <1>3, <1>4 DEF CInv, LocalsSound
<1>8. DutyKept'
  <2> SUFFICES ASSUME Present(max_contiguous_height + 1)'
               PROVE  \E v \in Writers : OnDuty(v)'
    BY DEF DutyKept
  <2>1. PICK v \in Writers : OnDuty(v)
    BY <1>1, <1>3 DEF CInv, DutyKept
  <2>2. CASE v = w
    <3>1. prev[w] = max_contiguous_height /\ to = "cascade"
      BY <1>1, <1>3, <2>1, <2>2 DEF OnDuty
    <3> QED
      BY <1>1, <1>4, <3>1 DEF OnDuty
  <2>3. CASE v # w
    BY <1>1, <1>4, <2>1, <2>3 DEF OnDuty
  <2> QED
    BY <2>2, <2>3
<1>9. HighwaterPending'
  BY <1>1, <1>3, <1>4 DEF CInv, HighwaterPending
<1> QED
  BY <1>5, <1>6, <1>7, <1>8, <1>9 DEF CInv

(***************************************************************************)
(* The compare_exchange of the cascade loop keeps CInv: who loses it was   *)
(* not on duty, because the floor has moved away from its prev.            *)
(***************************************************************************)
LEMMA CascadeExchangeKeepsCInv ==
  ASSUME MinHeight # 0, CInv, NEW w \in Writers, CascadeExchange(w)
  PROVE  CInv'
<1> USE HeightFacts
<1>1. /\ index' = index /\ height' = height
      /\ height_highwater' = height_highwater
      /\ at[w] = "cascade"
  BY DEF CascadeExchange
<1>2. /\ at \in [Writers -> Places] /\ height \in [Writers -> Nat]
      /\ prev \in [Writers -> Nat]
      /\ max_contiguous_height \in Heights \union {FloorIfEmpty}
  BY DEF CInv, CTypeOK
<1>3. prev[w] + 1 \in Heights /\ Present(prev[w] + 1)
  BY <1>1, PresentInHeights DEF CInv, LocalsSound
<1>4. \A h : Present(h)' <=> Present(h)
  BY <1>1 DEF Present, ReadEntry
<1>5. CASE max_contiguous_height = prev[w]
  <2>1. /\ max_contiguous_height' = prev[w] + 1
        /\ prev' = [prev EXCEPT ![w] = prev[w] + 1]
        /\ at' = [at EXCEPT ![w] = "read"]
    BY <1>5 DEF CascadeExchange
  <2>2. /\ at'[w] = "read" /\ prev'[w] = prev[w] + 1
        /\ \A v \in Writers : v # w => at'[v] = at[v] /\ prev'[v] = prev[v]
    BY <1>2, <2>1
  <2>3. CTypeOK'
    BY <1>1, <1>2, <1>3, <2>1 DEF CInv, CTypeOK, Places
  <2>4. \A h \in MinHeight .. prev[w] + 1 :
          h = prev[w] + 1 \/ h \in MinHeight .. max_contiguous_height
    BY <1>2, <1>5, ContiguityAssumption
  <2>5. \A h \in MinHeight .. max_contiguous_height : Present(h)
    <3>1. CASE max_contiguous_height = FloorIfEmpty
      BY <3>1, ContiguityAssumption
    <3>2. CASE max_contiguous_height # FloorIfEmpty
      <4>1. max_contiguous_height > FloorIfEmpty
        BY <1>2, <3>2
      <4> QED
        BY <4>1 DEF CInv, FloorSound, ContiguousTo
    <3> QED BY <3>1, <3>2
  <2>6. FloorSound'
    BY <1>3, <1>4, <2>1, <2>4, <2>5 DEF FloorSound, ContiguousTo
  <2>7. LocalsSound'
    BY <1>1, <1>4, <2>2 DEF CInv, LocalsSound
  <2>8. DutyKept'
    BY <2>1, <2>2 DEF DutyKept, OnDuty
  <2>9. HighwaterPending'
    BY <1>1, <1>4, <2>2 DEF CInv, HighwaterPending
  <2> QED
    BY <2>3, <2>6, <2>7, <2>8, <2>9 DEF CInv
<1>6. CASE max_contiguous_height # prev[w]
  <2>1. /\ max_contiguous_height' = max_contiguous_height
        /\ prev' = prev
        /\ at' = [at EXCEPT ![w] = "highwater"]
    BY <1>6 DEF CascadeExchange
  <2>2. /\ at'[w] = "highwater"
        /\ \A v \in Writers : v # w => at'[v] = at[v]
    BY <1>2, <2>1
  <2>3. CTypeOK'
    BY <1>1, <1>2, <2>1 DEF CInv, CTypeOK, Places
  <2>4. FloorSound'
    BY <1>4, <2>1 DEF CInv, FloorSound, ContiguousTo
  <2>5. LocalsSound'
    BY <1>1, <1>4, <2>1, <2>2 DEF CInv, LocalsSound
  <2>6. ~OnDuty(w)
    BY <1>1, <1>6 DEF OnDuty
  <2>7. DutyKept'
    BY <1>1, <1>4, <2>1, <2>2, <2>6 DEF CInv, DutyKept, OnDuty
  <2>8. HighwaterPending'
    BY <1>1, <1>4, <2>2 DEF CInv, HighwaterPending
  <2> QED
    BY <2>3, <2>4, <2>5, <2>7, <2>8 DEF CInv
<1> QED
  BY <1>5, <1>6

(***************************************************************************)
(* update_highwater keeps CInv: it takes the maximum with the own height.  *)
(***************************************************************************)
LEMMA UpdateHighwaterKeepsCInv ==
  ASSUME MinHeight # 0, CInv, NEW w \in Writers, UpdateHighwater(w)
  PROVE  CInv'
<1> USE HeightFacts
<1>1. /\ index' = index
      /\ max_contiguous_height' = max_contiguous_height
      /\ height_highwater' = IF height_highwater < height[w] THEN height[w]
                                                             ELSE height_highwater
      /\ at[w] = "highwater"
      /\ at' = [at EXCEPT ![w] = "idle"]
      /\ height' = [height EXCEPT ![w] = MinHeight]
      /\ prev' = [prev EXCEPT ![w] = 0]
  BY DEF UpdateHighwater, Leave
<1>2. /\ at \in [Writers -> Places] /\ height \in [Writers -> Nat]
      /\ prev \in [Writers -> Nat]
      /\ height_highwater \in Heights \union {0, FloorIfEmpty}
  BY DEF CInv, CTypeOK
<1>3. height[w] \in Heights
  BY <1>1 DEF CInv, LocalsSound
<1>4. \A h : Present(h)' <=> Present(h)
  BY <1>1 DEF Present, ReadEntry
<1>5. /\ at'[w] = "idle"
      /\ \A v \in Writers : v # w => /\ at'[v] = at[v] /\ height'[v] = height[v]
                                     /\ prev'[v] = prev[v]
  BY <1>1, <1>2
<1>6. height_highwater <= height_highwater' /\ height[w] <= height_highwater'
  BY <1>1, <1>2, <1>3
<1>7. CTypeOK'
  BY <1>1, <1>2, <1>3, ContiguityAssumption DEF CInv, CTypeOK, Places
<1>8. FloorSound'
  BY <1>1, <1>4 DEF CInv, FloorSound, ContiguousTo
<1>9. LocalsSound'
  BY <1>4, <1>5 DEF CInv, LocalsSound
<1>10. ~OnDuty(w)
  BY <1>1 DEF OnDuty
<1>11. DutyKept'
  BY <1>1, <1>4, <1>5, <1>10 DEF CInv, DutyKept, OnDuty
<1>12. HighwaterPending'
  <2> SUFFICES ASSUME NEW h \in Heights, Present(h)
               PROVE  \/ h <= height_highwater'
                      \/ \E v \in Writers : at'[v] # "idle" /\ height'[v] = h
    BY <1>4 DEF HighwaterPending
  <2>1. CASE h <= height_highwater
    BY <1>1, <1>2, <1>3, <1>6, <2>1
  <2>2. CASE \E v \in Writers : at[v] # "idle" /\ height[v] = h
    BY <1>5, <1>6, <2>2
  <2> QED
    BY <2>1, <2>2 DEF CInv, HighwaterPending
<1> QED
  BY <1>7, <1>8, <1>9, <1>11, <1>12 DEF CInv

(***************************************************************************)
(* Every step of every writer keeps CInv.                                  *)
(***************************************************************************)
LEMMA CNextKeepsCInv == MinHeight # 0 /\ CInv /\ [CNext]_cvars => CInv'
<1> SUFFICES ASSUME MinHeight # 0, CInv, [CNext]_cvars
             PROVE  CInv'
  OBVIOUS
<1>1. ASSUME NEW w \in Writers, NEW h \in Heights, NEW e \in Entry,
             PublishEntry(w, h, e)
      PROVE  CInv'
  BY <1>1, PublishKeepsCInv
<1>2. ASSUME NEW w \in Writers, Advance(w)
      PROVE  CInv'
  BY <1>2, CompareExchangeKeepsCInv, CascadeReadKeepsCInv,
     CascadeExchangeKeepsCInv, UpdateHighwaterKeepsCInv DEF Advance
<1>3. CASE UNCHANGED cvars
  <2>1. \A h : Present(h)' <=> Present(h)
    BY <1>3 DEF cvars, Present, ReadEntry
  <2> QED
    BY <1>3, <2>1 DEF cvars, CInv, CTypeOK, FloorSound, ContiguousTo,
                      LocalsSound, DutyKept, OnDuty, HighwaterPending
<1> QED
  BY <1>1, <1>2, <1>3 DEF CNext

(***************************************************************************)
(* CInv holds in every reachable state, however the writers interleave: the *)
(* invariant the theorems below follow from.                               *)
(***************************************************************************)
THEOREM CInvAlways ==
  ASSUME MinHeight # 0
  PROVE  CSpec => []CInv
<1>1. CInit => CInv
  BY CInitInv
<1>2. CInv /\ [CNext]_cvars => CInv'
  BY CNextKeepsCInv
<1> QED
  BY <1>1, <1>2, PTL DEF CSpec

(***************************************************************************)
(* Type correctness: in particular the compare_exchange loop never carries *)
(* max_contiguous_height past the last height with an entry.               *)
(***************************************************************************)
THEOREM ContiguityTyped ==
  ASSUME MinHeight # 0
  PROVE  CSpec => []CTypeOK
<1>1. CInv => CTypeOK
  BY DEF CInv
<1> QED
  BY CInvAlways, <1>1, PTL

(***************************************************************************)
(* max_contiguous_height never claims a height that is not in the index,   *)
(* in any interleaving of any number of writers.                           *)
(***************************************************************************)
THEOREM ContiguityFloorSound ==
  ASSUME MinHeight # 0
  PROVE  CSpec => []FloorSound
<1>1. CInv => FloorSound
  BY DEF CInv
<1> QED
  BY CInvAlways, <1>1, PTL

(***************************************************************************)
(* The answer to the TODO in advance_max_contiguous_height: there is no    *)
(* race that leaves the floor behind.  When no write is in progress the    *)
(* entry above the floor is missing.                                       *)
(***************************************************************************)
THEOREM ContiguityFloorExact ==
  ASSUME MinHeight # 0
  PROVE  CSpec => []FloorExact
<1>1. CInv => FloorExact
  BY DEF CInv, FloorExact, DutyKept, OnDuty, Idle
<1> QED
  BY CInvAlways, <1>1, PTL

(***************************************************************************)
(* When no write is in progress height_highwater is at least every height  *)
(* in the index.                                                           *)
(***************************************************************************)
THEOREM ContiguityHighwaterExact ==
  ASSUME MinHeight # 0
  PROVE  CSpec => []HighwaterExact
<1>1. CInv => HighwaterExact
  BY DEF CInv, HighwaterExact, HighwaterPending, Idle
<1> QED
  BY CInvAlways, <1>1, PTL

=============================================================================
