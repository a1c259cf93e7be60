-------------------------- MODULE DataFilesProofs --------------------------
(***************************************************************************)
(* Theorems about the cache of open files, for every number of callers,    *)
(* files and handles, and about the two components together: the writers   *)
(* and readers of the data files implement Reservation and FileSet, so     *)
(* that what is proved of either holds when write_block and read_block     *)
(* use both.                                                               *)
(*                                                                         *)
(* CacheConsistent speaks of cardinalities.  What the steps preserve is    *)
(* that order is a listing of the handles without repetition, no longer    *)
(* than the capacity; the library's theorems on bijections give the rest.  *)
(* NoSpuriousBlock needs that nothing has been evicted as long as all the  *)
(* files opened so far fit into the cache.                                 *)
(***************************************************************************)
EXTENDS DataFiles, ReservationProofs, FiniteSetTheorems, SequenceTheorems

Places == {"idle", "miss", "using", "blocked"}

FTypeOK ==
  /\ order \in Seq(Indices)
  /\ handles \subseteq Indices
  /\ at \in [Threads -> Places]
  /\ want \in [Threads -> Indices \union {NoFile}]
  /\ held \in [Threads -> Indices \union {NoFile}]
  /\ opened \subseteq Indices /\ IsFiniteSet(opened)

(* order lists the handles, each one once. *)
Listing ==
  /\ \A n \in 1 .. Len(order) : order[n] \in handles
  /\ \A i \in handles : \E n \in 1 .. Len(order) : order[n] = i
  /\ \A m, n \in 1 .. Len(order) : order[m] = order[n] => m = n

(* Nothing was evicted while all the files opened so far fit. *)
NothingLost ==
  /\ handles \subseteq opened
  /\ Cardinality(opened) <= Capacity => handles = opened
  /\ \A t \in Threads :
       /\ held[t] # NoFile => held[t] \in opened
       /\ at[t] = "miss" => want[t] \in Indices
       /\ at[t] = "blocked" => Cardinality(opened) > Capacity

FInv ==
  /\ FTypeOK
  /\ Listing
  /\ Len(order) <= Capacity
  /\ NothingLost

(***************************************************************************)
(* A listing without repetition is as long as what it lists.               *)
(***************************************************************************)
LEMMA ListingCounts ==
  ASSUME FTypeOK, Listing
  PROVE  IsFiniteSet(handles) /\ Cardinality(handles) = Len(order)
<1>1. Len(order) \in Nat /\ order \in [1 .. Len(order) -> Indices]
  BY LenProperties DEF FTypeOK
<1>2. order \in [1 .. Len(order) -> handles]
  BY <1>1 DEF Listing
<1>3. order \in Bijection(1 .. Len(order), handles)
  BY <1>2 DEF Listing, Bijection, Injection, Surjection, IsInjective
<1>4. ExistsBijection(1 .. Len(order), handles)
  BY <1>3 DEF ExistsBijection
<1>5. IsFiniteSet(1 .. Len(order)) /\ Cardinality(1 .. Len(order)) = Len(order)
  BY <1>1, FS_Interval
<1> QED
  BY <1>4, <1>5, FS_Bijection

(***************************************************************************)
(* A touch leaves a listing of the same handles, of the same length.       *)
(***************************************************************************)
LEMMA TouchKeepsListing ==
  ASSUME FTypeOK, Listing, NEW i \in handles,
         order' = Touched(i), handles' = handles
  PROVE  order' \in Seq(Indices) /\ Listing' /\ Len(order') = Len(order)
<1> DEFINE L == Len(order)
           P == Positions(i)
<1>1. L \in Nat /\ order \in [1 .. L -> Indices] /\ order \in Seq(Indices) /\ i \in Indices
  BY LenProperties DEF FTypeOK
<1>2. PICK p \in 1 .. L : order[p] = i
  BY DEF Listing
<1>3. P = {p}
  BY <1>2 DEF Listing, Positions
<1>4. (CHOOSE n \in P : \A m \in P : n <= m) = p
  BY <1>2, <1>3
<1> DEFINE a == SubSeq(order, 1, p - 1)
           b == SubSeq(order, p + 1, L)
<1>5. order' = a \o b \o <<i>>
  BY <1>3, <1>4 DEF Touched
<1>6. /\ a \in Seq(Indices) /\ Len(a) = p - 1
      /\ \A n \in 1 .. p - 1 : a[n] = order[n]
  <2>1. \A n \in 1 .. p - 1 : order[n] \in Indices
    BY <1>1
  <2> QED
    BY <1>1, <2>1, SubSeqProperties
<1>7. /\ b \in Seq(Indices) /\ Len(b) = L - p
      /\ \A n \in 1 .. L - p : b[n] = order[p + n]
  <2>1. \A n \in p + 1 .. L : order[n] \in Indices
    BY <1>1
  <2>2. /\ b \in Seq(Indices)
        /\ Len(b) = IF p + 1 <= L THEN L - (p + 1) + 1 ELSE 0
        /\ \A n \in 1 .. L - (p + 1) + 1 : b[n] = order[(p + 1) + n - 1]
    BY <1>1, <2>1, SubSeqProperties
  <2> HIDE DEF b, L
  <2>3. L - (p + 1) + 1 = L - p /\ \A n \in 1 .. L - p : (p + 1) + n - 1 = p + n
    BY <1>1
  <2> QED
    BY <1>1, <2>2, <2>3
<1> HIDE DEF a, b, L
<1>8. /\ a \o b \in Seq(Indices) /\ Len(a \o b) = L - 1
      /\ \A n \in 1 .. L - 1 : (a \o b)[n] = IF n < p THEN order[n] ELSE order[n + 1]
  <2>1. /\ a \o b \in Seq(Indices) /\ Len(a \o b) = Len(a) + Len(b)
        /\ \A n \in 1 .. Len(a) + Len(b) :
             (a \o b)[n] = IF n <= Len(a) THEN a[n] ELSE b[n - Len(a)]
    BY <1>6, <1>7, ConcatProperties
  <2>2. Len(a) + Len(b) = L - 1
    BY <1>1, <1>6, <1>7
  <2>3. ASSUME NEW n \in 1 .. L - 1, ~(n < p)
        PROVE  b[n - (p - 1)] = order[n + 1]
    <3>1. n - (p - 1) \in 1 .. L - p /\ p + (n - (p - 1)) = n + 1
      BY <1>1, <2>3
    <3> QED BY <1>7, <3>1
  <2>4. ASSUME NEW n \in 1 .. L - 1
        PROVE  (a \o b)[n] = IF n < p THEN order[n] ELSE order[n + 1]
    <3>1. (a \o b)[n] = IF n <= p - 1 THEN a[n] ELSE b[n - (p - 1)]
      BY <1>6, <2>1, <2>2
    <3>2. CASE n < p
      <4>1. n \in 1 .. p - 1 /\ n <= p - 1
        BY <1>1, <3>2
      <4> QED BY <1>6, <3>1, <3>2, <4>1
    <3>3. CASE ~(n < p)
      <4>1. ~(n <= p - 1)
        BY <1>1, <3>3
      <4> QED BY <2>3, <3>1, <3>3, <4>1
    <3> QED BY <3>2, <3>3
  <2> QED
    BY <2>1, <2>2, <2>4
<1>9. <<i>> \in Seq(Indices) /\ Len(<<i>>) = 1 /\ <<i>>[1] = i
  BY <1>1
<1>10. /\ order' \in Seq(Indices) /\ Len(order') = L
       /\ \A n \in 1 .. L : order'[n] = IF n < p THEN order[n]
                                        ELSE IF n < L THEN order[n + 1] ELSE i
  <2> DEFINE c == a \o b
  <2>1. c \in Seq(Indices) /\ Len(c) = L - 1 /\ order' = c \o <<i>>
    BY <1>5, <1>8
  <2>2. \A n \in 1 .. L - 1 : c[n] = IF n < p THEN order[n] ELSE order[n + 1]
    BY <1>8
  <2> HIDE DEF c
  <2>3. /\ c \o <<i>> \in Seq(Indices) /\ Len(c \o <<i>>) = (L - 1) + 1
        /\ \A n \in 1 .. (L - 1) + 1 : (c \o <<i>>)[n] = IF n <= L - 1 THEN c[n] ELSE <<i>>[n - (L - 1)]
    BY <1>9, <2>1, ConcatProperties
  <2>4. (L - 1) + 1 = L
    BY <1>1
  <2>5. \A n \in 1 .. L : order'[n] = IF n <= L - 1 THEN c[n] ELSE <<i>>[n - (L - 1)]
    BY <2>1, <2>3, <2>4
  <2>6. \A n \in 1 .. L : n <= L - 1 <=> n < L
    BY <1>1
  <2>7. \A n \in 1 .. L : ~(n < L) => n - (L - 1) = 1 /\ ~(n < p)
    BY <1>1
  <2>8. \A n \in 1 .. L : n < L => n \in 1 .. L - 1
    BY <1>1
  <2> QED
    BY <1>9, <2>1, <2>2, <2>3, <2>4, <2>5, <2>6, <2>7, <2>8
<1>11. \A n \in 1 .. L : order'[n] \in handles
  BY <1>1, <1>10 DEF Listing, L
<1>12. \A j \in handles : \E n \in 1 .. L : order'[n] = j
  <2> SUFFICES ASSUME NEW j \in handles PROVE \E n \in 1 .. L : order'[n] = j
    OBVIOUS
  <2>1. PICK m \in 1 .. L : order[m] = j
    BY DEF Listing, L
  <2>2. CASE m < p
    BY <1>1, <1>10, <2>1, <2>2
  <2>3. CASE m = p
    BY <1>1, <1>2, <1>10, <2>1, <2>3
  <2>4. CASE m > p
    <3>1. m - 1 \in 1 .. L /\ order'[m - 1] = j
      BY <1>1, <1>10, <2>1, <2>4
    <3> QED BY <3>1
  <2> QED BY <1>1, <2>2, <2>3, <2>4
<1>13. \A m, n \in 1 .. L : order'[m] = order'[n] => m = n
  <2> SUFFICES ASSUME NEW m \in 1 .. L, NEW n \in 1 .. L, order'[m] = order'[n]
               PROVE  m = n
    OBVIOUS
  <2> DEFINE f == IF m < p THEN m ELSE IF m < L THEN m + 1 ELSE p
             g == IF n < p THEN n ELSE IF n < L THEN n + 1 ELSE p
  <2>1. f \in 1 .. L /\ g \in 1 .. L /\ order[f] = order[g]
    BY <1>1, <1>2, <1>10
  <2>2. f = g
    BY <2>1 DEF Listing, L
  <2> QED
    BY <1>1, <2>2
<1> QED
  BY <1>10, <1>11, <1>12, <1>13 DEF Listing, L

(***************************************************************************)
(* An insert of a new index keeps the listing within the capacity: what it *)
(* drops, if it must, is the head of the order and its handle.             *)
(***************************************************************************)
LEMMA InsertKeepsListing ==
  ASSUME FTypeOK, Listing, Len(order) <= Capacity,
         NEW i \in Indices, i \notin handles, Insert(i)
  PROVE  /\ order' \in Seq(Indices) /\ handles' \subseteq Indices
         /\ Listing' /\ Len(order') <= Capacity
         /\ handles' \subseteq handles \union {i}
         /\ Cardinality(handles \union {i}) <= Capacity => handles' = handles \union {i}
<1> DEFINE L == Len(order)
<1>1. L \in Nat /\ order \in [1 .. L -> Indices] /\ order \in Seq(Indices)
  BY LenProperties DEF FTypeOK
<1>2. Cardinality(handles \union {i}) = L + 1
  BY ListingCounts, FS_AddElement
<1>3. Capacity \in Nat /\ Capacity >= 1
  BY FileSetAssumption
<1>4. handles \subseteq Indices
  BY DEF FTypeOK
<1>5. CASE MustEvict(i) /\ order # <<>>
  <2> DEFINE tl == Tail(order)
  <2>1. /\ tl \in Seq(Indices) /\ Len(tl) = L - 1
        /\ \A n \in 1 .. L - 1 : tl[n] = order[n + 1]
        /\ L # 0 /\ Head(order) = order[1]
    BY <1>1, <1>5, HeadTailProperties
  <2>2. order' = Append(tl, i) /\ handles' = (handles \ {order[1]}) \union {i}
    BY <1>5, <2>1 DEF Insert
  <2> HIDE DEF tl, L
  <2>3. /\ order' \in Seq(Indices) /\ Len(order') = L
        /\ \A n \in 1 .. L - 1 : order'[n] = order[n + 1]
        /\ order'[L] = i
    <3>1. /\ Append(tl, i) \in Seq(Indices) /\ Len(Append(tl, i)) = Len(tl) + 1
          /\ \A n \in 1 .. Len(tl) : Append(tl, i)[n] = tl[n]
          /\ Append(tl, i)[Len(tl) + 1] = i
      BY <2>1, AppendProperties
    <3>2. Len(tl) + 1 = L
      BY <1>1, <2>1
    <3> QED BY <2>1, <2>2, <3>1, <3>2
  <2>4. L = Len(order)
    BY DEF L
  <2>5. \A n \in 1 .. L : order'[n] \in handles'
    <3> SUFFICES ASSUME NEW n \in 1 .. L PROVE order'[n] \in handles'
      OBVIOUS
    <3>1. CASE n = L
      BY <2>2, <2>3, <3>1
    <3>2. CASE n # L
      <4>1. n \in 1 .. L - 1 /\ n + 1 \in 1 .. L /\ 1 \in 1 .. L /\ n + 1 # 1
        BY <1>1, <3>2
      <4>2. order[n + 1] \in handles /\ order[n + 1] # order[1]
        BY <2>4, <4>1 DEF Listing
      <4> QED BY <2>2, <2>3, <4>1, <4>2
    <3> QED BY <3>1, <3>2
  <2>6. \A j \in handles' : \E n \in 1 .. L : order'[n] = j
    <3> SUFFICES ASSUME NEW j \in handles' PROVE \E n \in 1 .. L : order'[n] = j
      OBVIOUS
    <3>1. CASE j = i
      <4>1. L \in 1 .. L
        BY <1>1, <2>1
      <4> QED BY <2>3, <3>1, <4>1
    <3>2. CASE j # i
      <4>1. j \in handles /\ j # order[1]
        BY <2>2, <3>2
      <4>2. PICK m \in 1 .. L : order[m] = j
        BY <2>4, <4>1 DEF Listing
      <4>3. m - 1 \in 1 .. L - 1 /\ m - 1 \in 1 .. L /\ (m - 1) + 1 = m
        BY <1>1, <4>1, <4>2
      <4> QED BY <2>3, <4>2, <4>3
    <3> QED BY <3>1, <3>2
  <2>7. \A m, n \in 1 .. L : order'[m] = order'[n] => m = n
    <3> SUFFICES ASSUME NEW m \in 1 .. L, NEW n \in 1 .. L, order'[m] = order'[n], m # n
                 PROVE  FALSE
      OBVIOUS
    <3>1. \A k \in 1 .. L - 1 : k + 1 \in 1 .. L /\ order[k + 1] \in handles
      BY <1>1, <2>4 DEF Listing
    <3>2. CASE m # L /\ n # L
      <4>1. m \in 1 .. L - 1 /\ n \in 1 .. L - 1
        BY <1>1, <3>2
      <4>2. m + 1 = n + 1
        BY <2>3, <2>4, <3>1, <4>1 DEF Listing
      <4> QED BY <1>1, <4>2
    <3>3. CASE m = L
      <4>1. n \in 1 .. L - 1
        BY <1>1, <3>3
      <4> QED BY <2>3, <3>1, <3>3, <4>1
    <3>4. CASE n = L
      <4>1. m \in 1 .. L - 1
        BY <1>1, <3>4
      <4> QED BY <2>3, <3>1, <3>4, <4>1
    <3> QED BY <3>2, <3>3, <3>4
  <2>8. ~(Cardinality(handles \union {i}) <= Capacity)
    BY <1>1, <1>2, <1>3, <1>5, <2>4 DEF MustEvict
  <2> QED
    BY <1>4, <2>2, <2>3, <2>4, <2>5, <2>6, <2>7, <2>8 DEF Listing
<1>6. CASE ~(MustEvict(i) /\ order # <<>>)
  <2>1. order' = Append(order, i) /\ handles' = handles \union {i}
    BY <1>6 DEF Insert
  <2>2. L + 1 <= Capacity
    <3>1. CASE order = <<>>
      BY <1>1, <1>3, <3>1, EmptySeq
    <3>2. CASE ~MustEvict(i)
      BY <1>1, <1>2, <1>3, <3>2 DEF MustEvict
    <3> QED BY <1>6, <3>1, <3>2
  <2>3. /\ order' \in Seq(Indices) /\ Len(order') = L + 1
        /\ \A n \in 1 .. L : order'[n] = order[n]
        /\ order'[L + 1] = i
    BY <1>1, <2>1, AppendProperties
  <2>4. L = Len(order)
    OBVIOUS
  <2> HIDE DEF L
  <2>5. \A n \in 1 .. L + 1 : n \in 1 .. L \/ n = L + 1
    BY <1>1
  <2>6. \A n \in 1 .. L : n \in 1 .. L + 1 /\ order[n] \in handles /\ order[n] # i
    BY <1>1, <2>4 DEF Listing
  <2>7. \A n \in 1 .. L + 1 : order'[n] \in handles'
    BY <2>1, <2>3, <2>5, <2>6
  <2>8. \A j \in handles' : \E n \in 1 .. L + 1 : order'[n] = j
    <3> SUFFICES ASSUME NEW j \in handles' PROVE \E n \in 1 .. L + 1 : order'[n] = j
      OBVIOUS
    <3>1. CASE j = i
      BY <1>1, <2>3, <3>1
    <3>2. CASE j # i
      BY <2>1, <2>3, <2>4, <2>6, <3>2 DEF Listing
    <3> QED BY <3>1, <3>2
  <2>9. \A m, n \in 1 .. L + 1 : order'[m] = order'[n] => m = n
    BY <2>3, <2>4, <2>5, <2>6 DEF Listing
  <2> QED
    BY <1>4, <2>1, <2>2, <2>3, <2>7, <2>8, <2>9 DEF Listing
<1> QED
  BY <1>5, <1>6

(***************************************************************************)
(* An empty cache satisfies FInv.                                          *)
(***************************************************************************)
LEMMA FInitInv == FInit => FInv
<1> SUFFICES ASSUME FInit PROVE FInv
  OBVIOUS
<1>1. order \in Seq(Indices) /\ Len(order) = 0
  BY EmptySeq DEF FInit
<1>2. FTypeOK
  BY <1>1, FS_EmptySet DEF FInit, FTypeOK, Places
<1>3. Listing
  BY <1>1 DEF FInit, Listing
<1>4. Len(order) <= Capacity
  BY <1>1, FileSetAssumption
<1>5. NothingLost
  BY DEF FInit, NothingLost
<1> QED
  BY <1>2, <1>3, <1>4, <1>5 DEF FInv

(***************************************************************************)
(* The first look under the mutex keeps FInv: a hit is a touch.            *)
(***************************************************************************)
LEMMA LookupKeepsFInv ==
  ASSUME FInv, NEW t \in Threads, NEW i \in Indices, Lookup(t, i)
  PROVE  FInv'
<1>1. FTypeOK /\ Listing /\ Len(order) <= Capacity /\ NothingLost
  BY DEF FInv
<1>2. handles' = handles /\ opened' = opened
  BY DEF Lookup
<1>3. CASE i \in handles
  <2>1. /\ order' = Touched(i)
        /\ at' = [at EXCEPT ![t] = "using"]
        /\ held' = [held EXCEPT ![t] = i]
        /\ want' = [want EXCEPT ![t] = NoFile]
    BY <1>3 DEF Lookup, Obtain
  <2>2. order' \in Seq(Indices) /\ Listing' /\ Len(order') = Len(order)
    BY <1>1, <1>2, <1>3, <2>1, TouchKeepsListing
  <2>3. FTypeOK'
    BY <1>1, <1>2, <2>1, <2>2 DEF FTypeOK, Places
  <2>4. NothingLost'
    BY <1>1, <1>2, <1>3, <2>1 DEF NothingLost, FTypeOK
  <2> QED BY <1>1, <2>2, <2>3, <2>4 DEF FInv
<1>4. CASE i \notin handles
  <2>1. /\ at' = [at EXCEPT ![t] = "miss"]
        /\ want' = [want EXCEPT ![t] = i]
        /\ order' = order /\ held' = held
    BY <1>4 DEF Lookup
  <2>2. FTypeOK'
    BY <1>1, <1>2, <2>1 DEF FTypeOK, Places
  <2>3. NothingLost'
    BY <1>1, <1>2, <2>1 DEF NothingLost, FTypeOK
  <2>4. Listing' /\ Len(order') = Len(order)
    BY <1>1, <1>2, <2>1 DEF Listing
  <2> QED BY <1>1, <2>2, <2>3, <2>4 DEF FInv
<1> QED BY <1>3, <1>4

(***************************************************************************)
(* The second look that finds the file keeps FInv.                         *)
(***************************************************************************)
LEMMA FoundKeepsFInv ==
  ASSUME FInv, NEW t \in Threads, FoundMeanwhile(t)
  PROVE  FInv'
<1>1. FTypeOK /\ Listing /\ Len(order) <= Capacity /\ NothingLost
  BY DEF FInv
<1> DEFINE i == want[t]
<1>2. /\ handles' = handles /\ opened' = opened /\ i \in handles /\ at[t] = "miss"
      /\ order' = Touched(i)
      /\ at' = [at EXCEPT ![t] = "using"]
      /\ held' = [held EXCEPT ![t] = i]
      /\ want' = [want EXCEPT ![t] = NoFile]
  BY DEF FoundMeanwhile, SecondLook, Obtain
<1> HIDE DEF i
<1>3. order' \in Seq(Indices) /\ Listing' /\ Len(order') = Len(order)
  BY <1>1, <1>2, TouchKeepsListing
<1>4. FTypeOK'
  BY <1>1, <1>2, <1>3 DEF FTypeOK, Places
<1>5. NothingLost'
  BY <1>1, <1>2 DEF NothingLost, FTypeOK
<1> QED BY <1>1, <1>3, <1>4, <1>5 DEF FInv

(***************************************************************************)
(* Opening a file keeps FInv: while all the files opened fit, the insert   *)
(* does not evict.                                                         *)
(***************************************************************************)
LEMMA OpenKeepsFInv ==
  ASSUME FInv, NEW t \in Threads, OpenFile(t)
  PROVE  FInv'
<1>1. FTypeOK /\ Listing /\ Len(order) <= Capacity /\ NothingLost
  BY DEF FInv
<1> DEFINE i == want[t]
<1>2. /\ opened' = opened \union {i} /\ i \notin handles /\ at[t] = "miss"
      /\ Insert(i)
      /\ at' = [at EXCEPT ![t] = "using"]
      /\ held' = [held EXCEPT ![t] = i]
      /\ want' = [want EXCEPT ![t] = NoFile]
  BY DEF OpenFile, SecondLook, Obtain
<1>3. i \in Indices
  BY <1>1, <1>2 DEF NothingLost
<1> HIDE DEF i
<1>4. /\ order' \in Seq(Indices) /\ handles' \subseteq Indices
      /\ Listing' /\ Len(order') <= Capacity
      /\ handles' \subseteq handles \union {i}
      /\ Cardinality(handles \union {i}) <= Capacity => handles' = handles \union {i}
  BY <1>1, <1>2, <1>3, InsertKeepsListing
<1>5. /\ IsFiniteSet(opened') /\ Cardinality(opened) \in Nat
      /\ Cardinality(opened') \in Nat /\ Cardinality(opened) <= Cardinality(opened')
  <2>1. IsFiniteSet(opened)
    BY <1>1 DEF FTypeOK
  <2>2. Cardinality(opened) \in Nat
    BY <2>1, FS_CardinalityType
  <2>3. /\ IsFiniteSet(opened')
        /\ Cardinality(opened') = IF i \in opened THEN Cardinality(opened)
                                  ELSE Cardinality(opened) + 1
    BY <1>2, <2>1, FS_AddElement
  <2> QED
    BY <2>2, <2>3
<1>6. Capacity \in Nat
  BY FileSetAssumption
<1>7. FTypeOK'
  BY <1>1, <1>2, <1>3, <1>4, <1>5 DEF FTypeOK, Places
<1>8. NothingLost'
  <2>1. handles' \subseteq opened'
    BY <1>1, <1>2, <1>4 DEF NothingLost
  <2>2. ASSUME Cardinality(opened') <= Capacity
        PROVE  handles' = opened'
    <3>1. handles = opened
      BY <1>1, <1>5, <1>6, <2>2 DEF NothingLost
    <3> QED BY <1>2, <1>4, <2>2, <3>1
  <2>3. \A u \in Threads : held'[u] # NoFile => held'[u] \in opened'
    BY <1>1, <1>2 DEF NothingLost, FTypeOK
  <2>4. \A u \in Threads : at'[u] = "miss" => want'[u] \in Indices
    BY <1>1, <1>2 DEF NothingLost, FTypeOK
  <2>5. \A u \in Threads : at'[u] = "blocked" => Cardinality(opened') > Capacity
    <3> SUFFICES ASSUME NEW u \in Threads, at'[u] = "blocked"
                 PROVE  Cardinality(opened') > Capacity
      OBVIOUS
    <3>1. at[u] = "blocked"
      BY <1>1, <1>2 DEF FTypeOK
    <3> QED BY <1>1, <1>5, <1>6, <3>1 DEF NothingLost
  <2> QED BY <2>1, <2>2, <2>3, <2>4, <2>5 DEF NothingLost
<1> QED BY <1>4, <1>7, <1>8 DEF FInv

(***************************************************************************)
(* A lock failure keeps FInv: the file is held outside of the cache, so it *)
(* was evicted, and the files opened do not fit.                           *)
(***************************************************************************)
LEMMA BlockedKeepsFInv ==
  ASSUME FInv, NEW t \in Threads, OpenBlocked(t)
  PROVE  FInv'
<1>1. FTypeOK /\ Listing /\ Len(order) <= Capacity /\ NothingLost
  BY DEF FInv
<1>2. /\ order' = order /\ handles' = handles /\ held' = held /\ opened' = opened
      /\ at' = [at EXCEPT ![t] = "blocked"] /\ want' = [want EXCEPT ![t] = NoFile]
      /\ want[t] \notin handles /\ at[t] = "miss" /\ StillLocked(want[t])
  BY DEF OpenBlocked, SecondLook
<1>3. PICK u \in Threads : held[u] = want[t]
  BY <1>2 DEF StillLocked
<1>4. want[t] \in Indices /\ want[t] # NoFile
  BY <1>1, <1>2, FileSetAssumption DEF NothingLost, NoFile
<1>5. want[t] \in opened
  BY <1>1, <1>3, <1>4 DEF NothingLost
<1>6. Cardinality(opened) > Capacity
  <2>1. ~(Cardinality(opened) <= Capacity)
    BY <1>1, <1>2, <1>5 DEF NothingLost
  <2>2. Cardinality(opened) \in Nat /\ Capacity \in Nat
    BY <1>1, FS_CardinalityType, FileSetAssumption DEF FTypeOK
  <2> QED BY <2>1, <2>2
<1>7. FTypeOK'
  BY <1>1, <1>2 DEF FTypeOK, Places
<1>8. NothingLost'
  BY <1>1, <1>2, <1>6 DEF NothingLost, FTypeOK
<1>9. Listing' /\ Len(order') = Len(order)
  BY <1>1, <1>2 DEF Listing
<1> QED BY <1>1, <1>7, <1>8, <1>9 DEF FInv

(***************************************************************************)
(* The end of a use keeps FInv.                                            *)
(***************************************************************************)
LEMMA FinishKeepsFInv ==
  ASSUME FInv, NEW t \in Threads, Finish(t)
  PROVE  FInv'
<1>1. FTypeOK /\ Listing /\ Len(order) <= Capacity /\ NothingLost
  BY DEF FInv
<1>2. /\ order' = order /\ handles' = handles /\ want' = want /\ opened' = opened
      /\ at' = [at EXCEPT ![t] = "idle"] /\ held' = [held EXCEPT ![t] = NoFile]
  BY DEF Finish
<1>3. FTypeOK'
  BY <1>1, <1>2 DEF FTypeOK, Places
<1>4. NothingLost'
  BY <1>1, <1>2 DEF NothingLost, FTypeOK
<1>5. Listing' /\ Len(order') = Len(order)
  BY <1>1, <1>2 DEF Listing
<1> QED BY <1>1, <1>3, <1>4, <1>5 DEF FInv

(***************************************************************************)
(* FInv holds in every state of the cache, whatever its callers do between *)
(* a miss and the open that follows it.                                    *)
(***************************************************************************)
THEOREM FInvAlways == FSpec => []FInv
<1>1. FInv /\ [FNext]_fvars => FInv'
  <2> SUFFICES ASSUME FInv, [FNext]_fvars PROVE FInv'
    OBVIOUS
  <2>1. ASSUME NEW t \in Threads, NEW i \in Indices, Lookup(t, i) PROVE FInv'
    BY <2>1, LookupKeepsFInv
  <2>2. ASSUME NEW t \in Threads, FoundMeanwhile(t) PROVE FInv'
    BY <2>2, FoundKeepsFInv
  <2>3. ASSUME NEW t \in Threads, OpenFile(t) PROVE FInv'
    BY <2>3, OpenKeepsFInv
  <2>4. ASSUME NEW t \in Threads, OpenBlocked(t) PROVE FInv'
    BY <2>4, BlockedKeepsFInv
  <2>5. ASSUME NEW t \in Threads, Finish(t) PROVE FInv'
    BY <2>5, FinishKeepsFInv
  <2>6. CASE UNCHANGED fvars
    BY <2>6 DEF fvars, FInv, FTypeOK, Listing, NothingLost
  <2> QED
    BY <2>1, <2>2, <2>3, <2>4, <2>5, <2>6 DEF FNext
<1> QED
  BY FInitInv, <1>1, PTL DEF FSpec

(***************************************************************************)
(* The order and the map of the cache agree in every state.                *)
(***************************************************************************)
THEOREM FileSetConsistent == FSpec => []CacheConsistent
<1>1. FInv => CacheConsistent
  <2> SUFFICES ASSUME FInv PROVE CacheConsistent
    OBVIOUS
  <2>1. Cardinality(handles) = Len(order)
    BY ListingCounts DEF FInv
  <2>2. {order[n] : n \in 1 .. Len(order)} = handles
    BY DEF FInv, Listing
  <2> QED BY <2>1, <2>2 DEF CacheConsistent
<1> QED BY FInvAlways, <1>1, PTL

(***************************************************************************)
(* Never more than max_data_files handles are cached.                      *)
(***************************************************************************)
THEOREM FileSetBounded == FSpec => []CacheBounded
<1>1. FInv => CacheBounded
  BY ListingCounts DEF FInv, CacheBounded
<1> QED BY FInvAlways, <1>1, PTL

(***************************************************************************)
(* While the files in use fit into the cache, get_or_open never runs into  *)
(* a lock of its own process, for any number of concurrent callers.        *)
(***************************************************************************)
THEOREM FileSetNoSpuriousBlock == FSpec => []NoSpuriousBlock
<1>1. FInv => NoSpuriousBlock
  <2> SUFFICES ASSUME FInv, Cardinality(opened) <= Capacity, NEW t \in Threads,
                      at[t] = "blocked"
               PROVE  FALSE
    BY DEF NoSpuriousBlock
  <2>1. Cardinality(opened) > Capacity
    BY DEF FInv, NothingLost
  <2>2. Cardinality(opened) \in Nat /\ Capacity \in Nat
    BY FS_CardinalityType, FileSetAssumption DEF FInv, FTypeOK
  <2> QED BY <2>1, <2>2
<1> QED BY FInvAlways, <1>1, PTL

-----------------------------------------------------------------------------
(***************************************************************************)
(* split_offset names one of the files there can be.                       *)
(***************************************************************************)
LEMMA SplitInIndices ==
  ASSUME NEW o \in Nat
  PROVE  SplitOffset(o).file \in Indices
<1>1. Cap \in Nat /\ MaxFileIndex \in Nat /\ 0 .. MaxFileIndex \subseteq Indices
  BY ReservationAssumption, DataFilesAssumption
<1>2. CASE Cap = 0
  BY <1>1, <1>2 DEF SplitOffset
<1>3. CASE Cap # 0
  <2>1. o \div Cap \in Nat
    BY <1>1, <1>3
  <2>2. SplitOffset(o).file = IF o \div Cap <= MaxFileIndex THEN o \div Cap ELSE MaxFileIndex
    BY <1>3 DEF SplitOffset
  <2> QED BY <1>1, <2>1, <2>2
<1> QED BY <1>2, <1>3

(***************************************************************************)
(* The writers and readers of the data files use the allocator as it is:   *)
(* with files, locks and failures in between, their steps are steps of     *)
(* Reservation or leave it alone.                                          *)
(***************************************************************************)
THEOREM DataFilesImplementReservation == DSpec => RSpec
<1>1. DInit => RInit
  BY DEF DInit
<1>2. [DNext]_dvars => [RNext]_rvars
  BY DEF DNext, dvars, RNext, BeginWrite, ResolveOffset, ResolveForWrite, ResolveForRead,
         GetOrOpen, WriteLands, WriteFails, GiveBack, ReadReturns
<1> QED
  BY <1>1, <1>2, PTL DEF DSpec, RSpec

(***************************************************************************)
(* ... and the cache of open files as it is: every file they ask for is    *)
(* one of the indices there can be.                                        *)
(***************************************************************************)
THEOREM DataFilesImplementFileSet == DSpec => FSpec
<1>1. DInit => FInit
  BY DEF DInit
<1>2. RInv /\ [DNext]_dvars => [FNext]_fvars
  <2> SUFFICES ASSUME RInv, [DNext]_dvars PROVE [FNext]_fvars
    OBVIOUS
  <2>1. Writers \subseteq Threads
    BY DataFilesAssumption
  <2>2. rsv \in [Writers -> Extent] /\ landed \subseteq Extent
    BY DEF RInv, RTypeOK
  <2>3. ASSUME NEW t \in Threads, NEW o \in Nat, ResolveOffset(t, o) PROVE FNext
    BY <2>3, SplitInIndices DEF ResolveOffset, FNext
  <2>4. ASSUME NEW t \in Writers, ResolveForWrite(t) PROVE FNext
    <3>1. rsv[t].offset \in Nat
      BY <2>2 DEF Extent
    <3> QED BY <2>1, <2>3, <2>4, <3>1 DEF ResolveForWrite
  <2>5. ASSUME NEW t \in Threads, ResolveForRead(t) PROVE FNext
    <3>1. PICK e \in landed : ResolveOffset(t, e.offset)
      BY <2>5 DEF ResolveForRead
    <3>2. e.offset \in Nat
      BY <2>2 DEF Extent
    <3> QED BY <2>3, <3>1, <3>2
  <2>6. ASSUME NEW t \in Writers, WriteLands(t) \/ WriteFails(t) PROVE FNext
    BY <2>1, <2>6 DEF WriteLands, WriteFails, FNext
  <2>7. ASSUME NEW t \in Threads, GetOrOpen(t) \/ ReadReturns(t) PROVE FNext
    BY <2>7 DEF GetOrOpen, ReadReturns, FNext
  <2>8. ASSUME NEW t \in Writers, (\E size \in Sizes : BeginWrite(t, size)) \/ GiveBack(t)
        PROVE  UNCHANGED fvars
    BY <2>8 DEF BeginWrite, GiveBack
  <2>9. CASE UNCHANGED dvars
    BY <2>9 DEF dvars
  <2> QED
    BY <2>4, <2>5, <2>6, <2>7, <2>8, <2>9 DEF DNext
<1> QED
  BY <1>1, <1>2, RInvAlways, DataFilesImplementReservation, PTL DEF DSpec, FSpec

(***************************************************************************)
(* Writers and readers of the data files, their locks and their failures:  *)
(* no byte is handed out twice, no block straddles two files, two blocks   *)
(* share bytes only past the last file, and the cache of handles is        *)
(* consistent, bounded and free of conflicts with itself while the files   *)
(* fit into it, for every number of them.                                  *)
(***************************************************************************)
THEOREM DataFilesSafe ==
  DSpec => [](/\ RTypeOK /\ NoOverlap /\ HighwaterCovers /\ WithinOneFile
              /\ AliasConfined
              /\ CacheConsistent /\ CacheBounded /\ NoSpuriousBlock)
BY DataFilesImplementReservation, DataFilesImplementFileSet,
   ReservationTyped, ReservationNoOverlap, ReservationHighwaterCovers,
   ReservationWithinOneFile, ReservationAliasConfined, FileSetConsistent,
   FileSetBounded, FileSetNoSpuriousBlock, PTL

=============================================================================
