---------------------------- MODULE HandleProofs ----------------------------
(***************************************************************************)
(* Theorems about a store as Go programs have it, for every number of      *)
(* goroutines, heights and blocks, under the two disciplines of the        *)
(* callers: Careful (a height is rewritten while nobody else works on it,  *)
(* with a block the cache can hold) and Quiet (Close is called when no     *)
(* other call is on its way).  Without either the theorems are false.      *)
(***************************************************************************)
EXTENDS Handle, TLAPS

Ops == {"none", "read", "write", "open", "close"}
Stages == {"none", "entering", "inside", "returned", "answered"}
Tags == {"none", "null", "ok", "some", "err"}
Answers == Blocks \union {NoBlock, Failure}

Buffer == [ptr : {Nil, Address}, data : Answers]

Call == [op : Ops, stage : Stages, height : Heights \union {NoBlock},
         block : Blocks \union {NoBlock}, handle : {Nil, Address}, tag : Tags,
         owned : Buffer, answer : Answers]

Job == [height : Heights \union {NoBlock}, block : Blocks \union {NoBlock}]

HTypeOK ==
  /\ stored \in [Heights -> Blocks \union {NoBlock}]
  /\ cache \in [Heights -> Blocks \union {NoBlock}]
  /\ settled \in [Heights -> Blocks \union {NoBlock}]
  /\ at \in [Threads -> {"idle", "fetch", "populate", "cache"}]
  /\ job \in [Threads -> Job]
  /\ handle \in {Nil, Address} /\ alive \in BOOLEAN /\ caching \in BOOLEAN
  /\ call \in [Threads -> Call]
  /\ heap \subseteq Threads

(* Where a call is, and what the thread does inside the cached store. *)
CallShape(t) ==
  /\ call[t].stage = "none" <=> call[t].op = "none"
  /\ call[t].op \in {"read", "write"} => call[t].height \in Heights
  /\ call[t].op = "write" => call[t].block \in Blocks
  /\ IF call[t].stage = "inside"
     THEN /\ \/ call[t].op = "read" /\ at[t] \in {"fetch", "populate"}
             \/ call[t].op = "write" /\ at[t] = "cache"
          /\ job[t].height = call[t].height
          /\ call[t].handle # Nil
     ELSE at[t] = "idle" /\ job[t] = NoJob

Shape == \A t \in Threads : CallShape(t)

(* A close that is on its way is alone, and a handle has a store behind it
   until the close is done. *)
CloseAlone ==
  \A t \in Threads : call[t].op = "close" => \A u \in Threads \ {t} : call[u].op = "none"

Backed(t) ==
  /\ call[t].op \notin {"none", "close"} /\ call[t].handle # Nil => alive
  /\ call[t].op = "close" /\ call[t].stage = "entering" => alive
  /\ call[t].op = "open" /\ call[t].tag = "ok" => alive
  /\ call[t].stage = "inside" => caching

HandleInv ==
  /\ CloseAlone
  /\ \A t \in Threads : Backed(t)
  /\ handle # Nil => alive \/ \E t \in Threads : call[t].op = "close"

(* A call has a buffer in hand only between its result and its answer. *)
BufferInv ==
  /\ BuffersReturned
  /\ \A t \in Threads : call[t].owned.ptr # Nil => call[t].stage = "returned"

(***************************************************************************)
(* The cache: a block on its way into the cache is the one in the store;   *)
(* the cache differs from the store only while a write is on its way from  *)
(* the one to the other, with a block that fits; and it then still holds   *)
(* what the last completed write left.                                     *)
(***************************************************************************)
Writing(t, h) == at[t] = "cache" /\ job[t].height = h

Carries(t) ==
  at[t] \in {"populate", "cache"} =>
    job[t].block \in Blocks /\ job[t].block = stored[job[t].height]

CacheOf(h) ==
  /\ cache[h] \in {NoBlock, stored[h], settled[h]}
  /\ cache[h] \notin {NoBlock, stored[h]} =>
       \E t \in Threads : Writing(t, h) /\ job[t].block \notin Oversize
  /\ settled[h] # stored[h] => \E t \in Threads : Writing(t, h)
  /\ ~caching => cache[h] = NoBlock

CacheInv == (\A t \in Threads : Carries(t)) /\ (\A h \in Heights : CacheOf(h))

(* What a read has in hand is among what it has seen. *)
InHand(c, values) ==
  /\ c.stage = "returned" =>
       \/ c.tag \in {"null", "err"}
       \/ c.tag = "none" /\ NoBlock \in values
       \/ c.tag = "some" /\ CopiedBytes(c.owned) \in values
  /\ c.stage = "answered" => c.answer \in values \union {Failure}

SeenInv ==
  \A t \in Threads :
    call[t].op = "read" =>
      /\ {stored[call[t].height], settled[call[t].height]} \subseteq seen[t]
      /\ InHand(call[t], seen[t])

HInv == HTypeOK /\ Shape /\ HandleInv /\ BufferInv /\ CacheInv /\ SeenInv

-----------------------------------------------------------------------------
(***************************************************************************)
(* What a step of t does to the calls: those of the others stay, and the   *)
(* call of t begins, goes into the cached store, comes out with a result,  *)
(* is answered or ends.                                                    *)
(***************************************************************************)
Others(t) == \A u \in Threads \ {t} : call'[u] = call[u]

Kept(t) ==
  /\ call'[t].op = call[t].op /\ call'[t].height = call[t].height
  /\ call'[t].block = call[t].block /\ call'[t].handle = call[t].handle

(* A call starts by reading the handle, and owns nothing yet. *)
LEMMA BeginCall ==
  ASSUME HTypeOK, NEW t \in Threads, NEW op \in Ops \ {"none"},
         NEW h \in Heights \union {NoBlock}, NEW b \in Blocks \union {NoBlock},
         Begin(t, op, h, b)
  PROVE  /\ call' \in [Threads -> Call]
         /\ Others(t)
         /\ call[t].stage = "none"
         /\ call'[t].op = op /\ call'[t].stage = "entering"
         /\ call'[t].height = h /\ call'[t].block = b /\ call'[t].handle = handle
         /\ call'[t].tag = "none" /\ call'[t].owned = NoBuffer
         /\ UNCHANGED <<stored, cache, at, job, handle, alive, caching, heap, settled>>
<1> DEFINE c == [NoCall EXCEPT !.op = op, !.stage = "entering", !.height = h, !.block = b,
                               !.handle = handle]
<1>1. NoCall \in Call
  BY DEF NoCall, Call, Buffer, NoBuffer, Ops, Stages, Tags, Answers
<1>2. c \in Call
  BY <1>1 DEF Call, Ops, Stages, HTypeOK
<1>3. /\ c.op = op /\ c.stage = "entering" /\ c.height = h /\ c.block = b
      /\ c.handle = handle /\ c.tag = "none" /\ c.owned = NoBuffer
  BY <1>1 DEF NoCall, Call
<1>4. call' = [call EXCEPT ![t] = c] /\ call[t].stage = "none"
  BY DEF Begin
<1> HIDE DEF c
<1>5. call' \in [Threads -> Call] /\ Others(t) /\ call'[t] = c
  BY <1>2, <1>4 DEF HTypeOK, Others
<1> QED
  BY <1>3, <1>4, <1>5 DEF Begin, kvars

(* A result without a buffer leaves the heap alone. *)
LEMMA ResultCall ==
  ASSUME HTypeOK, NEW t \in Threads, NEW tag \in Tags, Result(t, tag)
  PROVE  /\ call' \in [Threads -> Call]
         /\ Others(t) /\ Kept(t)
         /\ call'[t].stage = "returned" /\ call'[t].tag = tag
         /\ call'[t].owned = call[t].owned
         /\ heap' = heap
<1>1. call[t] \in Call
  BY DEF HTypeOK
<1>2. [call[t] EXCEPT !.stage = "returned", !.tag = tag] \in Call
  BY <1>1 DEF Call, Stages
<1> QED
  BY <1>1, <1>2 DEF Result, HTypeOK, Others, Kept, Call

(* A result with a buffer adds it to the heap and to the call. *)
LEMMA OwningCall ==
  ASSUME HTypeOK, NEW t \in Threads, NEW tag \in Tags, NEW d \in Answers, ResultOwning(t, tag, d)
  PROVE  /\ call' \in [Threads -> Call]
         /\ Others(t) /\ Kept(t)
         /\ call'[t].stage = "returned" /\ call'[t].tag = tag
         /\ call'[t].owned.ptr = Address /\ call'[t].owned.data = d
         /\ heap' = heap \union {t}
<1>1. call[t] \in Call
  BY DEF HTypeOK
<1>2. OwnedFrom(d) \in Buffer /\ OwnedFrom(d).ptr = Address /\ OwnedFrom(d).data = d
  BY DEF Buffer, OwnedFrom
<1>3. [call[t] EXCEPT !.stage = "returned", !.tag = tag, !.owned = OwnedFrom(d)] \in Call
  BY <1>1, <1>2 DEF Call, Stages
<1> QED
  BY <1>1, <1>2, <1>3 DEF ResultOwning, HTypeOK, Others, Kept, Call

(* An error result carries its message in a buffer. *)
LEMMA ErrCall ==
  ASSUME HTypeOK, NEW t \in Threads, ErrResult(t)
  PROVE  /\ call' \in [Threads -> Call]
         /\ Others(t) /\ Kept(t)
         /\ call'[t].stage = "returned" /\ call'[t].tag = "err"
         /\ call'[t].owned.ptr = Address
         /\ heap' = heap \union {t}
<1>1. "err" \in Tags /\ Failure \in Answers /\ ResultOwning(t, "err", Failure)
  BY DEF Tags, Answers, ErrResult
<1> HIDE DEF Tags, Answers
<1> QED
  BY <1>1, OwningCall

(* The result of a read is a buffer with the block, or nothing. *)
LEMMA BlockCall ==
  ASSUME HTypeOK, NEW t \in Threads, NEW b \in Blocks \union {NoBlock}, BlockResult(t, b)
  PROVE  /\ call' \in [Threads -> Call]
         /\ Others(t) /\ Kept(t)
         /\ call'[t].stage = "returned"
         /\ IF b = NoBlock
            THEN call'[t].tag = "none" /\ call'[t].owned = call[t].owned /\ heap' = heap
            ELSE /\ call'[t].tag = "some"
                 /\ call'[t].owned.ptr = Address /\ call'[t].owned.data = b
                 /\ heap' = heap \union {t}
<1>1. "none" \in Tags /\ "some" \in Tags /\ b \in Answers
  BY DEF Tags, Answers
<1>2. CASE b = NoBlock
  <2>1. Result(t, "none")
    BY <1>2 DEF BlockResult
  <2> QED
    BY <1>1, <1>2, <2>1, ResultCall
<1>3. CASE b # NoBlock
  <2>1. ResultOwning(t, "some", b)
    BY <1>3 DEF BlockResult
  <2> QED
    BY <1>1, <1>3, <2>1, OwningCall
<1> QED
  BY <1>2, <1>3

(* Going on inside the cached store changes the stage of the call alone. *)
LEMMA InsideCall ==
  ASSUME HTypeOK, NEW t \in Threads, call' = [call EXCEPT ![t].stage = "inside"]
  PROVE  /\ call' \in [Threads -> Call]
         /\ Others(t) /\ Kept(t)
         /\ call'[t].stage = "inside" /\ call'[t].tag = call[t].tag
         /\ call'[t].owned = call[t].owned
<1>1. call[t] \in Call
  BY DEF HTypeOK
<1>2. [call[t] EXCEPT !.stage = "inside"] \in Call
  BY <1>1 DEF Call, Stages
<1> QED
  BY <1>1, <1>2 DEF HTypeOK, Others, Kept, Call

(* Turning a result into a Go value frees its buffer. *)
LEMMA AnsweredCall ==
  ASSUME HTypeOK, NEW t \in Threads, Answered(t)
  PROVE  /\ call' \in [Threads -> Call]
         /\ Others(t) /\ Kept(t)
         /\ call[t].stage = "returned" /\ call'[t].stage = "answered"
         /\ call'[t].tag = call[t].tag
         /\ call'[t].owned = NoBuffer
         /\ call'[t].answer = AnswerOf(call[t])
<1>1. call[t] \in Call
  BY DEF HTypeOK
<1>2. AnswerOf(call[t]) \in Answers /\ NoBuffer \in Buffer
  BY <1>1 DEF AnswerOf, CopiedBytes, Call, Buffer, Answers, NoBuffer
<1>3. [call[t] EXCEPT !.stage = "answered", !.answer = AnswerOf(call[t]),
                      !.owned = NoBuffer] \in Call
  BY <1>1, <1>2 DEF Call, Stages
<1> HIDE DEF AnswerOf
<1> QED
  BY <1>1, <1>3 DEF Answered, HTypeOK, Others, Kept, Call

(* The end of a call forgets it, and touches no other call. *)
LEMMA EndCall ==
  ASSUME HTypeOK, NEW t \in Threads, End(t)
  PROVE  /\ call' \in [Threads -> Call]
         /\ Others(t) /\ call'[t] = NoCall
<1>1. NoCall \in Call
  BY DEF NoCall, Call, Buffer, NoBuffer, Ops, Stages, Tags, Answers
<1> QED
  BY <1>1 DEF End, HTypeOK, Others

-----------------------------------------------------------------------------
(* Type correctness. *)

(* An insert leaves the cache a map of heights to blocks. *)
LEMMA InsertKeepsType ==
  ASSUME HTypeOK, NEW h \in Heights, NEW b \in Blocks \union {NoBlock}, Insert(h, b)
  PROVE  cache' \in [Heights -> Blocks \union {NoBlock}]
BY DEF Insert, InsertFitting, HTypeOK

(* Returning from the cached store keeps its types. *)
LEMMA ReturnKeepsType ==
  ASSUME HTypeOK, NEW t \in Threads, Return(t)
  PROVE  at' \in [Threads -> {"idle", "fetch", "populate", "cache"}] /\ job' \in [Threads -> Job]
<1>1. NoJob \in Job
  BY DEF NoJob, Job
<1> QED
  BY <1>1 DEF Return, HTypeOK

(* Entering the cached store keeps its types. *)
LEMMA StartKeepsType ==
  ASSUME HTypeOK, NEW t \in Threads, NEW p \in {"fetch", "populate", "cache"},
         NEW h \in Heights, NEW b \in Blocks \union {NoBlock}, Start(t, p, h, b)
  PROVE  at' \in [Threads -> {"idle", "fetch", "populate", "cache"}] /\ job' \in [Threads -> Job]
<1>1. [height |-> h, block |-> b] \in Job
  BY DEF Job
<1> QED
  BY <1>1 DEF Start, HTypeOK

(* Every step of a call keeps the types. *)
LEMMA StepKeepsType ==
  ASSUME HTypeOK, Shape, NEW t \in Threads, Step(t)
  PROVE  HTypeOK'
<1> USE CachedStoreAssumption, HandleAssumption
<1>0. /\ call[t] \in Call /\ job[t] \in Job /\ CallShape(t)
      /\ "ok" \in Tags /\ "null" \in Tags /\ "none" \in Tags /\ "some" \in Tags /\ "err" \in Tags
      /\ Failure \in Answers /\ Blocks \subseteq Answers
  BY DEF HTypeOK, Shape, Tags, Answers
<1>1. ASSUME NEW h \in Heights, BeginRead(t, h) PROVE HTypeOK'
  <2>1. Begin(t, "read", h, NoBlock) /\ "read" \in Ops \ {"none"}
    BY <1>1 DEF BeginRead, Ops
  <2> QED
    BY <2>1, BeginCall DEF HTypeOK
<1>2. ASSUME NEW h \in Heights, NEW b \in Blocks, BeginWrite(t, h, b) PROVE HTypeOK'
  <2>1. Begin(t, "write", h, b) /\ "write" \in Ops \ {"none"}
    BY <1>2 DEF BeginWrite, Ops
  <2> QED
    BY <2>1, BeginCall DEF HTypeOK
<1>3. CASE BeginOpen(t)
  <2>1. Begin(t, "open", NoBlock, NoBlock) /\ "open" \in Ops \ {"none"}
    BY <1>3 DEF BeginOpen, Ops
  <2> QED
    BY <2>1, BeginCall DEF HTypeOK
<1>4. CASE BeginClose(t)
  <2>1. Begin(t, "close", NoBlock, NoBlock) /\ "close" \in Ops \ {"none"}
    BY <1>4 DEF BeginClose, Ops
  <2> QED
    BY <2>1, BeginCall DEF HTypeOK
<1>5. CASE OpenStore(t)
  <2>1. CASE Result(t, "ok") /\ alive' = TRUE /\ caching' \in BOOLEAN /\ cache' = [h \in Heights |-> NoBlock]
    BY <1>0, <1>5, <2>1, ResultCall DEF OpenStore, HTypeOK
  <2>2. CASE ErrResult(t) /\ UNCHANGED <<alive, caching, cache>>
    BY <1>0, <1>5, <2>2, ErrCall DEF OpenStore, HTypeOK
  <2> QED
    BY <1>5, <2>1, <2>2 DEF OpenStore
<1>6. CASE NullHandle(t)
  BY <1>0, <1>6, ResultCall DEF NullHandle, kvars, HTypeOK
<1>7. CASE ReadBlock(t)
  <2> DEFINE h == call[t].height
  <2>1. h \in Heights /\ UNCHANGED <<settled, handle, alive, caching>>
    BY <1>0, <1>7 DEF ReadBlock, Entered, CallShape, HasHandle
  <2>2. ASSUME NEW b \in Blocks \union {NoBlock}, BlockResult(t, b), UNCHANGED kvars PROVE HTypeOK'
    BY <1>0, <2>1, <2>2, BlockCall DEF kvars, HTypeOK
  <2>3. CASE ReadMiss(t, h) /\ call' = [call EXCEPT ![t].stage = "inside"] /\ heap' = heap
    BY <1>0, <2>1, <2>3, InsideCall, StartKeepsType DEF ReadMiss, HTypeOK
  <2> QED
    BY <1>7, <2>1, <2>2, <2>3 DEF ReadBlock, HTypeOK
<1>8. CASE ReadMissed(t)
  <2>1. job[t].height \in Heights /\ UNCHANGED <<settled, handle, alive, caching>>
    BY <1>0, <1>8 DEF ReadMissed, Inside, CallShape, HasHandle
  <2>2. CASE Fetch(t) /\ stored[job[t].height] = NoBlock /\ Result(t, "none")
    BY <1>0, <2>1, <2>2, ResultCall, ReturnKeepsType DEF Fetch, HTypeOK
  <2>3. CASE Fetch(t) /\ stored[job[t].height] # NoBlock /\ UNCHANGED <<call, heap>>
    <3>1. [job[t] EXCEPT !.block = stored[job[t].height]] \in Job
      BY <1>0, <2>1 DEF Job, HTypeOK
    <3> QED
      BY <2>1, <2>3, <3>1 DEF Fetch, HTypeOK
  <2>4. CASE Populate(t) /\ BlockResult(t, job[t].block)
    <3>1. job[t].block \in Blocks \union {NoBlock}
      BY <1>0 DEF Job
    <3>2. call' \in [Threads -> Call] /\ heap' \subseteq Threads
      BY <1>0, <2>4, <3>1, BlockCall DEF HTypeOK
    <3> QED
      BY <2>1, <2>4, <3>1, <3>2, InsertKeepsType, ReturnKeepsType DEF Populate, HTypeOK
  <2> QED
    BY <1>8, <2>2, <2>3, <2>4 DEF ReadMissed
<1>9. CASE WriteBlock(t)
  <2> DEFINE h == call[t].height
             b == call[t].block
  <2>1. h \in Heights /\ b \in Blocks /\ UNCHANGED <<handle, alive, caching>>
    BY <1>0, <1>9 DEF WriteBlock, Entered, CallShape, HasHandle
  <2> HIDE DEF h, b
  <2>2. ASSUME stored' = [stored EXCEPT ![h] = b]
        PROVE  /\ stored' \in [Heights -> Blocks \union {NoBlock}]
               /\ Settle(h) => settled' \in [Heights -> Blocks \union {NoBlock}]
    BY <2>1, <2>2 DEF HTypeOK, Settle
  <2>3. CASE stored' = [stored EXCEPT ![h] = b] /\ Settle(h) /\ Result(t, "ok") /\ UNCHANGED <<cache, at, job>>
    BY <1>0, <2>1, <2>2, <2>3, ResultCall DEF HTypeOK
  <2>4. CASE WriteThrough(t, h, b) /\ call' = [call EXCEPT ![t].stage = "inside"] /\ UNCHANGED <<heap, settled>>
    BY <1>0, <2>1, <2>2, <2>4, InsideCall, StartKeepsType DEF WriteThrough, HTypeOK
  <2>5. CASE WriteFailsLate(t, h, b) /\ Settle(h) /\ ErrResult(t)
    BY <1>0, <2>1, <2>2, <2>5, ErrCall DEF WriteFailsLate, HTypeOK
  <2> QED
    BY <1>9, <2>3, <2>4, <2>5 DEF WriteBlock, h, b
<1>10. CASE WriteCached(t)
  <2>1. job[t].height \in Heights /\ job[t].block \in Blocks \union {NoBlock}
    BY <1>0, <1>10 DEF WriteCached, Inside, CallShape, Job
  <2> QED
    BY <1>0, <1>10, <2>1, ResultCall, InsertKeepsType, ReturnKeepsType
       DEF WriteCached, CacheWritten, HasHandle, HTypeOK
<1>11. CASE CallFails(t)
  BY <1>0, <1>11, ErrCall, ReturnKeepsType DEF CallFails, HasHandle, HTypeOK
<1>12. CASE CloseStore(t)
  BY <1>0, <1>12, ResultCall DEF CloseStore, HTypeOK
<1>13. CASE Answer(t)
  BY <1>13, AnsweredCall DEF Answer, Free, kvars, HTypeOK
<1>14. CASE End(t)
  BY <1>14, EndCall DEF End, HandleAfter, kvars, HTypeOK
<1> QED
  BY <1>1, <1>2, <1>3, <1>4, <1>5, <1>6, <1>7, <1>8, <1>9, <1>10, <1>11, <1>12, <1>13, <1>14 DEF Step

-----------------------------------------------------------------------------
(***************************************************************************)
(* The handle.  The steps of a call between its beginning and its end      *)
(* leave the handle alone, and all but those that open and close the store *)
(* leave the store where it is.                                            *)
(***************************************************************************)
Moves(t) ==
  /\ Others(t) /\ Kept(t)
  /\ call[t].stage # "none"
  /\ call'[t].stage \in {"inside", "returned", "answered"}
  /\ handle' = handle

(* Steps of Rust that leave the store itself alone. *)
Works(t) ==
  NullHandle(t) \/ ReadBlock(t) \/ ReadMissed(t) \/ WriteBlock(t) \/ WriteCached(t) \/ CallFails(t)

(* A step inside the library moves one call, and neither opens nor closes the store. *)
LEMMA WorkMoves ==
  ASSUME HTypeOK, Shape, NEW t \in Threads, Works(t)
  PROVE  /\ Moves(t) /\ call[t].stage \in {"entering", "inside"}
         /\ alive' = alive /\ caching' = caching
         /\ call'[t].tag = "ok" => call[t].op # "open" \/ call[t].tag = "ok"
         /\ call'[t].stage = "inside" => call[t].stage = "inside" \/ caching
<1> USE CachedStoreAssumption, HandleAssumption
<1>0. /\ call[t] \in Call /\ job[t] \in Job /\ CallShape(t)
      /\ "ok" \in Tags /\ "null" \in Tags /\ "none" \in Tags
  BY DEF HTypeOK, Shape, Tags
<1>1. CASE NullHandle(t)
  BY <1>0, <1>1, ResultCall DEF NullHandle, Moves
<1>2. CASE ReadBlock(t)
  <2> DEFINE h == call[t].height
  <2>1. h \in Heights /\ UNCHANGED <<handle, alive, caching>> /\ call[t].stage = "entering" /\ call[t].op = "read"
    BY <1>0, <1>2 DEF ReadBlock, Entered, CallShape, HasHandle
  <2>2. ASSUME NEW b \in Blocks \union {NoBlock}, BlockResult(t, b)
        PROVE  Others(t) /\ Kept(t) /\ call'[t].stage = "returned"
    BY <2>2, BlockCall
  <2>3. CASE caching /\ call' = [call EXCEPT ![t].stage = "inside"]
    BY <2>1, <2>3, InsideCall DEF Moves
  <2> QED
    BY <1>2, <2>1, <2>2, <2>3 DEF ReadBlock, Moves, HTypeOK
<1>3. CASE ReadMissed(t)
  <2>1. UNCHANGED <<handle, alive, caching>> /\ call[t].stage = "inside" /\ call[t].op = "read"
    BY <1>0, <1>3 DEF ReadMissed, Inside, HasHandle
  <2>2. job[t].block \in Blocks \union {NoBlock}
    BY <1>0 DEF Job
  <2>3. CASE Result(t, "none")
    BY <1>0, <2>1, <2>3, ResultCall DEF Moves
  <2>4. CASE call' = call
    BY <2>1, <2>4 DEF Moves, Others, Kept
  <2>5. CASE BlockResult(t, job[t].block)
    BY <2>1, <2>2, <2>5, BlockCall DEF Moves
  <2> QED
    BY <1>3, <2>3, <2>4, <2>5 DEF ReadMissed
<1>4. CASE WriteBlock(t)
  <2>1. UNCHANGED <<handle, alive, caching>> /\ call[t].stage = "entering" /\ call[t].op = "write"
    BY <1>0, <1>4 DEF WriteBlock, Entered, HasHandle
  <2>2. CASE Result(t, "ok")
    BY <1>0, <2>1, <2>2, ResultCall DEF Moves
  <2>3. CASE caching /\ call' = [call EXCEPT ![t].stage = "inside"]
    BY <2>1, <2>3, InsideCall DEF Moves
  <2>4. CASE ErrResult(t)
    BY <2>1, <2>4, ErrCall DEF Moves
  <2> QED
    BY <1>4, <2>2, <2>3, <2>4 DEF WriteBlock
<1>5. CASE WriteCached(t)
  BY <1>0, <1>5, ResultCall DEF WriteCached, Inside, HasHandle, Moves
<1>6. CASE CallFails(t)
  BY <1>0, <1>6, ErrCall DEF CallFails, HasHandle, Moves
<1> QED
  BY <1>1, <1>2, <1>3, <1>4, <1>5, <1>6 DEF Works

(* A call that moves without opening or closing keeps the handle's invariant. *)
LEMMA MoveKeepsHandle ==
  ASSUME HandleInv, NEW t \in Threads, Moves(t), UNCHANGED <<alive, caching>>,
         call'[t].tag = "ok" => call[t].op # "open" \/ call[t].tag = "ok",
         call'[t].stage = "inside" => call[t].stage = "inside" \/ caching
  PROVE  HandleInv'
<1>1. \A u \in Threads : call'[u].op = call[u].op
  BY DEF Moves, Others, Kept
<1>2. CloseAlone'
  BY <1>1 DEF HandleInv, CloseAlone
<1>3. Backed(t)'
  BY DEF HandleInv, Backed, Moves, Kept
<1>4. \A u \in Threads \ {t} : Backed(u)'
  BY DEF HandleInv, Backed, Moves, Others
<1>5. handle' # Nil => alive' \/ \E u \in Threads : call'[u].op = "close"
  BY <1>1 DEF HandleInv, Moves
<1> QED
  BY <1>2, <1>3, <1>4, <1>5 DEF HandleInv

(* Every step of a call keeps the handle's invariant, when Close waits for the other calls. *)
LEMMA StepKeepsHandle ==
  ASSUME Quiet, HTypeOK, Shape, HandleInv, NEW t \in Threads, Step(t)
  PROVE  HandleInv'
<1> USE CachedStoreAssumption, HandleAssumption
<1>0. /\ call[t] \in Call /\ "ok" \in Tags
      /\ \A u \in Threads : call[u].stage = "none" <=> call[u].op = "none"
  BY DEF HTypeOK, Shape, CallShape, Tags
<1>1. ASSUME NEW op \in {"read", "write", "open"}, NEW h \in Heights \union {NoBlock},
             NEW b \in Blocks \union {NoBlock}, MayCall, Begin(t, op, h, b)
      PROVE  HandleInv'
  <2>1. /\ \A u \in Threads : call[u].op # "close"
        /\ handle # Nil => alive
    BY <1>1 DEF MayCall, HandleInv
  <2>2. /\ Others(t) /\ UNCHANGED <<handle, alive, caching>>
        /\ call'[t].op = op /\ call'[t].stage = "entering" /\ call'[t].handle = handle /\ call'[t].tag = "none"
    BY <1>1, BeginCall DEF Ops
  <2> QED
    BY <2>1, <2>2 DEF HandleInv, CloseAlone, Backed, Others
<1>2. ASSUME BeginClose(t) PROVE HandleInv'
  <2>1. /\ \A u \in Threads : call[u].op = "none"
        /\ handle # Nil /\ Begin(t, "close", NoBlock, NoBlock)
    BY <1>0, <1>2 DEF BeginClose, MayClose
  <2>2. alive
    BY <2>1 DEF HandleInv
  <2>3. /\ Others(t) /\ UNCHANGED <<handle, alive, caching>>
        /\ call'[t].op = "close" /\ call'[t].stage = "entering"
    BY <2>1, BeginCall DEF Ops
  <2> QED
    BY <2>1, <2>2, <2>3 DEF HandleInv, CloseAlone, Backed, Others
<1>3. CASE \/ \E h \in Heights : BeginRead(t, h) \/ \E b \in Blocks : BeginWrite(t, h, b)
           \/ BeginOpen(t)
  BY <1>1, <1>3 DEF BeginRead, BeginWrite, BeginOpen
<1>4. CASE OpenStore(t)
  <2>1. call[t].op = "open" /\ call[t].stage = "entering" /\ handle' = handle
    BY <1>4 DEF OpenStore, Entered
  <2>2. CASE Result(t, "ok") /\ ~alive /\ alive' = TRUE
    <3>1. Others(t) /\ Kept(t) /\ call'[t].stage = "returned"
      BY <1>0, <2>2, ResultCall
    <3>2. \A u \in Threads : call'[u].op = call[u].op
      BY <3>1 DEF Others, Kept
    <3>3. \A u \in Threads : call[u].stage # "inside"
      BY <2>2 DEF HandleInv, Backed, Shape, CallShape
    <3>4. \A u \in Threads : Backed(u)'
      BY <2>2, <3>1, <3>3 DEF Backed, Others
    <3> QED
      BY <2>1, <2>2, <3>2, <3>4 DEF HandleInv, CloseAlone
  <2>3. CASE ErrResult(t) /\ UNCHANGED <<alive, caching>>
    BY <2>1, <2>3, ErrCall, MoveKeepsHandle DEF Moves
  <2> QED
    BY <1>4, <2>2, <2>3 DEF OpenStore
<1>5. CASE Works(t)
  BY <1>5, WorkMoves, MoveKeepsHandle
<1>6. CASE CloseStore(t)
  <2>1. call[t].op = "close" /\ Result(t, "ok") /\ UNCHANGED <<handle, caching>>
    BY <1>6 DEF CloseStore, Entered
  <2>2. Others(t) /\ call'[t].op = "close" /\ call'[t].stage = "returned"
    BY <1>0, <2>1, ResultCall DEF Kept
  <2>3. \A u \in Threads \ {t} : call'[u].op = "none" /\ call'[u].stage = "none"
    BY <1>0, <2>1, <2>2 DEF HandleInv, CloseAlone, Others
  <2>4. \A u \in Threads \ {t} : Backed(u)'
    BY <2>3 DEF Backed
  <2> QED
    BY <2>1, <2>2, <2>3, <2>4 DEF HandleInv, CloseAlone, Backed, Others
<1>7. CASE Answer(t)
  BY <1>7, AnsweredCall, MoveKeepsHandle DEF Answer, Moves
<1>8. CASE End(t)
  <2>1. /\ Others(t) /\ call'[t] = NoCall
        /\ UNCHANGED <<alive, caching>> /\ handle' = HandleAfter(t)
    BY <1>8, EndCall DEF End
  <2>2. call'[t].op = "none" /\ call'[t].stage = "none"
    BY <2>1 DEF NoCall
  <2>3. CloseAlone'
    BY <2>1, <2>2 DEF HandleInv, CloseAlone, Others
  <2>4. \A u \in Threads : Backed(u)'
    BY <2>1, <2>2 DEF HandleInv, Backed, Others
  <2>5. handle' # Nil => alive' \/ \E u \in Threads : call'[u].op = "close"
    BY <2>1 DEF HandleInv, Backed, Others, HandleAfter
  <2> QED
    BY <2>3, <2>4, <2>5 DEF HandleInv
<1> QED
  BY <1>2, <1>3, <1>4, <1>5, <1>6, <1>7, <1>8 DEF Step, Works

-----------------------------------------------------------------------------
(* The shape of the calls. *)

(* A step of one goroutine leaves the shape of the other calls alone. *)
LEMMA OthersKeepShape ==
  ASSUME Shape, NEW t \in Threads, Others(t),
         \A u \in Threads \ {t} : at'[u] = at[u] /\ job'[u] = job[u]
  PROVE  \A u \in Threads \ {t} : CallShape(u)'
BY DEF Shape, CallShape, Others

(* A call that is not inside the cached store holds no job. *)
LEMMA IdleCall ==
  ASSUME HTypeOK, Shape, NEW t \in Threads, Others(t), Kept(t),
         call[t].stage # "none", call'[t].stage \in {"returned", "answered"},
         \/ UNCHANGED <<at, job>> /\ call[t].stage # "inside"
         \/ Return(t)
  PROVE  Shape'
<1>1. CallShape(t)
  BY DEF Shape
<1>2. at'[t] = "idle" /\ job'[t] = NoJob
  BY <1>1 DEF Return, CallShape, HTypeOK
<1>3. CallShape(t)'
  BY <1>1, <1>2 DEF CallShape, Kept
<1>4. \A u \in Threads \ {t} : at'[u] = at[u] /\ job'[u] = job[u]
  BY DEF Return, HTypeOK
<1> QED
  BY <1>3, <1>4, OthersKeepShape DEF Shape

(* Every step keeps the shape of each call: which stage goes with which operation and tag. *)
LEMMA StepKeepsShape ==
  ASSUME HTypeOK, Shape, NEW t \in Threads, Step(t)
  PROVE  Shape'
<1> USE CachedStoreAssumption, HandleAssumption
<1>0. /\ call[t] \in Call /\ job[t] \in Job /\ CallShape(t)
      /\ "ok" \in Tags /\ "null" \in Tags /\ "none" \in Tags
  BY DEF HTypeOK, Shape, Tags
<1>1. ASSUME NEW op \in {"read", "write", "open", "close"}, NEW h \in Heights \union {NoBlock},
             NEW b \in Blocks \union {NoBlock}, Begin(t, op, h, b),
             op \in {"read", "write"} => h \in Heights, op = "write" => b \in Blocks
      PROVE  Shape'
  <2>1. /\ Others(t) /\ UNCHANGED <<at, job>> /\ call[t].stage = "none"
        /\ call'[t].op = op /\ call'[t].stage = "entering"
        /\ call'[t].height = h /\ call'[t].block = b
    BY <1>1, BeginCall DEF Ops
  <2>2. CallShape(t)'
    BY <1>0, <1>1, <2>1 DEF CallShape
  <2> QED
    BY <2>1, <2>2, OthersKeepShape DEF Shape
<1>2. CASE \/ \E h \in Heights : BeginRead(t, h) \/ \E b \in Blocks : BeginWrite(t, h, b)
           \/ BeginOpen(t) \/ BeginClose(t)
  BY <1>1, <1>2 DEF BeginRead, BeginWrite, BeginOpen, BeginClose
<1>3. CASE OpenStore(t)
  <2>1. call[t].op = "open" /\ call[t].stage = "entering" /\ UNCHANGED <<at, job>>
    BY <1>3 DEF OpenStore, Entered
  <2>2. CASE Result(t, "ok")
    BY <1>0, <2>1, <2>2, ResultCall, IdleCall
  <2>3. CASE ErrResult(t)
    BY <2>1, <2>3, ErrCall, IdleCall
  <2> QED
    BY <1>3, <2>2, <2>3 DEF OpenStore
<1>4. CASE NullHandle(t)
  BY <1>0, <1>4, ResultCall, IdleCall DEF NullHandle, kvars
<1>5. CASE ReadBlock(t)
  <2> DEFINE h == call[t].height
  <2>1. h \in Heights /\ call[t].stage = "entering"
        /\ call[t].op = "read" /\ call[t].handle # Nil
    BY <1>0, <1>5 DEF ReadBlock, Entered, CallShape, HasHandle
  <2>2. ASSUME NEW b \in Blocks \union {NoBlock}, BlockResult(t, b), UNCHANGED kvars PROVE Shape'
    BY <2>1, <2>2, BlockCall, IdleCall DEF kvars
  <2>3. CASE ReadMiss(t, h) /\ call' = [call EXCEPT ![t].stage = "inside"]
    <3>1. Others(t) /\ Kept(t) /\ call'[t].stage = "inside"
      BY <2>3, InsideCall
    <3>2. at'[t] = "fetch" /\ job'[t] = [height |-> h, block |-> NoBlock]
      BY <2>3 DEF ReadMiss, Start, HTypeOK
    <3>3. \A u \in Threads \ {t} : at'[u] = at[u] /\ job'[u] = job[u]
      BY <2>3 DEF ReadMiss, Start, HTypeOK
    <3>4. CallShape(t)'
      BY <1>0, <2>1, <2>3, <3>1, <3>2 DEF CallShape, Kept
    <3> QED
      BY <2>1, <3>1, <3>3, <3>4, OthersKeepShape DEF Shape
  <2> QED
    BY <1>5, <2>1, <2>2, <2>3 DEF ReadBlock, HTypeOK
<1>6. CASE ReadMissed(t)
  <2>1. job[t].height \in Heights /\ call[t].stage = "inside" /\ call[t].op = "read"
    BY <1>0, <1>6 DEF ReadMissed, Inside, CallShape, HasHandle
  <2>2. CASE Fetch(t) /\ stored[job[t].height] = NoBlock /\ Result(t, "none")
    BY <1>0, <2>1, <2>2, ResultCall, IdleCall DEF Fetch
  <2>3. CASE Fetch(t) /\ stored[job[t].height] # NoBlock /\ UNCHANGED call
    <3>1. at'[t] = "populate" /\ job'[t].height = job[t].height
      BY <1>0, <2>3 DEF Fetch, HTypeOK, Job
    <3>2. \A u \in Threads \ {t} : at'[u] = at[u] /\ job'[u] = job[u]
      BY <2>3 DEF Fetch, HTypeOK
    <3>3. CallShape(t)'
      BY <1>0, <2>1, <2>3, <3>1 DEF CallShape
    <3> QED
      BY <2>1, <2>3, <3>2, <3>3, OthersKeepShape DEF Shape, Others
  <2>4. CASE Populate(t) /\ BlockResult(t, job[t].block)
    <3>1. job[t].block \in Blocks \union {NoBlock}
      BY <1>0 DEF Job
    <3> QED
      BY <2>1, <2>4, <3>1, BlockCall, IdleCall DEF Populate
  <2> QED
    BY <1>6, <2>2, <2>3, <2>4 DEF ReadMissed
<1>7. CASE WriteBlock(t)
  <2> DEFINE h == call[t].height
             b == call[t].block
  <2>1. h \in Heights /\ b \in Blocks /\ call[t].stage = "entering"
        /\ call[t].op = "write" /\ call[t].handle # Nil
    BY <1>0, <1>7 DEF WriteBlock, Entered, CallShape, HasHandle
  <2>2. CASE Result(t, "ok") /\ UNCHANGED <<at, job>>
    BY <1>0, <2>1, <2>2, ResultCall, IdleCall
  <2>3. CASE WriteThrough(t, h, b) /\ call' = [call EXCEPT ![t].stage = "inside"]
    <3>1. Others(t) /\ Kept(t) /\ call'[t].stage = "inside"
      BY <2>3, InsideCall
    <3>2. at'[t] = "cache" /\ job'[t].height = h
      BY <2>3 DEF WriteThrough, Start, HTypeOK
    <3>3. \A u \in Threads \ {t} : at'[u] = at[u] /\ job'[u] = job[u]
      BY <2>3 DEF WriteThrough, Start, HTypeOK
    <3>4. CallShape(t)'
      BY <1>0, <2>1, <2>3, <3>1, <3>2 DEF CallShape, Kept
    <3> QED
      BY <2>1, <3>1, <3>3, <3>4, OthersKeepShape DEF Shape
  <2>4. CASE WriteFailsLate(t, h, b) /\ ErrResult(t)
    BY <2>1, <2>4, ErrCall, IdleCall DEF WriteFailsLate
  <2> QED
    BY <1>7, <2>2, <2>3, <2>4 DEF WriteBlock
<1>8. CASE WriteCached(t)
  BY <1>0, <1>8, ResultCall, IdleCall DEF WriteCached, CacheWritten, Inside, HasHandle
<1>9. CASE CallFails(t)
  BY <1>0, <1>9, ErrCall, IdleCall DEF CallFails, HasHandle
<1>10. CASE CloseStore(t)
  BY <1>0, <1>10, ResultCall, IdleCall DEF CloseStore, Entered
<1>11. CASE Answer(t)
  BY <1>11, AnsweredCall, IdleCall DEF Answer, kvars
<1>12. CASE End(t)
  <2>1. Others(t) /\ call'[t] = NoCall /\ UNCHANGED <<at, job>> /\ call[t].stage = "answered"
    BY <1>12, EndCall DEF End, kvars
  <2>2. CallShape(t)'
    BY <1>0, <2>1 DEF CallShape, NoCall
  <2> QED
    BY <2>1, <2>2, OthersKeepShape DEF Shape
<1> QED
  BY <1>2, <1>3, <1>4, <1>5, <1>6, <1>7, <1>8, <1>9, <1>10, <1>11, <1>12 DEF Step

-----------------------------------------------------------------------------
(* The buffers. *)

(* A step that neither allocates nor frees, of a call without a buffer, keeps the invariant of the buffers. *)
LEMMA NothingOwned ==
  ASSUME BufferInv, NEW t \in Threads, Others(t), heap' = heap,
         call[t].stage # "returned", call'[t].owned.ptr = Nil
  PROVE  BufferInv'
BY DEF BufferInv, BuffersReturned, Others

(* A call that comes back with a buffer of its own keeps the invariant of the buffers. *)
LEMMA SomethingOwned ==
  ASSUME BufferInv, NEW t \in Threads, Others(t), heap' = heap \union {t},
         call'[t].stage = "returned", call'[t].owned.ptr = Address
  PROVE  BufferInv'
BY DEF BufferInv, BuffersReturned, Others, Nil, Address

(* Every step keeps the buffers in step with the calls that own them. *)
LEMMA StepKeepsBuffers ==
  ASSUME HTypeOK, Shape, BufferInv, NEW t \in Threads, Step(t)
  PROVE  BufferInv'
<1> USE CachedStoreAssumption, HandleAssumption
<1>0. /\ call[t] \in Call /\ job[t] \in Job /\ CallShape(t)
      /\ "ok" \in Tags /\ "null" \in Tags /\ "none" \in Tags
      /\ call[t].stage # "returned" => call[t].owned.ptr = Nil
  BY DEF HTypeOK, Shape, Tags, BufferInv
<1>1. ASSUME NEW op \in {"read", "write", "open", "close"}, NEW h \in Heights \union {NoBlock},
             NEW b \in Blocks \union {NoBlock}, Begin(t, op, h, b)
      PROVE  BufferInv'
  <2>1. /\ Others(t) /\ heap' = heap /\ call[t].stage = "none" /\ call'[t].owned = NoBuffer
    BY <1>1, BeginCall DEF Ops
  <2> QED
    BY <2>1, NothingOwned DEF NoBuffer
<1>2. CASE \/ \E h \in Heights : BeginRead(t, h) \/ \E b \in Blocks : BeginWrite(t, h, b)
           \/ BeginOpen(t) \/ BeginClose(t)
  BY <1>1, <1>2 DEF BeginRead, BeginWrite, BeginOpen, BeginClose
<1>3. ASSUME NEW tag \in Tags, Result(t, tag), call[t].stage # "returned" PROVE BufferInv'
  BY <1>0, <1>3, ResultCall, NothingOwned
<1>4. ASSUME ErrResult(t) PROVE BufferInv'
  BY <1>4, ErrCall, SomethingOwned
<1>5. ASSUME NEW b \in Blocks \union {NoBlock}, BlockResult(t, b), call[t].stage # "returned"
      PROVE  BufferInv'
  BY <1>0, <1>5, BlockCall, NothingOwned, SomethingOwned
<1>6. ASSUME call' = [call EXCEPT ![t].stage = "inside"], heap' = heap, call[t].stage # "returned"
      PROVE  BufferInv'
  BY <1>0, <1>6, InsideCall, NothingOwned
<1>7. CASE OpenStore(t) \/ NullHandle(t) \/ CallFails(t) \/ CloseStore(t)
  BY <1>0, <1>3, <1>4, <1>7 DEF OpenStore, NullHandle, CallFails, CloseStore, Entered
<1>8. CASE ReadBlock(t)
  <2>1. call[t].height \in Heights /\ call[t].stage = "entering"
    BY <1>0, <1>8 DEF ReadBlock, Entered, CallShape
  <2>2. stored[call[t].height] \in Blocks \union {NoBlock} /\ cache[call[t].height] \in Blocks \union {NoBlock}
    BY <2>1 DEF HTypeOK
  <2> QED
    BY <1>5, <1>6, <1>8, <2>1, <2>2 DEF ReadBlock
<1>9. CASE ReadMissed(t)
  <2>1. call[t].stage = "inside" /\ job[t].block \in Blocks \union {NoBlock}
    BY <1>0, <1>9 DEF ReadMissed, Inside, Job
  <2>2. CASE UNCHANGED <<call, heap>>
    BY <2>2 DEF BufferInv, BuffersReturned
  <2> QED
    BY <1>0, <1>3, <1>5, <1>9, <2>1, <2>2 DEF ReadMissed
<1>10. CASE WriteBlock(t)
  BY <1>0, <1>3, <1>4, <1>6, <1>10 DEF WriteBlock, Entered
<1>11. CASE WriteCached(t)
  BY <1>0, <1>3, <1>11 DEF WriteCached, Inside
<1>12. CASE Answer(t)
  <2>1. Others(t) /\ call'[t].owned.ptr = Nil /\ Free(t)
    BY <1>12, AnsweredCall DEF Answer, NoBuffer
  <2> QED
    BY <2>1 DEF BufferInv, BuffersReturned, Others, Free
<1>13. CASE End(t)
  <2>1. Others(t) /\ call'[t].owned.ptr = Nil /\ heap' = heap /\ call[t].stage = "answered"
    BY <1>13, EndCall DEF End, NoCall, NoBuffer
  <2> QED
    BY <2>1, NothingOwned
<1> QED
  BY <1>2, <1>7, <1>8, <1>9, <1>10, <1>11, <1>12, <1>13 DEF Step

-----------------------------------------------------------------------------
(* The cache. *)

(* Returning from the cached store ends the job of one thread. *)
LEMMA ReturnFrame ==
  ASSUME HTypeOK, NEW t \in Threads, Return(t)
  PROVE  /\ at'[t] = "idle" /\ job'[t] = NoJob
         /\ \A u \in Threads \ {t} : at'[u] = at[u] /\ job'[u] = job[u]
BY DEF Return, HTypeOK

(* Entering the cached store moves one thread. *)
LEMMA StartFrame ==
  ASSUME HTypeOK, NEW t \in Threads, NEW p, NEW h, NEW b, Start(t, p, h, b)
  PROVE  /\ at[t] = "idle" /\ at'[t] = p /\ job'[t].height = h /\ job'[t].block = b
         /\ \A u \in Threads \ {t} : at'[u] = at[u] /\ job'[u] = job[u]
BY DEF Start, HTypeOK

(* Steps that leave the blocks alone, of a thread that is not writing. *)
LEMMA BlocksAlone ==
  ASSUME HTypeOK, CacheInv, NEW t \in Threads, at[t] # "cache",
         UNCHANGED <<stored, settled>>,
         \A u \in Threads \ {t} : at'[u] = at[u] /\ job'[u] = job[u],
         Carries(t)',
         \A h \in Heights : \/ cache'[h] = NoBlock
                            \/ cache'[h] = cache[h] /\ caching' = caching
                            \/ cache'[h] = stored[h] /\ caching'
  PROVE  CacheInv'
<1>1. \A u \in Threads : Carries(u)'
  BY DEF CacheInv, Carries
<1>2. ASSUME NEW h \in Heights PROVE CacheOf(h)'
  <2>1. CacheOf(h)
    BY DEF CacheInv
  <2>2. ASSUME NEW u \in Threads, Writing(u, h)
        PROVE  Writing(u, h)' /\ job'[u].block = job[u].block
    BY <2>2 DEF Writing
  <2>3. settled'[h] # stored'[h] => \E u \in Threads : Writing(u, h)'
    BY <2>1, <2>2 DEF CacheOf
  <2>4. cache'[h] \notin {NoBlock, stored'[h]} =>
          \E u \in Threads : Writing(u, h)' /\ job'[u].block \notin Oversize
    BY <2>1, <2>2 DEF CacheOf
  <2> QED
    BY <2>1, <2>3, <2>4 DEF CacheOf
<1> QED
  BY <1>1, <1>2 DEF CacheInv

(* An insertion sets its height, unless the block is too large, and may only evict others. *)
LEMMA InsertEffect ==
  ASSUME HTypeOK, NEW h \in Heights, NEW b, Insert(h, b)
  PROVE  /\ cache'[h] = IF b \in Oversize THEN cache[h] ELSE b
         /\ \A k \in Heights \ {h} : cache'[k] \in {NoBlock, cache[k]}
BY DEF Insert, InsertFitting, HTypeOK

(* Nobody is inside: nobody carries or writes anything. *)
LEMMA AllIdle ==
  ASSUME HTypeOK, Shape, HandleInv, ~caching, NEW t \in Threads
  PROVE  at[t] = "idle"
BY DEF Shape, CallShape, HandleInv, Backed

(* A height without a block has none in the cache either. *)
LEMMA NothingCached ==
  ASSUME HTypeOK, CacheInv, NEW h \in Heights, stored[h] = NoBlock
  PROVE  cache[h] = NoBlock /\ \A t \in Threads : at[t] \in {"populate", "cache"} => job[t].height # h
<1> USE CachedStoreAssumption
<1>1. \A t \in Threads : at[t] \in {"populate", "cache"} => job[t].height # h
  BY DEF CacheInv, Carries
<1> QED
  BY <1>1 DEF CacheInv, CacheOf, Writing

(* Every step keeps the cache right, when no two threads are on one height. *)
LEMMA StepKeepsCache ==
  ASSUME Careful, HTypeOK, Shape, HandleInv, CacheInv, NEW t \in Threads, Step(t)
  PROVE  CacheInv'
<1> USE CachedStoreAssumption, HandleAssumption
<1>0. /\ call[t] \in Call /\ job[t] \in Job /\ CallShape(t) /\ Backed(t) /\ Carries(t)
      /\ caching \in BOOLEAN
  BY DEF HTypeOK, Shape, HandleInv, CacheInv
<1>1. CASE UNCHANGED <<stored, cache, at, job, settled, caching>>
  BY <1>1 DEF CacheInv, Carries, CacheOf, Writing
<1>2. CASE \/ \E h \in Heights : BeginRead(t, h) \/ \E b \in Blocks : BeginWrite(t, h, b)
           \/ BeginOpen(t) \/ BeginClose(t)
  BY <1>1, <1>2 DEF BeginRead, BeginWrite, BeginOpen, BeginClose, Begin, kvars
<1>3. CASE NullHandle(t) \/ Answer(t) \/ End(t)
  BY <1>1, <1>3 DEF NullHandle, Answer, End, kvars
<1>4. CASE OpenStore(t) \/ CloseStore(t)
  <2>1. at[t] = "idle" /\ UNCHANGED <<stored, at, job, settled>>
    BY <1>0, <1>4 DEF OpenStore, CloseStore, Entered, CallShape
  <2>2. CASE cache' = [h \in Heights |-> NoBlock]
    BY <1>0, <2>1, <2>2, BlocksAlone DEF Carries
  <2>3. CASE UNCHANGED <<caching, cache>>
    BY <1>1, <2>1, <2>3
  <2> QED
    BY <1>4, <2>2, <2>3 DEF OpenStore, CloseStore
<1>5. CASE ReadBlock(t)
  <2>1. UNCHANGED <<settled, caching>> /\ call[t].height \in Heights
    BY <1>0, <1>5 DEF ReadBlock, Entered, HasHandle, CallShape
  <2>2. CASE UNCHANGED kvars
    BY <1>1, <2>1, <2>2 DEF kvars
  <2>3. CASE ReadMiss(t, call[t].height)
    <3>1. Start(t, "fetch", call[t].height, NoBlock) /\ UNCHANGED <<stored, cache>>
      BY <2>3 DEF ReadMiss
    <3>2. /\ at[t] = "idle" /\ at'[t] = "fetch"
          /\ \A u \in Threads \ {t} : at'[u] = at[u] /\ job'[u] = job[u]
      BY <3>1, StartFrame
    <3> QED
      BY <2>1, <3>1, <3>2, BlocksAlone DEF Carries
  <2> QED
    BY <1>5, <2>2, <2>3 DEF ReadBlock
<1>6. CASE ReadMissed(t)
  <2>1. UNCHANGED <<settled, caching>> /\ job[t].height \in Heights /\ caching
    BY <1>0, <1>6 DEF ReadMissed, Inside, HasHandle, CallShape, Backed
  <2>2. CASE Fetch(t) /\ stored[job[t].height] = NoBlock
    <3>1. at[t] = "fetch" /\ Return(t) /\ UNCHANGED <<stored, cache>>
      BY <2>2 DEF Fetch
    <3> QED
      BY <2>1, <3>1, ReturnFrame, BlocksAlone DEF Carries
  <2>3. CASE Fetch(t) /\ stored[job[t].height] # NoBlock
    <3>1. /\ at[t] = "fetch" /\ UNCHANGED <<stored, cache>>
          /\ job'[t].block = stored[job[t].height] /\ job'[t].height = job[t].height
          /\ \A u \in Threads \ {t} : at'[u] = at[u] /\ job'[u] = job[u]
      BY <1>0, <2>3 DEF Fetch, HTypeOK, Job
    <3>2. Carries(t)'
      BY <2>1, <2>3, <3>1 DEF Carries, HTypeOK
    <3> QED
      BY <2>1, <3>1, <3>2, BlocksAlone
  <2>4. CASE Populate(t)
    <3>1. /\ at[t] = "populate" /\ Return(t) /\ Insert(job[t].height, job[t].block)
          /\ UNCHANGED stored /\ job[t].block = stored[job[t].height]
      BY <1>0, <2>4 DEF Populate, Carries
    <3>2. /\ cache'[job[t].height] \in {cache[job[t].height], stored[job[t].height]}
          /\ \A k \in Heights \ {job[t].height} : cache'[k] \in {NoBlock, cache[k]}
      BY <2>1, <3>1, InsertEffect
    <3>3. Carries(t)' /\ \A u \in Threads \ {t} : at'[u] = at[u] /\ job'[u] = job[u]
      BY <3>1, ReturnFrame DEF Carries
    <3>4. \A h \in Heights : \/ cache'[h] = NoBlock
                             \/ cache'[h] = cache[h] /\ caching' = caching
                             \/ cache'[h] = stored[h] /\ caching'
      BY <2>1, <3>2
    <3> QED
      BY <2>1, <3>1, <3>3, <3>4, BlocksAlone
  <2> QED
    BY <1>6, <2>2, <2>3, <2>4 DEF ReadMissed
<1>7. CASE WriteBlock(t)
  <2>0. call[t].height \in Heights /\ call[t].block \in Blocks
    BY <1>0, <1>7 DEF WriteBlock, Entered, CallShape
  <2>1. PICK h \in Heights, b \in Blocks :
          h = call[t].height /\ b = call[t].block /\ caching' = caching /\ at[t] = "idle"
    BY <1>0, <1>7, <2>0 DEF WriteBlock, Entered, CallShape, HasHandle
  <2>2. CASE /\ ~caching /\ stored' = [stored EXCEPT ![h] = b] /\ Settle(h)
             /\ UNCHANGED <<cache, at, job>>
    <3>1. \A u \in Threads : at[u] = "idle"
      BY <2>2, AllIdle
    <3>2. \A k \in Heights : settled'[k] = stored'[k]
      BY <2>1, <2>2, <3>1 DEF Settle, HTypeOK, CacheInv, CacheOf, Writing
    <3>3. \A k \in Heights : cache'[k] = NoBlock
      BY <2>2 DEF CacheInv, CacheOf
    <3> QED
      BY <2>1, <2>2, <3>1, <3>2, <3>3 DEF CacheInv, CacheOf, Carries
  <2>3. CASE /\ caching /\ WriteThrough(t, h, b) /\ UNCHANGED settled
    <3>1. /\ MayWrite(h, b) /\ stored' = [stored EXCEPT ![h] = b] /\ UNCHANGED cache
          /\ at'[t] = "cache" /\ job'[t].height = h /\ job'[t].block = b
          /\ \A u \in Threads \ {t} : at'[u] = at[u] /\ job'[u] = job[u]
      BY <2>3, StartFrame DEF WriteThrough
    <3>2. /\ stored'[h] = b /\ \A k \in Heights \ {h} : stored'[k] = stored[k]
      BY <2>1, <3>1 DEF HTypeOK
    <3>3. \A u \in Threads : at[u] \in {"populate", "cache"} => job[u].height # h
      BY <2>1, <3>1, NothingCached DEF MayWrite
    <3>4. cache[h] = NoBlock \/ (cache[h] = settled[h] /\ b \notin Oversize)
      <4>1. CASE stored[h] = NoBlock
        BY <2>1, <4>1, NothingCached
      <4>2. CASE stored[h] # NoBlock
        BY <2>1, <3>1, <3>3, <4>2 DEF MayWrite, CacheInv, CacheOf, Writing
      <4> QED
        BY <4>1, <4>2
    <3>5. ASSUME NEW u \in Threads PROVE Carries(u)'
      <4>1. CASE u = t
        BY <2>1, <3>1, <3>2, <4>1 DEF Carries
      <4>2. CASE u # t /\ at[u] \in {"populate", "cache"}
        <5>1. job[u].height \in Heights \ {h}
          BY <3>3, <4>2 DEF Shape, CallShape
        <5> QED
          BY <3>1, <3>2, <4>2, <5>1 DEF CacheInv, Carries
      <4>3. CASE u # t /\ at[u] \notin {"populate", "cache"}
        BY <3>1, <4>3 DEF Carries
      <4> QED
        BY <4>1, <4>2, <4>3
    <3>6. CacheOf(h)'
      BY <2>1, <2>3, <3>1, <3>2, <3>4 DEF CacheOf, Writing
    <3>7. ASSUME NEW k \in Heights \ {h} PROVE CacheOf(k)'
      <4>1. CacheOf(k) /\ UNCHANGED <<stored[k], cache[k], settled[k], caching>>
        BY <2>1, <2>3, <3>1, <3>2 DEF CacheInv
      <4>2. ASSUME NEW u \in Threads, Writing(u, k)
            PROVE  Writing(u, k)' /\ job'[u].block = job[u].block
        BY <2>1, <3>1, <4>2 DEF Writing
      <4> QED
        BY <4>1, <4>2 DEF CacheOf
    <3> QED
      BY <3>5, <3>6, <3>7 DEF CacheInv
  <2>4. CASE WriteFailsLate(t, h, b) /\ Settle(h)
    <3>1. stored[h] = NoBlock /\ stored' = [stored EXCEPT ![h] = b] /\ UNCHANGED <<cache, at, job>>
      BY <2>4 DEF WriteFailsLate
    <3>2. cache[h] = NoBlock /\ \A u \in Threads : at[u] \in {"populate", "cache"} => job[u].height # h
      BY <2>1, <3>1, NothingCached
    <3>3. /\ stored'[h] = b /\ settled'[h] = b
          /\ \A k \in Heights \ {h} : stored'[k] = stored[k] /\ settled'[k] = settled[k]
      BY <2>1, <2>4, <3>1 DEF HTypeOK, Settle
    <3>4. ASSUME NEW u \in Threads PROVE Carries(u)'
      <4>1. at[u] \in {"populate", "cache"} => job[u].height \in Heights \ {h}
        BY <3>2 DEF Shape, CallShape
      <4> QED
        BY <3>1, <3>3, <4>1 DEF CacheInv, Carries
    <3>5. CacheOf(h)'
      BY <3>1, <3>2, <3>3 DEF CacheOf
    <3>6. ASSUME NEW k \in Heights \ {h} PROVE CacheOf(k)'
      BY <2>1, <3>1, <3>3 DEF CacheInv, CacheOf, Writing
    <3> QED
      BY <3>4, <3>5, <3>6 DEF CacheInv
  <2> QED
    BY <1>7, <2>1, <2>2, <2>3, <2>4 DEF WriteBlock
<1>8. CASE WriteCached(t)
  <2>0. /\ job[t].height \in Heights /\ caching' = caching /\ caching /\ at[t] = "cache"
        /\ job[t].block \in Blocks /\ job[t].block = stored[job[t].height] /\ UNCHANGED stored
    BY <1>0, <1>8 DEF WriteCached, CacheWritten, Inside, CallShape, HasHandle, Backed, Carries
  <2>1. PICK h \in Heights, b \in Blocks :
          /\ h = job[t].height /\ b = job[t].block /\ b = stored[h]
          /\ Insert(h, b) /\ Return(t) /\ settled' = [settled EXCEPT ![h] = b]
    BY <1>8, <2>0 DEF WriteCached, CacheWritten
  <2>2. /\ at'[t] = "idle"
        /\ \A u \in Threads \ {t} : at'[u] = at[u] /\ job'[u] = job[u]
    BY <2>1, ReturnFrame
  <2>3. /\ cache'[h] = IF b \in Oversize THEN cache[h] ELSE b
        /\ \A k \in Heights \ {h} : cache'[k] \in {NoBlock, cache[k]}
    BY <2>1, InsertEffect
  <2>4. /\ settled'[h] = b /\ \A k \in Heights \ {h} : settled'[k] = settled[k]
    BY <2>1 DEF HTypeOK
  <2>5. \A u \in Threads : Carries(u)'
    BY <2>0, <2>2 DEF CacheInv, Carries
  <2>6. cache'[h] \in {NoBlock, stored[h]}
    <3>1. CASE b \in Oversize
      <4>1. \A u \in Threads : Writing(u, h) => job[u].block = b
        BY <2>1 DEF Writing, CacheInv, Carries
      <4> QED
        BY <2>1, <2>3, <3>1, <4>1 DEF CacheInv, CacheOf
    <3> QED
      BY <2>1, <2>3, <3>1
  <2>7. CacheOf(h)'
    BY <2>0, <2>1, <2>4, <2>6 DEF CacheOf
  <2>8. ASSUME NEW k \in Heights \ {h} PROVE CacheOf(k)'
    <3>1. CacheOf(k) /\ UNCHANGED <<stored[k], settled[k], caching>> /\ cache'[k] \in {NoBlock, cache[k]}
      BY <2>0, <2>1, <2>3, <2>4 DEF CacheInv
    <3>2. ASSUME NEW u \in Threads, Writing(u, k)
          PROVE  Writing(u, k)' /\ job'[u].block = job[u].block
      BY <2>1, <2>2, <3>2 DEF Writing
    <3> QED
      BY <3>1, <3>2 DEF CacheOf
  <2> QED
    BY <2>5, <2>7, <2>8 DEF CacheInv
<1>9. CASE CallFails(t)
  <2>1. UNCHANGED <<stored, cache, settled, caching>>
    BY <1>9 DEF CallFails, HasHandle
  <2>2. CASE UNCHANGED <<at, job>>
    BY <1>1, <2>1, <2>2
  <2>3. CASE at[t] = "fetch" /\ Return(t)
    BY <2>1, <2>3, ReturnFrame, BlocksAlone DEF Carries
  <2> QED
    BY <1>9, <2>2, <2>3 DEF CallFails
<1> QED
  BY <1>2, <1>3, <1>4, <1>5, <1>6, <1>7, <1>8, <1>9 DEF Step

-----------------------------------------------------------------------------
(* What a read has seen. *)

(* What a read may answer only grows while the call is under way. *)
LEMMA ObserveGrows ==
  ASSUME Observe, NEW t \in Threads, call'[t].op = "read"
  PROVE  /\ seen[t] \subseteq seen'[t]
         /\ {stored'[call'[t].height], settled'[call'[t].height]} \subseteq seen'[t]
BY DEF Observe

(* A read keeps what it has in hand current, as long as the histories grow only. *)
LEMMA OthersKeepSeen ==
  ASSUME Observe, SeenInv, NEW t \in Threads, Others(t),
         call'[t].op = "read" => InHand(call'[t], seen'[t])
  PROVE  SeenInv'
<1>1. ASSUME NEW u \in Threads, call'[u].op = "read" PROVE InHand(call'[u], seen'[u])
  <2>1. CASE u = t
    BY <1>1, <2>1
  <2>2. CASE u # t
    <3>1. call'[u] = call[u] /\ InHand(call[u], seen[u]) /\ seen[u] \subseteq seen'[u]
      BY <1>1, <2>2, ObserveGrows DEF Others, SeenInv
    <3> QED
      BY <3>1 DEF InHand
  <2> QED
    BY <2>1, <2>2
<1> QED
  BY <1>1, ObserveGrows DEF SeenInv

(* Every step keeps the blocks in hand current. *)
LEMMA StepKeepsSeen ==
  ASSUME HTypeOK, Shape, HandleInv, BufferInv, CacheInv, SeenInv, NEW t \in Threads, Step(t), Observe
  PROVE  SeenInv'
<1> USE CachedStoreAssumption, HandleAssumption
<1>0. /\ call[t] \in Call /\ job[t] \in Job /\ CallShape(t) /\ Carries(t)
      /\ "ok" \in Tags /\ "null" \in Tags /\ "none" \in Tags
      /\ call[t].stage # "returned" => call[t].owned.ptr = Nil
  BY DEF HTypeOK, Shape, Tags, BufferInv, CacheInv
<1>1. ASSUME NEW op \in {"read", "write", "open", "close"}, NEW h \in Heights \union {NoBlock},
             NEW b \in Blocks \union {NoBlock}, Begin(t, op, h, b)
      PROVE  SeenInv'
  <2>1. Others(t) /\ call'[t].stage = "entering"
    BY <1>1, BeginCall DEF Ops
  <2> QED
    BY <2>1, OthersKeepSeen DEF InHand
<1>2. CASE \/ \E h \in Heights : BeginRead(t, h) \/ \E b \in Blocks : BeginWrite(t, h, b)
           \/ BeginOpen(t) \/ BeginClose(t)
  BY <1>1, <1>2 DEF BeginRead, BeginWrite, BeginOpen, BeginClose
<1>3. ASSUME call[t].op # "read", Moves(t) PROVE SeenInv'
  BY <1>3, OthersKeepSeen DEF Moves, Kept
<1>4. CASE OpenStore(t)
  <2>1. Others(t) /\ Kept(t) /\ call[t].op = "open"
    BY <1>0, <1>4, ResultCall, ErrCall DEF OpenStore, Entered
  <2> QED
    BY <2>1, OthersKeepSeen DEF Kept
<1>5. CASE NullHandle(t)
  <2>1. Others(t) /\ call'[t].stage = "returned" /\ call'[t].tag = "null"
    BY <1>0, <1>5, ResultCall DEF NullHandle
  <2> QED
    BY <2>1, OthersKeepSeen DEF InHand
(* A block that was in the store, or in the cache, is handed out. *)
<1>6. ASSUME call[t].op = "read", call[t].stage # "returned",
             NEW b \in Blocks \union {NoBlock}, BlockResult(t, b), b \in seen[t]
      PROVE  SeenInv'
  <2>1. /\ Others(t) /\ Kept(t) /\ call'[t].stage = "returned"
        /\ b = NoBlock => call'[t].tag = "none"
        /\ b # NoBlock => call'[t].tag = "some" /\ call'[t].owned.ptr = Address /\ call'[t].owned.data = b
    BY <1>6, BlockCall
  <2>2. b \in seen'[t]
    BY <1>6, <2>1, ObserveGrows DEF Kept
  <2>3. InHand(call'[t], seen'[t])
    BY <2>1, <2>2 DEF InHand, CopiedBytes, Address, Nil
  <2> QED
    BY <2>1, <2>3, OthersKeepSeen
<1>7. CASE ReadBlock(t)
  <2> DEFINE h == call[t].height
  <2>1. h \in Heights /\ call[t].stage = "entering" /\ call[t].op = "read"
    BY <1>0, <1>7 DEF ReadBlock, Entered, CallShape
  <2>2. stored[h] \in seen[t] /\ settled[h] \in seen[t]
    BY <2>1 DEF SeenInv
  <2>3. /\ stored[h] \in Blocks \union {NoBlock} /\ cache[h] \in Blocks \union {NoBlock}
        /\ cache[h] \in {NoBlock, stored[h], settled[h]}
    BY <2>1 DEF HTypeOK, CacheInv, CacheOf
  <2>4. CASE call' = [call EXCEPT ![t].stage = "inside"]
    BY <2>4, InsideCall, OthersKeepSeen DEF InHand
  <2> QED
    BY <1>6, <1>7, <2>1, <2>2, <2>3, <2>4 DEF ReadBlock
<1>8. CASE ReadMissed(t)
  <2> DEFINE h == job[t].height
  <2>1. h \in Heights /\ call[t].stage = "inside" /\ call[t].op = "read" /\ h = call[t].height
    BY <1>0, <1>8 DEF ReadMissed, Inside, CallShape
  <2>2. stored[h] \in seen[t]
    BY <2>1 DEF SeenInv
  <2>3. CASE stored[h] = NoBlock /\ Result(t, "none")
    <3>1. BlockResult(t, NoBlock)
      BY <2>3 DEF BlockResult
    <3> QED
      BY <1>6, <2>1, <2>2, <2>3, <3>1
  <2>4. CASE call' = call
    BY <2>1, <2>4, OthersKeepSeen DEF InHand, Others
  <2>5. CASE Populate(t) /\ BlockResult(t, job[t].block)
    <3>1. job[t].block \in Blocks /\ job[t].block = stored[h]
      BY <1>0, <2>5 DEF Populate, Carries
    <3> QED
      BY <1>6, <2>1, <2>2, <2>5, <3>1
  <2> QED
    BY <1>8, <2>3, <2>4, <2>5 DEF ReadMissed
<1>9. CASE WriteBlock(t) \/ WriteCached(t)
  <2>1. Moves(t) /\ call[t].op = "write"
    BY <1>9, WorkMoves DEF Works, WriteBlock, WriteCached, Entered, Inside
  <2> QED
    BY <1>3, <2>1
<1>10. CASE CallFails(t)
  <2>1. Others(t) /\ call'[t].stage = "returned" /\ call'[t].tag = "err"
    BY <1>10, ErrCall DEF CallFails
  <2> QED
    BY <2>1, OthersKeepSeen DEF InHand
<1>11. CASE CloseStore(t)
  <2>1. Others(t) /\ Kept(t) /\ call[t].op = "close"
    BY <1>0, <1>11, ResultCall DEF CloseStore, Entered
  <2> QED
    BY <2>1, OthersKeepSeen DEF Kept
<1>12. CASE Answer(t)
  <2>1. /\ Others(t) /\ Kept(t) /\ call[t].stage = "returned" /\ call'[t].stage = "answered"
        /\ call'[t].answer = AnswerOf(call[t])
    BY <1>12, AnsweredCall DEF Answer
  <2>2. ASSUME call'[t].op = "read" PROVE InHand(call'[t], seen'[t])
    <3>1. InHand(call[t], seen[t]) /\ seen[t] \subseteq seen'[t]
      BY <2>1, <2>2, ObserveGrows DEF Kept, SeenInv
    <3>2. AnswerOf(call[t]) \in seen[t] \union {Failure}
      BY <2>1, <3>1 DEF InHand, AnswerOf
    <3> QED
      BY <2>1, <3>1, <3>2 DEF InHand
  <2> QED
    BY <2>1, <2>2, OthersKeepSeen
<1>13. CASE End(t)
  BY <1>13, EndCall, OthersKeepSeen DEF NoCall
<1> QED
  BY <1>2, <1>4, <1>5, <1>7, <1>8, <1>9, <1>10, <1>11, <1>12, <1>13 DEF Step

-----------------------------------------------------------------------------
(* The initial state, and the invariants of the specification. *)

(* The invariant holds before the first call. *)
LEMMA InitInv ==
  ASSUME HInit
  PROVE  HInv
<1> USE CachedStoreAssumption, HandleAssumption
<1>1. NoCall \in Call /\ NoJob \in Job
  BY DEF NoCall, NoJob, Job, Call, Buffer, NoBuffer, Ops, Stages, Tags, Answers
<1>2. /\ NoCall.op = "none" /\ NoCall.stage = "none" /\ NoCall.handle = Nil
      /\ NoCall.owned.ptr = Nil
  BY DEF NoCall, NoBuffer
<1>3. HTypeOK
  BY <1>1 DEF HInit, Init, HTypeOK
<1>4. Shape
  BY <1>2 DEF HInit, Init, Shape, CallShape
<1>5. HandleInv
  BY <1>2 DEF HInit, HandleInv, CloseAlone, Backed
<1>6. BufferInv
  BY <1>2 DEF HInit, BufferInv, BuffersReturned
<1>7. CacheInv
  BY DEF HInit, Init, CacheInv, CacheOf, Carries
<1>8. SeenInv
  BY <1>2 DEF HInit, SeenInv
<1> QED
  BY <1>3, <1>4, <1>5, <1>6, <1>7, <1>8 DEF HInv

(***************************************************************************)
(* Type correctness, and the buffers, whatever the callers do: every       *)
(* buffer that came out of Rust is in the hands of exactly one call until  *)
(* that call frees it.                                                     *)
(***************************************************************************)
THEOREM HandleBuffersReturned == HSpec => []BuffersReturned
<1> DEFINE I == HTypeOK /\ Shape /\ BufferInv
<1>1. HInit => I
  BY InitInv DEF HInv
<1>2. I /\ [HNext]_hvars => I'
  <2> SUFFICES ASSUME I, [HNext]_hvars PROVE I'
    OBVIOUS
  <2>1. ASSUME NEW t \in Threads, Step(t) PROVE I'
    BY <2>1, StepKeepsType, StepKeepsShape, StepKeepsBuffers
  <2>2. CASE UNCHANGED hvars
    BY <2>2 DEF hvars, kvars, HTypeOK, Shape, CallShape, BufferInv, BuffersReturned
  <2> QED
    BY <2>1, <2>2 DEF HNext
<1>3. I => BuffersReturned
  BY DEF BufferInv
<1> QED
  BY <1>1, <1>2, <1>3, PTL DEF HSpec

(***************************************************************************)
(* When Close is not called while another call is on its way, a call that  *)
(* has a handle has a store behind it, however the opens, the closes and   *)
(* the other calls of any number of goroutines interleave.                 *)
(***************************************************************************)
THEOREM QuietHandleLive == Quiet => (HSpec => []HandleLive)
<1> SUFFICES ASSUME Quiet PROVE HSpec => []HandleLive
  OBVIOUS
<1> DEFINE I == HTypeOK /\ Shape /\ HandleInv
<1>1. HInit => I
  BY InitInv DEF HInv
<1>2. I /\ [HNext]_hvars => I'
  <2> SUFFICES ASSUME I, [HNext]_hvars PROVE I'
    OBVIOUS
  <2>1. ASSUME NEW t \in Threads, Step(t) PROVE I'
    BY <2>1, StepKeepsType, StepKeepsShape, StepKeepsHandle
  <2>2. CASE UNCHANGED hvars
    BY <2>2 DEF hvars, kvars, HTypeOK, Shape, CallShape, HandleInv, CloseAlone, Backed
  <2> QED
    BY <2>1, <2>2 DEF HNext
<1>3. I => HandleLive
  BY DEF HandleLive, HandleInv, Backed, Shape, CallShape
<1> QED
  BY <1>1, <1>2, <1>3, PTL DEF HSpec

(***************************************************************************)
(* The whole invariant, when the callers also keep the discipline of       *)
(* MayWrite.                                                               *)
(***************************************************************************)
THEOREM HInvAlways == Careful /\ Quiet => (HSpec => []HInv)
<1> SUFFICES ASSUME Careful, Quiet PROVE HSpec => []HInv
  OBVIOUS
<1>1. HInit => HInv
  BY InitInv
<1>2. HInv /\ [HNext]_hvars => HInv'
  <2> SUFFICES ASSUME HInv, [HNext]_hvars PROVE HInv'
    OBVIOUS
  <2>1. ASSUME NEW t \in Threads, Step(t), Observe PROVE HInv'
    BY <2>1, StepKeepsType, StepKeepsShape, StepKeepsHandle, StepKeepsBuffers, StepKeepsCache,
       StepKeepsSeen DEF HInv
  <2>2. CASE UNCHANGED hvars
    BY <2>2 DEF hvars, kvars, HInv, HTypeOK, Shape, CallShape, HandleInv, CloseAlone, Backed,
                BufferInv, BuffersReturned, CacheInv, CacheOf, Carries, Writing, SeenInv, InHand
  <2> QED
    BY <2>1, <2>2 DEF HNext
<1> QED
  BY <1>1, <1>2, PTL DEF HSpec

(***************************************************************************)
(* CachedStore: the cache holds nothing for a height that nobody works on, *)
(* or what the store holds, through any number of concurrent misses,       *)
(* writes, evictions, refused inserts, failures and re-openings.           *)
(***************************************************************************)
THEOREM CarefulCoherent == Careful /\ Quiet => (HSpec => []Coherent)
<1>1. HInv => Coherent
  BY DEF HInv, CacheInv, CacheOf, Writing, Coherent
<1> QED
  BY <1>1, HInvAlways, PTL

(***************************************************************************)
(* ReadBlock answers what its height held at some instant of the call.     *)
(***************************************************************************)
THEOREM CarefulReadCurrent == Careful /\ Quiet => (HSpec => []ReadCurrent)
<1>1. HInv => ReadCurrent
  BY DEF HInv, SeenInv, InHand, ReadCurrent
<1> QED
  BY <1>1, HInvAlways, PTL

=============================================================================
