------------------------------- MODULE Handle -------------------------------
(***************************************************************************)
(* A store as a Go program has it (blockstore-ffi): a Store object whose   *)
(* handle points to a Rust Store, with the read cache or without, and the  *)
(* buffers that carry blocks and error messages out of Rust and are to be  *)
(* given back.  Goroutines call ReadBlock, WriteBlock and Close; a call    *)
(* loads the handle, goes into Rust, where it takes the steps of           *)
(* CachedStore, comes out with a result (NullHandlePointer, Ok, None,      *)
(* Some or Err), and copies and frees the buffer in it.  One object is     *)
(* used at a time; when it is closed another one may be opened on the same *)
(* directory.                                                              *)
(***************************************************************************)
EXTENDS CachedStore

CONSTANTS
  Failure,  \* a Go error
  Quiet     \* TRUE: Close is not called while another call is on its way

ASSUME HandleAssumption == Failure \notin Blocks /\ Quiet \in BOOLEAN

VARIABLES
  handle,   \* s.handle: nil or the address of the store
  alive,    \* the Rust Store is not dropped
  caching,  \* it is Inner::Cached
  call,     \* call[t]: the call of goroutine t
  heap,     \* the goroutines whose OwnedBytes are allocated
  settled,  \* settled[h]: what h held when the last write of it returned
  seen      \* seen[t]: what its height held at some time during the call

hvars == <<kvars, handle, alive, caching, call, heap, settled, seen>>

Nil == "nil"
Address == "address"

NoBuffer == [ptr |-> Nil, data |-> NoBlock]

NoCall == [op |-> "none", stage |-> "none", height |-> NoBlock, block |-> NoBlock,
           handle |-> Nil, tag |-> "none", owned |-> NoBuffer, answer |-> NoBlock]

HInit ==
  /\ Init
  /\ handle = Nil /\ alive = FALSE /\ caching = FALSE
  /\ call = [t \in Threads |-> NoCall]
  /\ heap = {}
  /\ settled = [h \in Heights |-> NoBlock]
  /\ seen = [t \in Threads |-> {}]

-----------------------------------------------------------------------------
(* Results. *)

(* From<Box<[T]>>: the bytes are leaked to the caller. *)
OwnedFrom(data) == [ptr |-> Address, data |-> data]

(* The call comes out of Rust, with a result that owns no buffer, ... *)
Result(t, tag) ==
  /\ call' = [call EXCEPT ![t].stage = "returned", ![t].tag = tag]
  /\ UNCHANGED heap

(* ... or one that does: a block, or the message of an error or a panic. *)
ResultOwning(t, tag, data) ==
  /\ call' = [call EXCEPT ![t].stage = "returned", ![t].tag = tag, ![t].owned = OwnedFrom(data)]
  /\ heap' = heap \union {t}

BlockResult(t, b) == IF b = NoBlock THEN Result(t, "none") ELSE ResultOwning(t, "some", b)

ErrResult(t) == ResultOwning(t, "err", Failure)

(* CopiedBytes *)
CopiedBytes(owned) == IF owned.ptr = Nil THEN NoBlock ELSE owned.data

(* Free: nothing to do for a nil pointer. *)
Free(t) == heap' = IF call[t].owned.ptr = Nil THEN heap ELSE heap \ {t}

-----------------------------------------------------------------------------
(* The calls of a goroutine. *)

MayCall == Quiet => \A t \in Threads : call[t].op # "close"
MayClose == Quiet => \A t \in Threads : call[t].stage = "none"

Begin(t, op, h, b) ==
  /\ call[t].stage = "none"
  /\ call' = [call EXCEPT ![t] = [NoCall EXCEPT !.op = op, !.stage = "entering", !.height = h,
                                                !.block = b, !.handle = handle]]
  /\ UNCHANGED <<kvars, handle, alive, caching, heap, settled>>

BeginRead(t, h) == MayCall /\ Begin(t, "read", h, NoBlock)
BeginWrite(t, h, b) == MayCall /\ Begin(t, "write", h, b)
BeginClose(t) == MayClose /\ handle # Nil /\ Begin(t, "close", NoBlock, NoBlock)

(***************************************************************************)
(* OpenRustStore, in one step up to its result: with a cache or without.   *)
(* The lock of a store that is open refuses a second one, and other errors *)
(* may happen.                                                             *)
(***************************************************************************)
BeginOpen(t) == handle = Nil /\ MayCall /\ Begin(t, "open", NoBlock, NoBlock)

Entered(t, op) == call[t].op = op /\ call[t].stage = "entering"
Inside(t, op) == call[t].op = op /\ call[t].stage = "inside"

OpenStore(t) ==
  /\ Entered(t, "open")
  /\ \/ /\ ~alive
        /\ alive' = TRUE
        /\ caching' \in BOOLEAN
        /\ cache' = [h \in Heights |-> NoBlock]
        /\ Result(t, "ok")
     \/ ErrResult(t) /\ UNCHANGED <<alive, caching, cache>>
  /\ UNCHANGED <<stored, at, job, handle, settled>>

(* invoke_with_handle: the handle is null. *)
NullHandle(t) ==
  /\ call[t].stage = "entering" /\ call[t].op # "open"
  /\ call[t].handle = Nil
  /\ Result(t, "null")
  /\ UNCHANGED <<kvars, handle, alive, caching, settled>>

HasHandle(t) == call[t].handle # Nil /\ UNCHANGED <<handle, alive, caching>>

(* bs_read_block: Store::read_block, or CachedStore::read_block with a hit, ... *)
ReadBlock(t) ==
  /\ Entered(t, "read") /\ HasHandle(t)
  /\ LET h == call[t].height IN
       \/ ~caching /\ BlockResult(t, stored[h]) /\ UNCHANGED kvars
       \/ caching /\ cache[h] # NoBlock /\ BlockResult(t, cache[h]) /\ UNCHANGED kvars
       \/ /\ caching /\ ReadMiss(t, h)
          /\ call' = [call EXCEPT ![t].stage = "inside"] /\ UNCHANGED heap
  /\ UNCHANGED settled

(* ... or after a miss: the inner store, and then the cache. *)
ReadMissed(t) ==
  /\ Inside(t, "read") /\ HasHandle(t)
  /\ \/ Fetch(t) /\ IF stored[job[t].height] = NoBlock
                    THEN Result(t, "none") ELSE UNCHANGED <<call, heap>>
     \/ Populate(t) /\ BlockResult(t, job[t].block)
  /\ UNCHANGED settled

Settle(h) == settled' = [settled EXCEPT ![h] = stored'[h]]

(* bs_write_block: Store::write_block, or that and then the cache. *)
WriteBlock(t) ==
  /\ Entered(t, "write") /\ HasHandle(t)
  /\ LET h == call[t].height
         b == call[t].block
     IN \/ /\ ~caching
           /\ MayWrite(h, b)
           /\ stored' = [stored EXCEPT ![h] = b]
           /\ Settle(h)
           /\ Result(t, "ok")
           /\ UNCHANGED <<cache, at, job>>
        \/ /\ caching
           /\ WriteThrough(t, h, b)
           /\ call' = [call EXCEPT ![t].stage = "inside"]
           /\ UNCHANGED <<heap, settled>>
        \/ WriteFailsLate(t, h, b) /\ Settle(h) /\ ErrResult(t)

WriteCached(t) ==
  /\ Inside(t, "write") /\ HasHandle(t)
  /\ CacheWritten(t)
  /\ settled' = [settled EXCEPT ![job[t].height] = job[t].block]
  /\ Result(t, "ok")

(* The store refuses a call, with an error (an empty block, a height too low,
   an I/O error) or a panic, and nothing changes. *)
CallFails(t) ==
  /\ call[t].op \in {"read", "write"} /\ HasHandle(t)
  /\ \/ call[t].stage = "entering" /\ UNCHANGED <<at, job>>
     \/ call[t].stage = "inside" /\ at[t] = "fetch" /\ Return(t)
  /\ ErrResult(t)
  /\ UNCHANGED <<stored, cache, settled>>

(* bs_close_store: the Rust Store is dropped, and its cache with it. *)
CloseStore(t) ==
  /\ Entered(t, "close") /\ call[t].handle # Nil
  /\ alive' = FALSE
  /\ cache' = [h \in Heights |-> NoBlock]
  /\ Result(t, "ok")
  /\ UNCHANGED <<stored, at, job, handle, caching, settled>>

-----------------------------------------------------------------------------
(* Back in Go. *)

(***************************************************************************)
(* getBytesFromBlockResult, getErrorFromVoidResult and                     *)
(* getStoreFromHandleResult: the bytes are copied and the buffer is freed. *)
(***************************************************************************)
AnswerOf(c) ==
  CASE c.tag \in {"null", "err"} -> Failure
    [] c.tag = "some" -> CopiedBytes(c.owned)
    [] OTHER -> NoBlock

Answered(t) ==
  /\ call[t].stage = "returned"
  /\ call' = [call EXCEPT ![t].stage = "answered", ![t].answer = AnswerOf(call[t]),
                          ![t].owned = NoBuffer]

(* Faulty variant: the bytes are copied and the buffer is forgotten. *)
AnswerKeepsBuffer(t) ==
  /\ Answered(t)
  /\ UNCHANGED <<kvars, handle, alive, caching, heap, settled>>

Answer(t) ==
  /\ Answered(t)
  /\ Free(t)
  /\ UNCHANGED <<kvars, handle, alive, caching, settled>>

(* Faulty variant: the handle stays. *)
HandleKept(t) == IF call[t].op = "open" /\ call[t].tag = "ok" THEN Address ELSE handle

(* A store that was opened has its handle; Close clears it. *)
HandleAfter(t) ==
  CASE call[t].op = "open" /\ call[t].tag = "ok" -> Address
    [] call[t].op = "close" -> Nil
    [] OTHER -> handle

(* The call is over. *)
End(t) ==
  /\ call[t].stage = "answered"
  /\ handle' = HandleAfter(t)
  /\ call' = [call EXCEPT ![t] = NoCall]
  /\ UNCHANGED <<kvars, alive, caching, heap, settled>>

Step(t) ==
  \/ \E h \in Heights : BeginRead(t, h) \/ \E b \in Blocks : BeginWrite(t, h, b)
  \/ BeginOpen(t) \/ BeginClose(t)
  \/ OpenStore(t) \/ NullHandle(t) \/ ReadBlock(t) \/ ReadMissed(t)
  \/ WriteBlock(t) \/ WriteCached(t) \/ CallFails(t) \/ CloseStore(t)
  \/ Answer(t) \/ End(t)

(* What a call might rightly answer grows with every step during it. *)
Observe ==
  seen' = [t \in Threads |->
             IF call'[t].op = "read"
             THEN seen[t] \union {stored'[call'[t].height], settled'[call'[t].height]}
             ELSE {}]

HNext == (\E t \in Threads : Step(t)) /\ Observe

HSpec == HInit /\ [][HNext]_hvars

-----------------------------------------------------------------------------
(***************************************************************************)
(* A call that has a handle has a store behind it: nothing goes into a     *)
(* store that Close dropped, and none is dropped twice (blockstore.go,     *)
(* Close: the handle is set to nil after bs_close_store).                  *)
(***************************************************************************)
HandleLive ==
  \A t \in Threads :
    call[t].stage \in {"entering", "inside"} /\ call[t].handle # Nil => alive

(***************************************************************************)
(* Every buffer that comes out of Rust is given back exactly once: what is *)
(* allocated is what the calls between their result and their answer have  *)
(* in hand (results.rs: "The caller must call [bs_free_owned_bytes]").     *)
(***************************************************************************)
BuffersReturned == heap = {t \in Threads : call[t].owned.ptr # Nil}

(***************************************************************************)
(* ReadBlock answers what the height held at some instant between the call *)
(* and its return, whether the cache, the store or a concurrent write is   *)
(* met: never a block that was overwritten before, and never (nil, nil)    *)
(* for a block that was there all along.                                   *)
(***************************************************************************)
ReadCurrent ==
  \A t \in Threads :
    call[t].op = "read" /\ call[t].stage = "answered" /\ call[t].answer # Failure =>
      call[t].answer \in seen[t]

=============================================================================
