----------------------------- MODULE HeightMap ------------------------------
(***************************************************************************)
(* What a store promises its callers: a map from heights to blocks with    *)
(* atomic writes, which survives crashes.  A write takes effect at one     *)
(* instant between its call and its return, and a read then returns it.    *)
(*                                                                         *)
(* loose[h] are the blocks whose fate is open: their writes failed or were *)
(* cut off before they took effect, or overlapped with another write of    *)
(* the same height, so that the callers cannot tell which came last.  The  *)
(* next reopen decides it once and for all.  A write that had its height   *)
(* to itself from its call on and took effect leaves nothing loose: no     *)
(* older block ever comes back.                                            *)
(***************************************************************************)
EXTENDS Naturals

CONSTANTS Writers, Heights, Blocks, Nothing

VARIABLES
  open,     \* the store is open
  content,  \* content[h]: the block at h, or Nothing
  loose,
  phase,    \* phase[w]: idle, pending or applied
  op        \* op[w]: its height, its block, and whether it is alone there

mvars == <<open, content, loose, phase, op>>

NoOp == [height |-> 0, block |-> Nothing, alone |-> TRUE]

InFlight(h) == {w \in Writers : phase[w] # "idle" /\ op[w].height = h}

Init ==
  /\ open = TRUE
  /\ content = [h \in Heights |-> Nothing]
  /\ loose = [h \in Heights |-> {}]
  /\ phase = [w \in Writers |-> "idle"]
  /\ op = [w \in Writers |-> NoOp]

Begin(w, h, b) ==
  /\ open
  /\ phase[w] = "idle"
  /\ phase' = [phase EXCEPT ![w] = "pending"]
  /\ op' = [v \in Writers |->
              IF v = w THEN [height |-> h, block |-> b, alone |-> InFlight(h) = {}]
              ELSE [op[v] EXCEPT !.alone = @ /\ v \notin InFlight(h)]]
  /\ UNCHANGED <<open, content, loose>>

Apply(w) ==
  /\ phase[w] = "pending"
  /\ phase' = [phase EXCEPT ![w] = "applied"]
  /\ LET h == op[w].height IN
       /\ content' = [content EXCEPT ![h] = op[w].block]
       /\ loose' = [loose EXCEPT ![h] =
                      IF op[w].alone THEN {} ELSE @ \union {op[w].block}]
  /\ UNCHANGED <<open, op>>

Return(w) ==
  /\ phase' = [phase EXCEPT ![w] = "idle"]
  /\ op' = [op EXCEPT ![w] = NoOp]

(* The call returns after it took effect. *)
Finish(w) ==
  /\ phase[w] = "applied"
  /\ Return(w)
  /\ UNCHANGED <<open, content, loose>>

(* The call returns an error and did not take effect so far. *)
Fail(w) ==
  /\ phase[w] = "pending"
  /\ Return(w)
  /\ loose' = [loose EXCEPT ![op[w].height] = @ \union {op[w].block}]
  /\ UNCHANGED <<open, content>>

(* The end of a session, by a crash or a shutdown. *)
Stop ==
  /\ open' = FALSE
  /\ loose' = [h \in Heights |-> loose[h] \union
                 {op[w].block : w \in {v \in InFlight(h) : phase[v] = "pending"}}]
  /\ phase' = [w \in Writers |-> "idle"]
  /\ op' = [w \in Writers |-> NoOp]
  /\ UNCHANGED content

Reopen ==
  /\ ~open
  /\ open' = TRUE
  /\ \A h \in Heights : content'[h] \in {content[h]} \union loose[h]
  /\ loose' = [h \in Heights |-> {}]
  /\ UNCHANGED <<phase, op>>

Next ==
  \/ \E w \in Writers :
       \/ \E h \in Heights, b \in Blocks : Begin(w, h, b)
       \/ Apply(w) \/ Finish(w) \/ Fail(w)
  \/ Stop \/ Reopen

Spec == Init /\ [][Next]_mvars

=============================================================================
