--------------------------- MODULE InstanceBuffer ---------------------------
(***************************************************************************)
(* run_buffer of src/chain/src/application/actor.rs: the task of each      *)
(* instance between its application actor and gatling_thread.  Blocks come *)
(* in any order and more than once, because several tasks send to          *)
(* buffer_tx; they leave by ascending height, each once.                   *)
(*                                                                         *)
(* A block is named by its height: consensus finalizes one block per       *)
(* height of an instance, so digest and height determine each other.       *)
(***************************************************************************)
EXTENDS GatlingOrder, Sequences

\* Genesis, of height 0, is never sent.
Heights == Nat \ {0}

VARIABLES  \* of each instance:
  chan,       \* the unbounded channel buffer_tx -> rx
  next,       \* next_expected_height
  pending,    \* keys of `pending`
  seen,       \* digests received so far
  draining,   \* inside the forwarding loop
  forwarded   \* events sent to gatling_thread

bufferVars == <<chan, next, pending, seen, draining, forwarded>>

BufferInit ==
  /\ chan = [i \in Inst |-> << >>]
  /\ next = [i \in Inst |-> 1]
  /\ pending = [i \in Inst |-> {}]
  /\ seen = [i \in Inst |-> {}]
  /\ draining = [i \in Inst |-> FALSE]
  /\ forwarded = [i \in Inst |-> << >>]

\* Some task of instance i sends a block (tx.unbounded_send).
Send(i, h) ==
  /\ chan' = [chan EXCEPT ![i] = Append(@, h)]
  /\ UNCHANGED <<next, pending, seen, draining, forwarded>>

\* rx.next(): a digest seen before is dropped, a new block is stored.
Accept(i) ==
  LET h == Head(chan[i]) IN
  /\ ~draining[i]
  /\ chan[i] # << >>
  /\ chan' = [chan EXCEPT ![i] = Tail(@)]
  /\ seen' = [seen EXCEPT ![i] = @ \cup {h}]
  /\ pending' = [pending EXCEPT ![i] = IF h \in seen[i] THEN @ ELSE @ \cup {h}]
  /\ draining' = [draining EXCEPT ![i] = h \notin seen[i]]
  /\ UNCHANGED <<next, forwarded>>

\* Mutant of Forward: the lowest block held is forwarded, expected or not.
ForwardLowest(i) ==
  /\ draining[i]
  /\ \E h \in pending[i] :
       /\ \A g \in pending[i] : h <= g
       /\ pending' = [pending EXCEPT ![i] = @ \ {h}]
       /\ forwarded' = [forwarded EXCEPT ![i] = Append(@, h)]
       /\ next' = [next EXCEPT ![i] = h + 1]
  /\ UNCHANGED <<chan, seen, draining>>

\* pending.remove(&next_expected_height) found a block.
Forward(i) ==
  /\ draining[i]
  /\ next[i] \in pending[i]
  /\ pending' = [pending EXCEPT ![i] = @ \ {next[i]}]
  /\ forwarded' = [forwarded EXCEPT ![i] = Append(@, next[i])]
  /\ next' = [next EXCEPT ![i] = @ + 1]
  /\ UNCHANGED <<chan, seen, draining>>

\* Mutant of Hold: the loop may end although the next block is held.
HoldAnyway(i) ==
  /\ draining[i]
  /\ draining' = [draining EXCEPT ![i] = FALSE]
  /\ UNCHANGED <<chan, next, pending, seen, forwarded>>

\* It did not: back to rx.next().
Hold(i) ==
  /\ draining[i]
  /\ next[i] \notin pending[i]
  /\ draining' = [draining EXCEPT ![i] = FALSE]
  /\ UNCHANGED <<chan, next, pending, seen, forwarded>>

Run(i) == Accept(i) \/ Forward(i) \/ Hold(i)
-----------------------------------------------------------------------------
BufferTypeOK ==
  /\ chan \in [Inst -> Seq(Heights)]
  /\ next \in [Inst -> Heights]
  /\ pending \in [Inst -> SUBSET Heights]
  /\ seen \in [Inst -> SUBSET Heights]
  /\ draining \in [Inst -> BOOLEAN]
  /\ forwarded \in [Inst -> Seq(Heights)]

\* What gatling_thread receives from an instance is the heights 1, 2, 3, ...
\* without a repetition and without a hole, whatever the order in which
\* finalize_ancestors tasks send blocks.
ForwardedInHeightOrder ==
  \A i \in Inst : /\ next[i] = Len(forwarded[i]) + 1
                  /\ \A j \in 1 .. Len(forwarded[i]) : forwarded[i][j] = j

\* Nothing received is lost or repeated: the heights received are those
\* forwarded and those that wait for a lower one, and the loop never stops
\* short of a block it could forward.
NothingWithheld ==
  \A i \in Inst : /\ seen[i] = (1 .. next[i] - 1) \cup pending[i]
                  /\ pending[i] \cap (1 .. next[i] - 1) = {}
                  /\ ~draining[i] => next[i] \notin pending[i]
=============================================================================
