---------------------------- MODULE NodePipeline ----------------------------
(***************************************************************************)
(* What one validator does with finalized blocks after finalize_ancestors: *)
(* the run_buffer of each instance and gatling_thread behind them, joined  *)
(* by the one channel of GatlingEvents (src/chain/src/engine.rs,           *)
(* src/chain/src/bin/validator.rs).  GatlingThread assumes that channel to *)
(* deliver an instance's blocks in the order of its chain; here the thread *)
(* takes what the buffers sent.                                            *)
(*                                                                         *)
(* The process may be restarted.  Nothing here is persisted: buffers,      *)
(* channel and thread begin again from height 1 and view 1, and the blocks *)
(* are sent again, in another order.                                       *)
(***************************************************************************)
EXTENDS InstanceBuffer, FiniteSets, SequencesExt

CONSTANTS
  MaxHeight,    \* bound on the blocks of each instance's chain
  MaxQueue,     \* bound on the blocks in each buffer's channel
  MaxRestarts   \* bound on the restarts

ASSUME PipelineAssumption ==
  /\ MaxHeight \in [Inst -> Nat]
  /\ MaxQueue \in Nat \ {0} /\ MaxRestarts \in Nat

VARIABLES
  events,    \* gatling_tx to gatling_rx
  chain, fed, blocks, gaps, finalizedUpTo, cursor, pc, log,
  former,    \* what the process before the last restart had logged
  restarts

T == INSTANCE GatlingThreadProofs

thread == <<chain, fed, blocks, gaps, finalizedUpTo, cursor, pc, log>>
history == <<former, restarts>>
vars == <<bufferVars, events, thread, history>>

Init ==
  /\ BufferInit /\ T!Init
  /\ \A i \in Inst : Cardinality(chain[i]) <= MaxHeight[i]
  /\ events = <<>>
  /\ former = <<>>
  /\ restarts = 0

\* The height of the block of view v: a block is one higher than its parent.
HeightOf(i, v) == Cardinality({w \in chain[i] : w <= v})

\* The block of height h of an instance, by its view.
ViewAt(i, h) == CHOOSE v \in chain[i] : HeightOf(i, v) = h

\* Mutant of Emitted: the events say which height it is and not which view.
EmittedByHeight(i, before, after) ==
  IF after = before THEN <<>> ELSE << <<Last(after), i>> >>

\* The GatlingEvent of a step of run_buffer that forwards a block.
Emitted(i, before, after) ==
  IF after = before THEN <<>> ELSE << <<ViewAt(i, Last(after)), i>> >>

\* A step of the buffer of instance i.
Buffer(i) ==
  /\ Run(i)
  /\ events' = events \o Emitted(i, forwarded[i], forwarded'[i])
  /\ UNCHANGED <<thread, history>>

\* A finalize_ancestors task sends the block of height h to the buffer, which
\* may have it already.
SendBlock(i, h) ==
  /\ Len(chan[i]) < MaxQueue
  /\ \E v \in chain[i] : HeightOf(i, v) = h
  /\ Send(i, h)
  /\ UNCHANGED <<events, thread, history>>

\* rx.recv() returns the event at the head, whatever it is.
Receive ==
  /\ events # <<>>
  /\ T!Enqueue(Head(events)[2], Head(events)[1])
  /\ events' = Tail(events)
  /\ UNCHANGED <<bufferVars, history>>

Drain ==
  /\ T!Drain
  /\ UNCHANGED <<bufferVars, events, history>>

\* A new run_buffer task of each instance.
BuffersStart ==
  /\ chan' = [i \in Inst |-> <<>>]
  /\ next' = [i \in Inst |-> 1]
  /\ pending' = [i \in Inst |-> {}]
  /\ seen' = [i \in Inst |-> {}]
  /\ draining' = [i \in Inst |-> FALSE]
  /\ forwarded' = [i \in Inst |-> <<>>]

\* A new thread, with empty queues and the cursor at the first cell.
ThreadStarts ==
  /\ fed' = [i \in Inst |-> 0]
  /\ blocks' = [i \in Inst |-> {}]
  /\ gaps' = [i \in Inst |-> {}]
  /\ finalizedUpTo' = [i \in Inst |-> 0]
  /\ cursor' = <<1, 0>>
  /\ pc' = "recv"
  /\ log' = <<>>

\* Mutant of Restart: the buffers go on where they were.
RestartThread ==
  /\ restarts < MaxRestarts
  /\ restarts' = restarts + 1
  /\ former' = log
  /\ ThreadStarts
  /\ events' = <<>>
  /\ UNCHANGED <<bufferVars, chain>>

\* The process ends at any point and is started again.  What has been decided
\* stays decided.
Restart ==
  /\ restarts < MaxRestarts
  /\ restarts' = restarts + 1
  /\ former' = log
  /\ ThreadStarts
  /\ BuffersStart
  /\ events' = <<>>
  /\ UNCHANGED chain

Next ==
  \/ \E i \in Inst : Buffer(i) \/ \E h \in 1 .. MaxHeight[i] : SendBlock(i, h)
  \/ Receive \/ Drain
  \/ Restart

\* Buffers and thread run whenever they can.  Every finalized block is sent
\* to the buffer of each run of the process (EventuallyForwarded of module
\* AncestorFinalization); strong fairness, because the bound on the channel,
\* which the code does not have, disables sending again and again.
Fairness ==
  /\ WF_vars(Receive) /\ WF_vars(Drain)
  /\ \A i \in Inst : /\ WF_vars(Buffer(i))
                     /\ SF_vars(\E h \in 1 .. MaxHeight[i] : h \notin seen[i] /\ SendBlock(i, h))

Spec == Init /\ [][Next]_vars
FairSpec == Spec /\ Fairness
-----------------------------------------------------------------------------
TypeOK ==
  /\ BufferTypeOK /\ T!TypeOK
  /\ \A j \in 1 .. Len(events) : events[j] \in Cell
  /\ former \in Seq(Cell)
  /\ restarts \in 0 .. MaxRestarts

\* What the buffers send into the shared channel is what GatlingThread assumes
\* of it: every event the thread takes is the next block of its instance, and
\* between restarts the thread behaves as that module says, on whose invariant
\* the order of the log rests.
ThreadAsSpecified == T!Init /\ [][T!Next \/ (T!Init)']_(T!vars)

\* After a restart the validator writes the same log again: what it has
\* written so far and what it had written before never disagree, although the
\* blocks arrive in another order.
SameLogAgain == IsPrefix(log, former) \/ IsPrefix(former, log)

\* From the buffers to the log: a block that can be ordered is logged, by
\* every run of the process that lasts.
LoggedByEveryRun == T!OrderableBlockLogged
=============================================================================
