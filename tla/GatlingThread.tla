--------------------------- MODULE GatlingThread ----------------------------
(***************************************************************************)
(* gatling_thread of src/chain/src/bin/validator.rs: the thread that turns *)
(* the finalized blocks of K consensus instances into one global order.    *)
(*                                                                         *)
(* Per instance the thread keeps a BTreeMap view -> Option<Block>.  It is  *)
(* two disjoint sets here: `blocks[i]` are the keys holding Some(block),   *)
(* `gaps[i]` the keys holding None.  A block is identified with its cell,  *)
(* because block.view is the key it is queued under.                       *)
(*                                                                         *)
(* The channel the thread receives from is fed per instance by run_buffer  *)
(* (module InstanceBuffer), in height order; a child block has a higher    *)
(* view than its parent, so instance i's blocks arrive in ascending view   *)
(* order.  The interleaving of the instances is arbitrary.                 *)
(***************************************************************************)
EXTENDS GatlingOrder, FiniteSetsExt, Sequences

VARIABLES
  chain,          \* views at which each instance finalizes a block
  fed,            \* highest view the channel has delivered, 0 if none
  blocks,         \* instance_queues: keys with Some(block)
  gaps,           \* instance_queues: keys with None
  finalizedUpTo,  \* finalized_up_to
  cursor,         \* <<cursor_view, cursor_instance>>
  pc,             \* "recv": in rx.recv();  "drain": in the cursor loop
  log             \* the finalization log lines written so far

vars == <<chain, fed, blocks, gaps, finalizedUpTo, cursor, pc, log>>

Keys(i) == blocks[i] \cup gaps[i]

HighestSeen(i) == Max(Keys(i) \cup {finalizedUpTo[i]})

Init ==
  /\ chain \in Chains
  /\ fed = [i \in Inst |-> 0]
  /\ blocks = [i \in Inst |-> {}]
  /\ gaps = [i \in Inst |-> {}]
  /\ finalizedUpTo = [i \in Inst |-> 0]
  /\ cursor = <<1, 0>>
  /\ pc = "recv"
  /\ log = << >>

\* The next block of instance i after those already delivered.
NextToFeed(i, v) ==
  /\ v \in chain[i]
  /\ fed[i] < v
  /\ \A w \in chain[i] : fed[i] < w => v <= w

\* Step 1 of the main loop, for a block of view v of instance i: mark the views
\* skipped since the highest one seen, unless nothing was seen yet, and queue
\* the block.
Enqueue(i, v) ==
  LET skipped == IF v > HighestSeen(i) + 1 /\ HighestSeen(i) > 0
                 THEN (HighestSeen(i) + 1 .. v - 1) \ Keys(i)
                 ELSE {}
  IN  /\ pc = "recv"
      /\ fed' = [fed EXCEPT ![i] = v]
      /\ gaps' = [gaps EXCEPT ![i] = (@ \cup skipped) \ {v}]
      /\ blocks' = [blocks EXCEPT ![i] = @ \cup {v}]
      /\ pc' = "drain"
      /\ UNCHANGED <<chain, finalizedUpTo, cursor, log>>

\* rx.recv() returns a block of instance i.
Receive(i) == \E v \in chain[i] : NextToFeed(i, v) /\ Enqueue(i, v)

\* Mutant of FinalizeBlockAtView: the None entries below the view stay.
FinalizeWithoutCleanup(v, i) ==
  /\ log' = Append(log, <<v, i>>)
  /\ finalizedUpTo' = [finalizedUpTo EXCEPT ![i] = v]
  /\ blocks' = [blocks EXCEPT ![i] = @ \ {v}]
  /\ UNCHANGED gaps

\* finalize_block_at_view: log the block and drop the queue up to its view.
\* remove() has taken the block itself out of the queue.
FinalizeBlockAtView(v, i) ==
  /\ log' = Append(log, <<v, i>>)
  /\ finalizedUpTo' = [finalizedUpTo EXCEPT ![i] = v]
  /\ blocks' = [blocks EXCEPT ![i] = { w \in @ : w > v }]
  /\ gaps' = [gaps EXCEPT ![i] = { w \in @ : w > v }]

\* Step 2, Some(Some(block)).
FinalizeCell ==
  LET v == cursor[1]  i == cursor[2] IN
  /\ pc = "drain"
  /\ finalizedUpTo[i] < v
  /\ v \in blocks[i]
  /\ FinalizeBlockAtView(v, i)
  /\ cursor' = Advance(cursor)
  /\ UNCHANGED <<chain, fed, pc>>

\* Mutant of Settled: a missing entry counts as a gap.
MissingIsSettled(v, i) == v <= finalizedUpTo[i] \/ v \notin blocks[i]

\* Views the thread knows to be settled without a block to log.
Settled(v, i) == v <= finalizedUpTo[i] \/ v \in gaps[i]

\* Step 2, `finalized_up_to >= cursor_view` and Some(None).  remove() has
\* taken the None entry out of the queue in the second case only.
PassSettledCell ==
  LET v == cursor[1]  i == cursor[2] IN
  /\ pc = "drain"
  /\ Settled(v, i)
  /\ gaps' = IF v <= finalizedUpTo[i] THEN gaps
             ELSE [gaps EXCEPT ![i] = @ \ {v}]
  /\ cursor' = Advance(cursor)
  /\ UNCHANGED <<chain, fed, blocks, finalizedUpTo, pc, log>>

\* Mutant of HasHigherView: the queues of the other instances count too.
AnyInstanceHigher(v, i) == \E j \in Inst : \E w \in Keys(j) : w > v

\* Mutant of HasHigherView: the view right after the cursor's is missed.
HigherByTwo(v, i) == \E w \in Keys(i) : w > v + 1

\* Step 2, None: is any later view of the instance queued (has_higher_view)?
HasHigherView(v, i) == \E w \in Keys(i) : w > v

Unknown(v, i) == ~Settled(v, i) /\ v \notin blocks[i]

\* Mutant of PassSkippedCell: an empty cell is passed without evidence that
\* the instance is past it.
PassEmptyCell ==
  LET v == cursor[1]  i == cursor[2] IN
  /\ pc = "drain"
  /\ Unknown(v, i)
  /\ gaps' = [gaps EXCEPT ![i] = @ \cup {v}]
  /\ cursor' = Advance(cursor)
  /\ UNCHANGED <<chain, fed, blocks, finalizedUpTo, pc, log>>

\* The instance has moved past the cursor: its view is a gap.  The None
\* entry stays in the queue, below the cursor, until the next finalization.
PassSkippedCell ==
  LET v == cursor[1]  i == cursor[2] IN
  /\ pc = "drain"
  /\ Unknown(v, i)
  /\ HasHigherView(v, i)
  /\ gaps' = [gaps EXCEPT ![i] = @ \cup {v}]
  /\ cursor' = Advance(cursor)
  /\ UNCHANGED <<chain, fed, blocks, finalizedUpTo, pc, log>>

\* Mutant of Await: the loop ends at every missing entry.
AwaitEveryMissing ==
  LET v == cursor[1]  i == cursor[2] IN
  /\ pc = "drain"
  /\ Unknown(v, i)
  /\ pc' = "recv"
  /\ UNCHANGED <<chain, fed, blocks, gaps, finalizedUpTo, cursor, log>>

\* Nothing is known of the cursor's cell: back to rx.recv().
Await ==
  LET v == cursor[1]  i == cursor[2] IN
  /\ pc = "drain"
  /\ Unknown(v, i)
  /\ ~HasHigherView(v, i)
  /\ pc' = "recv"
  /\ UNCHANGED <<chain, fed, blocks, gaps, finalizedUpTo, cursor, log>>

Drain == FinalizeCell \/ PassSettledCell \/ PassSkippedCell \/ Await

Next == (\E i \in Inst : Receive(i)) \/ Drain

Spec == Init /\ [][Next]_vars

\* The thread runs whenever it can, and each instance's pipeline delivers
\* every block that consensus finalizes.
Fairness == WF_vars(Drain) /\ \A i \in Inst : WF_vars(Receive(i))

FairSpec == Spec /\ Fairness
-----------------------------------------------------------------------------
Logged == { log[j] : j \in 1 .. Len(log) }

TypeOK ==
  /\ chain \in Chains
  /\ fed \in [Inst -> Nat]
  /\ blocks \in [Inst -> SUBSET Views]
  /\ gaps \in [Inst -> SUBSET (Nat \ {0})]
  /\ finalizedUpTo \in [Inst -> Nat]
  /\ cursor \in (Nat \ {0}) \X Inst
  /\ pc \in {"recv", "drain"}
  /\ log \in Seq(Cell)

\* The log is exactly the finalized blocks below the cursor: the thread
\* never logs what consensus did not finalize, and never moves past a cell
\* in which a block is still to arrive.
LogIsBlocksBelowCursor ==
  Logged = { c \in Blocks(chain) : Before(c, cursor) }

\* Log lines come out strictly in (view, instance) order.
LogStrictlyOrdered ==
  \A j, k \in 1 .. Len(log) : j < k => Before(log[j], log[k])

\* The log is the global order as far as the cursor has come.
LogIsGlobalOrder == LogIsBlocksBelowCursor /\ LogStrictlyOrdered

\* The thread goes back to waiting only for an instance that has delivered
\* nothing at or after the cursor's view: no block it could log is withheld.
WaitsOnlyForLaggard ==
  pc = "recv" => fed[cursor[2]] < cursor[1]

\* A queue holds nothing at or below the highest view finalized with a
\* block, and nothing beyond the latest block delivered: None entries
\* inserted behind the cursor do not accumulate.
QueueWithinWindow ==
  \A i \in Inst : \A v \in Keys(i) : finalizedUpTo[i] < v /\ v <= fed[i]

\* A step that delivers a block delivers it at or after the cursor, never in
\* a cell the global order has already gone past.
NoBlockBehindCursor ==
  [][\A i \in Inst : fed'[i] # fed[i] => ~Before(<<fed'[i], i>>, cursor)]_vars

\* A cell can be ordered once every instance has a block that proves it will
\* have nothing more below the cell.
Orderable(c) ==
  \A i \in Inst : \E v \in chain[i] : ~Before(<<v, i>>, c)

\* Every finalized block of an orderable cell is eventually logged.
OrderableBlockLogged ==
  \A c \in Cell :
    (c \in Blocks(chain) /\ Orderable(c)) ~> (c \in Logged)

\* The inductive invariant.  `fed`, `finalizedUpTo` and the queue of an
\* instance describe one window of its chain; the cursor has passed the cells
\* up to finalizedUpTo and none of the queued blocks, and it never passes
\* further than the instance has delivered.
Window(i) ==
  /\ fed[i] \in chain[i] \cup {0}
  /\ finalizedUpTo[i] <= fed[i]
  /\ blocks[i] = { v \in chain[i] : finalizedUpTo[i] < v /\ v <= fed[i] }
  /\ fed[i] = finalizedUpTo[i] \/ fed[i] \in blocks[i]
  /\ \A v \in gaps[i] : finalizedUpTo[i] < v /\ v <= fed[i] /\ v \notin chain[i]

CursorInWindow(i) ==
  /\ finalizedUpTo[i] = 0 \/ Before(<<finalizedUpTo[i], i>>, cursor)
  /\ \A v \in blocks[i] : ~Before(<<v, i>>, cursor)
  /\ \A v \in 1 .. cursor[1] : Before(<<v, i>>, cursor) => v <= fed[i]

IInv ==
  /\ TypeOK
  /\ \A i \in Inst : Window(i) /\ CursorInWindow(i)
  /\ LogIsBlocksBelowCursor
  /\ LogStrictlyOrdered
  /\ WaitsOnlyForLaggard

\* The thread implements the abstract global order.
Abstract == INSTANCE GlobalOrder
ImplementsGlobalOrder == Abstract!Spec
=============================================================================
