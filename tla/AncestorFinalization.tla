------------------------ MODULE AncestorFinalization ------------------------
(***************************************************************************)
(* How the application actor of one consensus instance on one validator    *)
(* turns finalization messages into the stream of blocks run_buffer gets   *)
(* (src/chain/src/application/actor.rs, Message::Finalized).               *)
(*                                                                         *)
(* Consensus reports some of the finalized blocks only, in any order; a    *)
(* reported block finalizes its ancestors too.  For every report the actor *)
(* spawns a finalize_ancestors task that walks the parents down to a block *)
(* in `finalized_seen` or to genesis, fetches from the other validators    *)
(* what is not in local storage, and sends the ancestors and then the      *)
(* reported block to run_buffer.  The tasks run in parallel with each      *)
(* other and with the actor, and share finalized_seen and the table of     *)
(* pending requests.                                                       *)
(*                                                                         *)
(* The finalized chain of the instance is the heights 1 .. N, 0 is genesis *)
(* and the parent of h is h - 1.                                           *)
(***************************************************************************)
EXTENDS AncestorWire, FiniteSets

CONSTANTS
  N,           \* height of the finalized chain
  Triggers,    \* the heights consensus reports
  NumPeers,    \* participants of the instance, this validator included
  Self,        \* this validator's place among them
  Holders,     \* the participants that answer for every block
  Stores,      \* what may be in local storage at the start
  MaxFaults    \* bound: restarts, sends that fail, answers that are late, local
               \* lookups that are too slow, tasks that run out of MAX_TOTAL_FETCH_MS

ASSUME ChainAssumption == /\ N \in Nat \ {0} /\ Triggers \subseteq 1 .. N
                          /\ Stores \subseteq SUBSET (1 .. N)
ASSUME PeersAssumption == NumPeers \in Nat \ {0} /\ 
  Self \in 0 .. NumPeers - 1 /\ Holders \subseteq (0 .. NumPeers - 1) \ {Self}
ASSUME BoundsAssumption == MaxFaults \in Nat

VARIABLES
  reported,       \* triggers whose Finalized message the actor has taken
  handling,       \* trigger the actor has spawned a task for but not yet
                  \* put into finalized_seen; 0 if none
  store,          \* blocks in marshal's local storage
  finalizedSeen,  \* finalized_seen
  task,           \* the finalize_ancestors task of each trigger
  nextId,         \* request_id_counter
  pendingReqs,    \* pending_ancestor_requests: id, block and waiting task
  wire,           \* encoded messages on their way, as <<recipient, fields>>
  faults,         \* number of faults so far
  gaveUp,         \* triggers whose task has run out of time
  sent            \* blocks sent to run_buffer

requestVars == <<nextId, pendingReqs, wire, faults, gaveUp>>
vars == <<reported, handling, store, finalizedSeen, task,
          requestVars, sent>>

Phases == { "idle", "walk", "local", "fetch", "wait", "rebuild", "send", "mark",
            "last", "done" }

\* What resp_rx holds: nothing yet, a block, or that its sender was dropped.
Empty == 0
Closed == N + 1

\* walk_cursor / final_cursor / the ancestor being sent, found_blocks, the
\* request waited for, peer_cycle_idx, and resp_rx.
Task == [phase: Phases, cursor: 0 .. N, found: SUBSET (1 .. N),
         id: Nat, peer: 0 .. NumPeers - 1, reply: 0 .. N + 1]

IdleTask == [phase |-> "idle", cursor |-> 0, found |-> {}, id |-> 0,
             peer |-> 0, reply |-> Empty]

Init ==
  /\ reported = {}
  /\ handling = 0
  /\ store \in Stores
  /\ finalizedSeen = {}
  /\ task = [t \in Triggers |-> IdleTask]
  /\ nextId = 0
  /\ pendingReqs = {}
  /\ wire = {}
  /\ faults = 0
  /\ gaveUp = {}
  /\ sent = {}

Running(t) == task[t].phase \notin {"idle", "done"}

\* A task that sent its last message keeps no state.
Goto(t, phase) == task' = [task EXCEPT ![t].phase = phase]

-----------------------------------------------------------------------------
(* The actor. *)

\* Message::Finalized, up to the spawned tasks.  persist_finalized is one step
\* with it: until MarkReported no task gets to the block, and what a restart
\* finds in storage is not more than `store` anyway.
HandleFinalized(t) ==
  /\ handling = 0
  /\ t \notin reported
  /\ reported' = reported \cup {t}
  /\ handling' = t
  /\ store' = store \cup {t}
  /\ task' = [task EXCEPT ![t] = [IdleTask EXCEPT !.phase = "walk", !.cursor = t - 1]]
  /\ UNCHANGED <<finalizedSeen, requestVars, sent>>

\* The end of the handler: the reported block itself is marked as seen.
MarkReported ==
  /\ handling # 0
  /\ finalizedSeen' = finalizedSeen \cup {handling}
  /\ handling' = 0
  /\ UNCHANGED <<reported, store, task, requestVars, sent>>

-----------------------------------------------------------------------------
(* 'fetch_loop of a finalize_ancestors task. *)

\* Nothing is missing down to genesis or to a block already seen.
WalkEnds(t) ==
  /\ task[t].phase = "walk"
  /\ task[t].cursor = 0 \/ task[t].cursor \in finalizedSeen
  /\ task' = [task EXCEPT ![t].phase = "rebuild", ![t].cursor = t - 1]
  /\ UNCHANGED <<reported, handling, store, finalizedSeen,
                 requestVars, sent>>

\* The block under the cursor is in found_blocks, or marshal is asked for it.
WalkDown(t) ==
  LET h == task[t].cursor IN
  /\ task[t].phase = "walk"
  /\ h # 0 /\ h \notin finalizedSeen
  /\ task' = IF h \in task[t].found
             THEN [task EXCEPT ![t].cursor = h - 1]
             ELSE [task EXCEPT ![t].phase = "local"]
  /\ UNCHANGED <<reported, handling, store, finalizedSeen,
                 requestVars, sent>>

\* marshal.subscribe answered before LOCAL_CHECK_TIMEOUT_MS.
LocalHit(t) ==
  LET h == task[t].cursor IN
  /\ task[t].phase = "local"
  /\ h \in store
  /\ task' = [task EXCEPT ![t].phase = "walk", ![t].cursor = h - 1,
                          ![t].found = @ \cup {h}]
  /\ UNCHANGED <<reported, handling, store, finalizedSeen,
                 requestVars, sent>>

\* It did not, because the block is not there or the archive is slow: the
\* cursor is the frontier, fetched from peer 0 onwards.
LocalMiss(t) ==
  LET slow == task[t].cursor \in store IN
  /\ task[t].phase = "local"
  /\ slow => faults < MaxFaults
  /\ faults' = IF slow THEN faults + 1 ELSE faults
  /\ task' = [task EXCEPT ![t].phase = "fetch", ![t].peer = 0]
  /\ UNCHANGED <<reported, handling, store, finalizedSeen,
                 nextId, pendingReqs, wire, gaveUp, sent>>

\* MAX_TOTAL_FETCH_MS has passed: stop fetching, forward what was found.
GiveUp(t) ==
  /\ task[t].phase = "fetch"
  /\ faults < MaxFaults
  /\ faults' = faults + 1
  /\ gaveUp' = gaveUp \cup {t}
  /\ task' = [task EXCEPT ![t].phase = "rebuild", ![t].cursor = t - 1]
  /\ UNCHANGED <<reported, handling, store, finalizedSeen,
                 nextId, pendingReqs, wire, sent>>

\* Mutant of NextPeer: the cycle index is used without `% len`.
NextIndex(t) == task[t].peer + 1

NextPeer(t) == (task[t].peer + 1) % NumPeers

PendingOf(t) == { r \in pendingReqs : r.task = t /\ r.id = task[t].id }

\* Register a request under a fresh id and send it to the peer in turn.  One
\* to the validator itself goes nowhere.
SendRequest(t) ==
  LET h == task[t].cursor IN
  /\ task[t].phase = "fetch"
  /\ nextId' = nextId + 1
  /\ pendingReqs' = pendingReqs \cup {[id |-> nextId, block |-> h, task |-> t]}
  /\ wire' = IF task[t].peer = Self THEN wire
             ELSE wire \cup {<<task[t].peer, Encode(Request(nextId, <<h>>))>>}
  /\ task' = [task EXCEPT ![t].phase = "wait", ![t].id = nextId, ![t].reply = Empty]
  /\ UNCHANGED <<reported, handling, store, finalizedSeen,
                 faults, gaveUp, sent>>

\* send() failed: the request is taken out of the table again and the next
\* peer is tried after a pause.
SendFails(t) ==
  /\ task[t].phase = "fetch"
  /\ faults < MaxFaults
  /\ faults' = faults + 1
  /\ nextId' = nextId + 1
  /\ task' = [task EXCEPT ![t].peer = NextPeer(t)]
  /\ UNCHANGED <<reported, handling, store, finalizedSeen,
                 pendingReqs, wire, gaveUp, sent>>

\* ancestor_message_handler of a validator, Request: it answers with the
\* blocks in its storage, and not at all if it has none of them.
PeerHandles(m) ==
  LET request == Decode(m[2])
      found   == IF m[1] \in Holders THEN request.items ELSE << >>
  IN  /\ m \in wire
      /\ request.kind = "request"
      /\ wire' = (wire \ {m}) \cup (IF found = << >> THEN {}
                                     ELSE {<<Self, Encode(Response(request.id, found))>>})
      /\ UNCHANGED <<reported, handling, store, finalizedSeen, task,
                     nextId, pendingReqs, faults, gaveUp, sent>>

\* Mutant of ReceiveResponse: the request is removed, its oneshot kept open.
ReceiveSilently(m) ==
  LET response == Decode(m[2])
      asked    == { r \in pendingReqs : r.id = response.id }
  IN  /\ m \in wire
      /\ response.kind = "response"
      /\ wire' = wire \ {m}
      /\ pendingReqs' = pendingReqs \ asked
      /\ UNCHANGED <<reported, handling, store, finalizedSeen, task,
                     nextId, faults, gaveUp, sent>>

\* Mutant of ReceiveResponse: the block goes to whoever uses the id, whatever
\* block was asked for.
ReceiveById(m) ==
  LET response == Decode(m[2])
      asked    == { r \in pendingReqs : r.id = response.id }
  IN  /\ m \in wire
      /\ response.kind = "response"
      /\ wire' = wire \ {m}
      /\ pendingReqs' = pendingReqs \ asked
      /\ task' = [t \in Triggers |->
                    IF \E r \in asked : r.task = t /\ r.id = task[t].id
                    THEN [task[t] EXCEPT !.reply = Head(response.items)] ELSE task[t]]
      /\ UNCHANGED <<reported, handling, store, finalizedSeen,
                     nextId, faults, gaveUp, sent>>

\* ancestor_message_handler, Response: take the request out of the table and
\* fire its oneshot if the block asked for is among the blocks; otherwise the
\* oneshot is dropped.  An answer to a request no longer there is ignored.
ReceiveResponse(m) ==
  LET response == Decode(m[2])
      asked    == { r \in pendingReqs : r.id = response.id }
      OfTask(t) == { r \in asked : r.task = t /\ r.id = task[t].id }
      Reply(r) == IF \E j \in 1 .. Len(response.items) : response.items[j] = r.block
                  THEN r.block ELSE Closed
  IN  /\ m \in wire
      /\ response.kind = "response"
      /\ wire' = wire \ {m}
      /\ pendingReqs' = pendingReqs \ asked
      /\ task' = [t \in Triggers |->
                    IF OfTask(t) = {} THEN task[t]
                    ELSE [task[t] EXCEPT !.reply = Reply(CHOOSE r \in OfTask(t) : TRUE)]]
      /\ UNCHANGED <<reported, handling, store, finalizedSeen,
                     nextId, faults, gaveUp, sent>>

\* select!: resp_rx.  The block is stored and the walk starts again.
TakeAnswer(t) ==
  LET h == task[t].cursor IN
  /\ task[t].phase = "wait"
  /\ task[t].reply = h
  /\ pendingReqs' = pendingReqs \ PendingOf(t)
  /\ store' = store \cup {h}
  /\ task' = [task EXCEPT ![t].phase = "walk", ![t].cursor = t - 1, ![t].found = @ \cup {h}]
  /\ UNCHANGED <<reported, handling, finalizedSeen,
                 nextId, wire, faults, gaveUp, sent>>

\* Mutant of NoAnswer: one unanswered request ends the fetching.
NoAnswerGivesUp(t) ==
  /\ pendingReqs' = pendingReqs \ PendingOf(t)
  /\ task' = [task EXCEPT ![t].phase = "rebuild", ![t].cursor = t - 1]

\* Mutant of NoAnswer: the request stays in the table.
NoAnswerLeaks(t) ==
  /\ task' = [task EXCEPT ![t].phase = "fetch", ![t].peer = NextPeer(t)]
  /\ UNCHANGED pendingReqs

\* Take the request out of the table; the next peer is tried after a pause.
NoAnswer(t) ==
  /\ pendingReqs' = pendingReqs \ PendingOf(t)
  /\ task' = [task EXCEPT ![t].phase = "fetch", ![t].peer = NextPeer(t)]

\* select!: PEER_RESPONSE_TIMEOUT_MS.  The answer may be on its way, or even
\* in resp_rx already.
TimeOut(t) ==
  /\ task[t].phase = "wait"
  /\ task[t].peer \in Holders => faults < MaxFaults
  /\ faults' = IF task[t].peer \in Holders THEN faults + 1 ELSE faults
  /\ NoAnswer(t)
  /\ UNCHANGED <<reported, handling, store, finalizedSeen,
                 nextId, wire, gaveUp, sent>>

\* select!: resp_rx, whose sender was dropped with another block's answer.
ReplyClosed(t) ==
  /\ task[t].phase = "wait"
  /\ task[t].reply = Closed
  /\ NoAnswer(t)
  /\ UNCHANGED <<reported, handling, store, finalizedSeen,
                 nextId, wire, faults, gaveUp, sent>>

-----------------------------------------------------------------------------
(* Reconstruction and forwarding. *)

\* `while final_cursor != genesis`: collect found blocks below the trigger.
RebuildDown(t) ==
  LET h == task[t].cursor IN
  /\ task[t].phase = "rebuild"
  /\ h # 0 /\ h \notin finalizedSeen /\ h \in task[t].found
  /\ task' = [task EXCEPT ![t].cursor = h - 1]
  /\ UNCHANGED <<reported, handling, store, finalizedSeen,
                 requestVars, sent>>

\* Mutant of RebuildEnds: the ancestors are marked when they are collected,
\* before any of them is sent.
RebuildMarks(t) ==
  LET h == task[t].cursor IN
  /\ task[t].phase = "rebuild"
  /\ h = 0 \/ h \in finalizedSeen \/ h \notin task[t].found
  /\ finalizedSeen' = finalizedSeen \cup (h + 1 .. t - 1)
  /\ task' = [task EXCEPT ![t].phase = IF h + 1 < t THEN "send" ELSE "last",
                          ![t].cursor = h + 1]
  /\ UNCHANGED <<reported, handling, store, requestVars, sent>>

\* The loop ends at genesis, at a block seen, or at a block not found; the
\* ancestors above the cursor are then sent in ascending order.
RebuildEnds(t) ==
  LET h == task[t].cursor IN
  /\ task[t].phase = "rebuild"
  /\ h = 0 \/ h \in finalizedSeen \/ h \notin task[t].found
  /\ task' = [task EXCEPT ![t].phase = IF h + 1 < t THEN "send" ELSE "last",
                          ![t].cursor = h + 1]
  /\ UNCHANGED <<reported, handling, store, finalizedSeen,
                 requestVars, sent>>

\* buffer_tx.unbounded_send(ancestor).
SendAncestor(t) ==
  /\ task[t].phase = "send"
  /\ sent' = sent \cup {task[t].cursor}
  /\ Goto(t, "mark")
  /\ UNCHANGED <<reported, handling, store, finalizedSeen, requestVars>>

\* finalized_seen.insert(ancestor), and on to the next one.
MarkAncestor(t) ==
  LET h == task[t].cursor IN
  /\ task[t].phase = "mark"
  /\ finalizedSeen' = finalizedSeen \cup {h}
  /\ task' = [task EXCEPT ![t].phase = IF h + 1 < t THEN "send" ELSE "last",
                          ![t].cursor = h + 1]
  /\ UNCHANGED <<reported, handling, store, requestVars, sent>>

\* The reported block itself goes last.
SendTrigger(t) ==
  /\ task[t].phase = "last"
  /\ sent' = sent \cup {t}
  /\ task' = [task EXCEPT ![t] = [IdleTask EXCEPT !.phase = "done"]]
  /\ UNCHANGED <<reported, handling, store, finalizedSeen, requestVars>>

-----------------------------------------------------------------------------
Walk(t) == WalkEnds(t) \/ WalkDown(t) \/ LocalHit(t) \/ LocalMiss(t)
Fetch(t) == GiveUp(t) \/ SendRequest(t) \/ SendFails(t) \/ TakeAnswer(t) \/ TimeOut(t)
            \/ ReplyClosed(t)
Finish(t) == RebuildDown(t) \/ RebuildEnds(t) \/ SendAncestor(t) \/ MarkAncestor(t)
             \/ SendTrigger(t)
TaskStep(t) == Walk(t) \/ Fetch(t) \/ Finish(t)
Deliver == \E m \in wire : PeerHandles(m) \/ ReceiveResponse(m)

\* The process stops and starts again.  Tasks, tables, queues and both cursors
\* start from nothing, and so does the numbering of requests; messages to and
\* from the peers may still be on their way.  Marshal's archives keep what was
\* written of `store`.  The voter reports again the finalizations it finds in
\* its journal, except old ones it has pruned below a later one; a report
\* whose block is no longer stored waits until the block turns up.
Restart ==
  /\ faults < MaxFaults
  /\ faults' = faults + 1
  /\ \E kept \in SUBSET store :
       /\ store' = kept
       /\ \E notAgain \in SUBSET { t \in reported :
              t \notin kept \/ \E u \in reported : u > t } : reported' = notAgain
  /\ handling' = 0
  /\ finalizedSeen' = {}
  /\ task' = [t \in Triggers |-> IdleTask]
  /\ nextId' = 0
  /\ pendingReqs' = {}
  /\ sent' = {}
  /\ UNCHANGED <<wire, gaveUp>>

Next ==
  \/ MarkReported
  \/ Deliver
  \/ Restart
  \/ \E t \in Triggers : HandleFinalized(t) \/ TaskStep(t)

Spec == Init /\ [][Next]_vars

\* Every report reaches the actor, tasks run, and what is not faults arrives.
Fairness ==
  /\ WF_vars(MarkReported)
  /\ WF_vars(Deliver)
  /\ \A t \in Triggers : /\ WF_vars(HandleFinalized(t))
                         /\ WF_vars(TaskStep(t))

FairSpec == Spec /\ Fairness
-----------------------------------------------------------------------------
TypeOK ==
  /\ reported \subseteq Triggers
  /\ handling \in Triggers \cup {0}
  /\ store \subseteq 1 .. N
  /\ finalizedSeen \subseteq 1 .. N
  /\ task \in [Triggers -> Task]
  /\ nextId \in Nat
  /\ pendingReqs \subseteq [id: Nat, block: 1 .. N, task: Triggers]
  /\ \A m \in wire : m[1] \in 0 .. NumPeers - 1 /\ Decode(m[2]) # DecodeError
  /\ faults \in 0 .. MaxFaults
  /\ gaveUp \subseteq Triggers
  /\ sent \subseteq 1 .. N

\* A block in finalized_seen is taken for finalized by every other task and
\* never looked at again; so it must have been sent to run_buffer already, or
\* its own task must be still on its way to sending it.
SeenIsAccountedFor ==
  \A h \in finalizedSeen : h \in sent \/ (h \in Triggers /\ Running(h))

\* As long as no task gave up, a block below one sent to run_buffer has been
\* sent as well, or a running task will still send it.
NoHoleBelowSent ==
  gaveUp = {} =>
    \A h \in sent : \A k \in 1 .. h - 1 :
      k \in sent \/ \E t \in Triggers : Running(t) /\ k <= t /\ t <= h

\* The table of pending requests holds the request each waiting task waits
\* for, and nothing else: no timeout, late answer or failed send leaks one.
NoLeakedRequest ==
  \A r \in pendingReqs :
    task[r.task].phase = "wait" /\ task[r.task].id = r.id /\ task[r.task].reply = Empty

\* Whatever answers are late, and although a restart numbers the requests from
\* 0 again, a task is never handed a block other than the one it asked for.
AnsweredWithBlockAskedFor ==
  \A t \in Triggers : task[t].phase = "wait" => task[t].reply \in {Empty, Closed, task[t].cursor}

\* docs/ANCESTOR_FETCHING.md, "Partial reconstruction": after a fetch that
\* timed out the cursor stays blocked "until the block is eventually fetched
\* via a future finalization event".  A report of a higher block that comes
\* after such a task is done, and does not time out itself, therefore gets
\* everything below it forwarded.
FetchedByLaterFinalization ==
  \A t, u \in Triggers :
    (t < u /\ t \in gaveUp /\ task[t].phase = "done" /\ u \notin reported)
      ~> (1 .. u \subseteq sent \/ u \in gaveUp)

\* Every block reported to the running process is sent to run_buffer with all
\* its ancestors, also when a restart has emptied every table, unless a task
\* runs out of time.
EventuallyForwarded ==
  \A t \in Triggers :
    <>[](task[t].phase # "idle") => <>(1 .. t \subseteq sent \/ gaveUp # {})
=============================================================================
