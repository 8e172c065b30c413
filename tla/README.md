# Gatling in TLA+

Gatling runs K independent threshold-Simplex consensus instances on one
validator set and merges their finalized blocks into one global log. This
directory holds TLA+ models of that merging and of the parts that feed it, TLC
configurations that check them on small instances, and TLAPS proofs of the
results that matter most. File names below are relative to the repository.

## 1. Inventory of the system

```
 client -> HTTP server --+                                     (Cluster,
 --submit-tx generator --+--> Mempool <--- tx_gossip <- peers   TransactionGossip)
                                |
                                v
               Propose tasks of K instances                    (Proposals,
                                |  ^                            ProposalTiming)
                                v  | ask / answer / broadcast
                     voter of instance 1..K (vendored) <-----> Verify tasks
                                |  certificates                (Verification)
          +---------------------+---------------+
          v                                     v
     Pusher -> indexer -> client library    FinalizationPusher (Verification)
     -> inspector  (IndexerClient)              |
                                                v
             application actor: Message::Finalized, finalize_ancestors
                         (AncestorFinalization, AncestorWire)
                                                |  any order, repeats
                                                v
                    run_buffer, one per instance (InstanceBuffer, NodePipeline)
                                                |  std channel shared by all
                                                v
                  gatling_thread (GatlingThread, GlobalOrder) -> log lines

 main(): builds, starts and waits for all of this (ValidatorProcess, Cluster),
 from the files setup writes (Deployment)
```

| Component | State | Operations | What makes it hard | What makes it correct |
|---|---|---|---|---|
| `gatling_thread`, `chain/src/bin/validator.rs` | per instance a map view -> Option<Block> and `finalized_up_to`; a cursor (view, instance) | take a block, fill gaps, advance the cursor over blocks, gaps and skipped cells | blocks of different instances arrive in any relative order; an empty cell must be judged as "gap" or "not yet" from indirect evidence | the log is the blocks in (view, instance) order, none missing and none invented; every validator's log is the same; it never waits needlessly |
| `run_buffer`, `chain/src/application/actor.rs` | next height, pending blocks, digests seen | receive, drop repeats, forward the contiguous prefix | out-of-order and repeated input | heights leave as 1, 2, 3, ..., and as early as possible |
| `Message::Finalized` and `finalize_ancestors`, same file | `finalized_seen`, the table of pending requests, one task per report | walk down the parents, look up locally, ask peers, reconstruct, send, mark | tasks share state and run in parallel with the handler; sends fail, answers get lost or come late; a task may give up; a restart empties everything but storage | everything below a block handed on is handed on; the table does not leak; marked blocks are not forgotten; no block is taken for another |
| `AncestorFetcher` and its codec, same file | none | encode, decode | hand-written lengths and counts | what is sent is what is received |
| `Message::Propose` / `Broadcast`, same file | `built`, one task per request | first pickup, wait for the parent, sleep to `tproposal`, second pickup, answer | view changes during the sleep; tasks of several views and instances share the pool and `built` | one place per transaction, order of arrival kept, no early or double proposal, an answer to each request, the block broadcast is the block proposed |
| `Message::Verify`, same file; `FinalizationPusher`, `ingress.rs` | one task per request, one per finalization | wait for the block and its parent, check, hand to marshal, answer; wait for a finalized block, send it on, store it | blocks come late or never, before or after their certificate; views end meanwhile; crash between vote and storage, or between report and storage | certified blocks are chains; a voted block is kept; a finalized block reaches the application and the storage of whoever has it |
| `Mempool`, `mempool.rs` | FIFO of digests and a map | add, next | shared by K instances, popped destructively | see the row on Propose |
| Validator process, `validator.rs`, `engine.rs` | tasks, engines, the gatling channel | start, wait for genesis, spawn, wait for an error, join, exit | tasks run while main still starts others, and after it stops; failure at any point | nothing before genesis, no event lost, errors are seen, main ends |
| HTTP server, generator, gossip, `http_server.rs`, `validator.rs` | broadcast channel, p2p channel | submit, generate, send, receive | everything in memory; crashes; peers that come later | accepted transactions reach the pools and survive a crash |
| Pusher, client, inspector, `indexer.rs`, `client/`, `inspector/` | upload tasks, the inspector's command | upload, get, range, listen | a service between them that may answer anything | what is shown is what was asked for; what was uploaded is shown |
| Setup and supervisor, `setup.rs`, `supervisor.rs` | files; the indexer loop's lists; sorted participants | generate, indexer, explorer; index, leader | several programs number the peers on their own; regions run out of peers in the round robin; files that cannot be updated; 16-bit ports | ports, genesis, indices and listeners agree on all validators; the indexer's peers are spread over the regions |
| Consensus voter (vendored) | view, proposal and verify requests | enter view, ask, cast, refuse, vote | times out while the application works | agreement per instance: assumed here |
| Marshal, batcher, resolver (vendored) | archives | store, subscribe | library | external: storage that may or may not answer |
| Explorer, scripts, log post-processing | - | I/O | - | not modelled, see section 8 |

## 2. Modules

| Module | Kind | Models |
|---|---|---|
| `GatlingOrder` | operators | the (view, instance) matrix, its order, `advance_cursor` |
| `GlobalOrder` | abstract specification | what the thread promises: the log grows by the least finalized block not yet in it |
| `GatlingThread` | component | `gatling_thread`, `finalize_block_at_view` |
| `GatlingThreadProofs` | proofs | the inductive invariant, the invariants, the refinement of `GlobalOrder` |
| `GatlingAgreement` | composition | two threads on two validators over the same decided chains |
| `GatlingAgreementProofs` | proofs | agreement of the two logs |
| `InstanceBuffer` | component | `run_buffer` |
| `NodePipeline` | composition | the `run_buffer`s of K instances, the channel and `gatling_thread` of one validator, and its restart |
| `NodePipelineProofs` | proofs | the safety of the buffers and of the whole, and that the thread's assumption holds |
| `AncestorWire` | operators | the messages of ancestor fetching and their codec |
| `AncestorFinalization` | component | `Message::Finalized`, `finalize_ancestors`, `ancestor_message_handler` on both sides, restart |
| `AncestorFinalizationProofs` | proofs | its safety, and the codec |
| `Proposals` | component | mempool, propose tasks, broadcast, the voter's side of them |
| `ProposalsProofs` | proofs | types, arrival order, one timely proposal, one place per arrival |
| `ProposalTiming` | operators | `tproposal`, proposal offsets, channel numbers |
| `Verification` | component | proposal, verify task, votes, certificates, FinalizationPusher, at all validators of one instance |
| `VerificationProofs` | proofs | chains, and that notarized blocks are kept |
| `ValidatorProcess` | component | `main` and the engines' life |
| `TransactionGossip` | component | pools and channels a transaction passes |
| `Cluster` | composition | the processes of the validators with the transactions between them |
| `ClusterProofs` | proofs | its safety |
| `IndexerClient` | component | Pusher, client library, inspector |
| `Deployment` | component | the runs of `setup`, the files they write and read, and what a validator makes of them |
| `ConfigurationProofs` | proofs | the safety of `Deployment`, with `ProposalTiming`; what the inspector of `IndexerClient` shows |
| `MC*` | TLC instances | values of the constants; in `MCProposals` also an assumption on `ProposalTiming` that TLC evaluates |

Operators called "Mutant of X" are plausible wrong versions of X: each breaks
one property of section 5, which shows that the property can fail. No
specification uses them.

### GatlingThread

`blocks[i]` and `gaps[i]` are the keys of `instance_queues[i]` with `Some` and
`None`; a block is named by its cell, since it is queued under `block.view`.
`finalizedUpTo`, `cursor` and `pc` are the thread's; `log` is the sequence of
log lines. `chain` is what consensus decides (any function from instances to
sets of views) and `fed` what the channel has delivered: both belong to the
environment. `Receive(i)` is step 1 of the loop (gap filling and insertion); the
iterations of the cursor loop are `FinalizeCell`, `PassSettledCell`,
`PassSkippedCell` and `Await`, one per branch. The thread is single, so a step
per iteration loses no interleaving; it is kept that fine because the
refinement is step by step.

Assumptions: an instance's blocks arrive in ascending height (proved in
`NodePipelineProofs`), and a child has a higher view than its parent. The
latter holds because an honest proposer puts the consensus view into the block
(`actor.rs`, Propose) and the view of a child is later than its parent's in
Simplex. `Message::Verify` does not compare `block.view` with the consensus
view, so for blocks of proposers that deviate this is an assumption and not a
check of the code.

### InstanceBuffer

The `run_buffer` tasks of all instances, each variable a function of the instance. A
block is its height: one block is finalized per height. `Accept` is one `rx.next()`
with the digest check, `Forward` one turn of the inner loop, `Hold` its end. `Send`
puts a height into an instance's channel at any time, so what is shown holds whatever
the finalize_ancestors tasks send.

### NodePipeline

`InstanceBuffer` for K instances and `GatlingThread`, joined by the channel of
`GatlingEvent`s (`events`). The thread takes the event at the head, whatever it is:
`GatlingThread!Enqueue` without the assumption `NextToFeed`. The block of height h is
the h-th of its instance's chain, and an event names it by its view. `SendBlock` is a
finalize_ancestors task that sends any block of the chain any number of times.
`Restart` empties everything; `former` keeps what the last process had logged.

### AncestorFinalization and AncestorWire

Heights 1..N are the finalized chain and the parent of h is h - 1. `HandleFinalized`
and `MarkReported` are the two halves of the handler with the spawned tasks
between them. A `finalize_ancestors` task is a record whose `phase` is its program
point: every point at which the code awaits or takes a lock is a step of its own.
Request ids come from a counter that a restart resets. `PeerHandles` and
`ReceiveResponse` are the peer's and our `ancestor_message_handler`; `wire` holds
encoded messages. `LocalMiss` covers a block that is not stored and one whose
archive answers too slowly. When a timeout and an answer are both ready either
branch of `select!` may be taken. One branch is unreachable and left out: no peers
at all (the participants include the validator).

A fault is a restart, a send that fails, an answer that is late, a local lookup
that is too slow, or a task that runs out of time. `Restart` keeps any part of the
storage and all messages on the wire, and reports again what the voter finds in its
journal; a report whose block is no longer stored waits until the block turns up.

Each finalized block is reported at most once per run of the process: reports come
from `FinalizationPusher` only, because the marshal's mailbox is not part of the
reporter chain (`chain/src/engine.rs`). For the same reason the `Reporter` of the
application's mailbox, which would report with view 0, is never called.

The codec is modelled as what it does with the fields of a message. `Block::decode`
takes all bytes it is given, so a response with several blocks cannot be decoded;
the running system asks for one block at a time and never meets this.

### Proposals and ProposalTiming

A block is its view and its transactions. The clock counts slots of 3000/K ms,
in which `tproposal` is `v * K + i`; `TimingChecked` in `MCProposals` compares
these slots with the millisecond arithmetic of `ProposalTiming`. The voter may leave
its view at any time, may refuse an answer because its view timed out, and asks once
per view it leads (`requested_proposal_build`). A task that has started sleeping
does not watch its response; `Open` says whether the voter still listens. Storing
`built` and answering are two steps, because the voter runs in another task. The
bound of the actor's mailbox is not modelled.

### Verification

All validators of one instance that run this code; others only by the votes they may
add and the proposals they may make. A block is its digest, parent, height, time and
whether its transactions' signatures verify. `AskVerify`, `Check`, `Answer`, `Abort`
are the verify task around its awaits: both blocks (`join`, `select!` with the closed
response), the comparisons and `marshal.verified`, the answer. `Check` enqueues at
marshal and `Store` writes later, so a crash in between loses the block. A leader
votes unasked and keeps its block in memory only. `ReportFinalization` and
`PushFinalized` are the FinalizationPusher, `HandleFinalized` is the part of
Message::Finalized that hands the block to marshal (`persist_finalized`); its walk down
the ancestors is `AncestorFinalization`. The voter reports a finalization after it has
synced its journal and reports all of the journal again after a restart, so `Crash` sets
the tasks of `finalized` to waiting (the journal is pruned below `activity_timeout`
views, which two views do not reach). `marshal.subscribe` with a view also asks peers;
that is never answered, because no marshal is told of notarizations (section 2,
AncestorFinalization), so a block lost in a crash comes back by the leader's broadcast or
by ancestor finalization only. Certification needs `Quorum` votes of
which `MaxFaulty` may be anybody's; `QuorumAssumption` says that one vote at least is
that of an honest validator other than the leader.

### ValidatorProcess, TransactionGossip, Cluster

`stage` is how far `main` has got, `tasks` what runs. What a task does when it fails is
taken from the code: a panic is an error of its handle, an HTTP server that cannot
bind its port and an engine whose actor fails are logged and end without one
(`engine.rs:398-409` returns `()`). `Cluster` says which task takes which step of
`TransactionGossip`, and that a process that ends takes its pool and channels along.
Messages to a validator that waits for genesis are kept in its channel. Two
messages on gossip are one: the pool does not hold a digest twice. A validator
without gossip never reads its transaction channel.

### IndexerClient

All instances upload under paths that name a kind and a view, never an instance. The
indexer may answer a query with anything it holds, or with something `Foreign`.
`Result` is the chain of checks of the four get functions, in their order: decode,
signature, query.

### Deployment

A state machine whose state is the files. `GenerateLocal` and `GenerateRemote` are the
two forms of `setup generate`, for any set of keys; `configs` holds each peer's file
with the fields that differ between peers or count on another file, `addresses` is
peers.yaml and `region` what config.yaml says of the hosts. A file is written as a
whole or left as it was: that `fs::write` fails halfway and leaves a truncated file is
not modelled. `generate local` without
room for its ports in 16 bits panics before it writes (overflow checks are on in
every profile, `Cargo.toml:47-64`), so `HasRoom` is its guard. `StartIndexer`,
`TakePeer`, `SkipRegion` and `WriteSelected` are `setup indexer`: its grouping, a turn
of its loop that takes a peer or meets a region that has run out, and the update of
the files, of which any may fail and is then only logged (`failed`). It may be run
again. `StartValidators` ends the setup; what a validator reads is `DialledPort`,
`ParticipantIndex` and `LeaderFor`. Keys and names of regions are numbers in the order
of their bytes, which is also that of their hexadecimal strings.

## 3. Interactions

`NextToFeed` in `GatlingThread` (ascending order per instance) is what
`ForwardedInHeightOrder` of `InstanceBuffer` guarantees for any input, among it what
`AncestorFinalization` sends; `NodePipeline` composes the two, and it is checked and
proved that the thread then behaves as `GatlingThread` says. That the finalized blocks are a chain with
consecutive heights, which `AncestorFinalization` assumes, is `CertifiedChain` of
`Verification`; that a finalized block is reported at all, and stored for later walks and
requests, is its `FinalizedHandledAndStored`. `GatlingAgreement` instantiates `GatlingThread` twice over
one `chain`. `Cluster` composes `ValidatorProcess` and `TransactionGossip`; the order
in which a proposal takes transactions from the pool is the subject of `Proposals`.
`Deployment` uses the arithmetic of `ProposalTiming`
for the validators it starts; `MCProposals` compares it with the slots of `Proposals`.

## 4. Properties

Each is commented where it is defined. In brief:

- GatlingThread: `LogIsGlobalOrder` (`LogIsBlocksBelowCursor` and
  `LogStrictlyOrdered`), `WaitsOnlyForLaggard`, `QueueWithinWindow`,
  `ImplementsGlobalOrder` (refinement), `OrderableBlockLogged` (liveness);
  `NoBlockBehindCursor`, an action property that is proved only.
- GatlingAgreement: `Agreement`, `LoggedEverywhere` (liveness).
- InstanceBuffer, as part of NodePipeline: `ForwardedInHeightOrder`,
  `NothingWithheld`.
- NodePipeline: `ThreadAsSpecified` (the thread's assumption holds), `SameLogAgain`,
  `LoggedByEveryRun` (liveness).
- AncestorFinalization: `SeenIsAccountedFor`, `NoHoleBelowSent`,
  `NoLeakedRequest`, `AnsweredWithBlockAskedFor`, `EventuallyForwarded` (liveness),
  `FetchedByLaterFinalization` (documented, not so).
- Proposals: `OnePlacePerArrival`, `ProposedInArrivalOrder`,
  `OneTimelyProposalPerView`, `RequestAnswered` (liveness), `NoTransactionLost`
  and `BroadcastsProposedBlock` (documented, not so).
- Verification: `CertifiedChain`, `CertifiedBlockKept`, `FinalizedHandledAndStored`
  (liveness). That a verify task ends when its view does is a single step (`Abort`) and
  no property.
- Cluster: `QuietBeforeGenesis`, `GossipOutlivesCrash`, `NeverReturns`,
  `GossipReachesPool`, `EventsReachThread`, `ErrorReachesMain` (liveness).
  `NeverReturns` is finding 4: a process that joins its gatling thread does not get
  past it. It is no wish; a fix of the code would break it.
- Deployment: `FilesFit` (`PortsApart`, `GenesisAhead`, `SameIndices`, `DialsListener`),
  `InstancesApart` (`ProposalsInOrder`, `ChannelsKeptApart`), `SpreadOverRegions`,
  `SelectionEnds` (liveness).
- IndexerClient: `ShownAnswersQuery` (proved), `UploadedIsAccepted` (documented, not so).

## 5. Runs

| Run | Instance | States | Shows |
|---|---|---|---|
| `gatling_thread` | K = 3, views 1..3, all 512 choices of chains | 25 thousand | safety, refinement and liveness of the thread |
| `agreement` | two validators, K = 2, views 1..3 | 30 thousand | the logs agree, and each catches up with the other |
| `node_pipeline` | K = 2, views 1..3, every chain of up to three blocks for one instance and of up to one for the other, one block in each buffer's channel at a time, one restart | 158 thousand | run_buffer, the path from the buffers to the log, and that a restarted process writes the same log |
| `ancestor` | N = 3, heights 2 and 3 reported, two participants of which one holds every block, empty storage, one fault | 354 thousand | ancestor finalization with faults and a restart |
| `ancestor_give_up` | the same | violation | finding 1 |
| `proposals` | K = 2, one instance leads two views and the other one, three transactions, blocks of two | 317 thousand | the shared mempool and the proposals |
| `proposals_broadcast` | K = 1, two transactions, two views | violation | finding 2 |
| `proposals_lost` | K = 1, two transactions, two views | violation | finding 3 |
| `cluster` | two validators, both gossip, the first generates and runs the gatling thread, one client transaction, one event of consensus, one fault | 108 thousand | start, run and end of the processes with transactions between them; finding 4 |
| `verification` | two honest validators running out of four (quorum 3, one may deviate), an honest leader and then one that proposes anything, four blocks of which two are good, one crash | 476 thousand | verifying, voting, storing, handing on |
| `deployment` | up to four peers, up to three regions in any list, start ports far from, among, just above the HTTP servers' and without room, two runs of setup indexer, 1, 3 or 7 instances | 197 thousand | the files agree with one another, the indexer's peers are spread, proposals and channels of the validators started |
| `client` | one instance | violation | finding 5 |

Why the bounds are enough for the questions asked.

- The thread's behaviour at a cell depends on one instance's queue relative to the
  cursor: three views give a block behind a gap, adjacent blocks, and a gap above
  `finalized_up_to`; three instances distinguish the first, a middle and the last in
  the cursor's wrap. The theorems remove these bounds.
- In `node_pipeline` three heights can arrive in every order, with two held back for a
  third, and one restart makes a second order. The other instance's single block keeps
  the two out of step.
- Ancestor tasks interact in pairs, through a mark that one makes and the other
  meets. Two reports over three heights have a shared ancestor and a report that is
  itself an ancestor of the other. One fault at any point is the smallest that makes
  each recovery branch run; a restart reuses request ids while answers of the former
  process are still on the wire. The safety theorems hold for any number of each.
- Two instances and two views of one of them are what it takes for two tasks to
  compete for the pool and for the slot `built`; the third transaction overfills a
  block.
- Two validators are a sender and a receiver of gossip. `Genesis` = 1 and
  `MaxNow` = 2 give an instant before, at and after genesis, so that messages meet a
  validator that still waits.
- Four peers in up to three regions have a region with two peers, one that runs out
  before the others, and lists with repetitions; the second run of setup indexer takes
  more than the first, or fewer. The clock stands just before a full minute, where
  genesis is nearest.
- Two views of Verification are a block and its parent under different leaders; the four
  blocks are wrong in one way each (height, time) or right. A bad signature ends a task
  as these do; that it does is left to the proofs. One crash can strike between any two of
  vote, report, message and storage; as each report may be repeated after it, a second
  one would meet the same states.

Deadlock is not checked, because in every run the modelled system really stops: the
blocks of the finite chains are ordered, the reports are handled, the last view or the
end of the clock is reached, the process has exited, or the validators have started.

The type invariants of the compositions and of `Deployment`, and the inductive
invariants, are left to the proofs; TLC agreed with them on the same instances before
they were proved.

## 6. Fairness

- `gatling_thread`: weak fairness of the thread's steps (a thread of its own that
  blocks only in `rx.recv()`) and of each instance's deliveries (what
  `EventuallyForwarded` says of the pipelines). `OrderableBlockLogged` speaks only of
  cells every instance has a block at or after: an instance that finalizes nothing
  more blocks the global order by design.
- Node pipeline: weak fairness of buffers and thread; that every finalized block is
  sent to the buffer of each run of the process is `EventuallyForwarded` below. It is
  strong fairness, because the bound of the channel, which is unbounded in the code,
  disables sending again and again.
- Ancestor finalization: weak fairness of the handler (`HandleFinalized`,
  `MarkReported`), of each task's steps, and of the network's deliveries of messages
  that are not lost. Faults are bounded by `MaxFaults`; without a bound no liveness
  could hold, since a task gives up after its time limit. `EventuallyForwarded` speaks
  of reports whose task did not give up.
- Proposals: weak fairness of the clock, the actors and the tasks, which are tokio
  tasks with nothing to wait for but what their guard says. Nothing is assumed of
  voters and clients: `RequestAnswered` speaks of views that go on.
- Verification: weak fairness of storage, of FinalizationPusher's tasks and of the
  application's loop. Nothing is assumed of verify tasks, voters, leaders and the
  network: a block or a certificate may never come, and the property is about those
  validators that have both. Crashes are bounded (`MaxCrashed`).
- Deployment: a run of `setup indexer` goes on to its end (weak fairness of its loop);
  nobody has to run anything.
- Cluster: weak fairness of the clock, of main, of the gatling thread and of the
  receiving side of gossip. Nothing makes a client submit, an instance finalize or
  anything fail.

## 7. What is proved

`GatlingThreadProofs`, for every K >= 1 and every set of positive views (finite or
not): `SpecIInv`. The invariant `IInv` adds to the properties `Window(i)` and
`CursorInWindow(i)`. `Window` says that `fed`, `finalizedUpTo` and the queue of an
instance describe one window of its chain: the blocks queued are exactly those
delivered and not yet logged, and every `None` lies in the window and is no block. It
is needed because "the log is the blocks below the cursor" alone says nothing of what
is queued, so the step that passes a skipped cell could not exclude a block still to
come there. `CursorInWindow` ties the cursor to the windows: past everything logged,
not past anything queued, and never past a view above what the instance has
delivered. From `IInv` follow `TypeCorrect`, `LogComplete`, `WaitsForLaggard`,
`QueueBounded`, `NoLateBlock` and, with the step-by-step argument, `Refinement`:
`FinalizeCell` appends the least block not yet in the log, every other
step stutters.

`GatlingAgreementProofs`: `AgreementHolds`, `TypesOfBoth`. Both threads satisfy
`IInv`, as a step of one is a stutter of the other. Two logs that are strictly ordered
and consist of all blocks below some cursor are prefixes of each other (`SameLog`, by
counting): at position j stands the block with j - 1 blocks before it, and that number
depends on the chains only.

`NodePipelineProofs`, for any number of instances, any chains of theirs, any blocks sent
in any order and number, and any number of restarts: `TypeCorrect`, `HeightOrder`,
`NothingLost`, `ThreadSpecified`, `RewritesLog`. Of a buffer alone the conjunction of
its three properties is inductive. The invariant of the whole is that of the parts and
`Linked`: the events of an instance are just the blocks of its chain that its buffer
has forwarded and the thread has not taken, by ascending view; those of different
instances are in any order. The buffers' invariant speaks of heights and the thread's
of views; `HeightAscends` and `ViewAscends` say that the two ascend together along a
chain. From `Linked` the event at the head is the next block of its instance
(`HeadIsNext`), which is what `GatlingThread` assumes.
For the restart the invariant keeps that `former` is an ordered log of the same chains;
`SameLog` does the rest.

`AncestorFinalizationProofs`, for any chain, reports, peers, storage and number of
faults: `TypeCorrect`, `NothingSeenIsLost`, `NoHole`, `NoRequestLeaks`, `AnswersFit`.
`IInv` has three layers. `Base` says where tasks are (what phase, where the walk
stands, which reports have a task) and that a digest names one block. `Requests` ties
the table of pending requests to the tasks: an entry belongs to a task that waits for
just that id and block. It is needed because ids repeat after a restart: what
excludes a wrong block is that an answer is matched by the digest of its block and
not by its id alone. `Order` says that
a seen block is sent or owed by its own running task, and, as long as no task gave
up, that a task has walked down to a seen block and that all below what was sent is
sent or owed (`Covered`). Without `Covered` the step that ends a walk at a seen block
could not know that what lies below is taken care of.
`RequestRoundTrip` and `ResponseRoundTrip` are about the codec: a request is decoded as
it was sent, a response exactly if it holds at most one block.

`ProposalsProofs`, for any K, leaders, transactions and bounds: `TypeCorrect`,
`ArrivalOrder`, `OneProposal`, `OnePlace`. `Casting` follows a request from the mailbox through
the task to the answer and the vote: it is in one of these places at a time, each view
is asked once, and a block travels with its own view and not before its time.
`InOrder` says that the pool, every task, answer and proposal are ordered by arrival
and that whatever a task holds arrived before all that is still in the pool, which is
what makes the second pickup an extension of the first. `OnePlace` is a count: the
occurrences of a transaction in the pool and the tasks, answers and proposals that hold
it are at most its arrivals. Each step moves one of them to the next place or drops it
(`MovesOne`), and only `Submit` adds one, together with an arrival.

`VerificationProofs`, for any leaders, blocks, number of honest validators and any
quorum above the deviating ones plus one: `TypeCorrect`, `ChainsAreSound`,
`NotarizedBlockKept`. The invariant adds that an honest verifier's vote implies that its
checks passed and that it queued the block or crashed. The last theorem counts: a quorum
holds more verifiers than crashes may take.

`ClusterProofs`, for any finite number of validators, any number of instances,
transactions, events and faults, and any choice of who gossips, generates and runs the
gatling thread: `TypeCorrect`, `QuietUntilGenesis`, `GossipSurvives`,
`JoinNeverReturns`. Quiet before genesis needs that no process gets past its start
before genesis (`AllEarly`) and that one that has not got past it runs its network only
(`EarlyIsIdle`): whatever reaches it waits in a channel nobody reads. That gossip
outlives crashes is a count. A validator is struck for a transaction if it was handed
it and no longer holds it, or is on its way to that because a task of it failed or its
network ended (`Hurt`); `FaultsCounted` says that at most as many validators are struck
as faults have happened. `Hurt` is needed because the fault comes earlier than the
loss: without it the exit of a process after a failed task would be a loss without a
fault. `JoinNeverReturns` is finding 4 in general: no failure of engines or tasks lets
main return from the join, because main itself holds a sender.

`ConfigurationProofs`, of `Deployment` for any finite set of keys, any regions, start
ports, clocks and number of runs of setup indexer: `SetupTypes` (every port fits in 16
bits), `LocalPortsApart`, `OneGenesisAhead`, `IndicesAgree`, `DialsWhereListened`,
`FilesFitTogether`, `IndexersSpread`, `ProposalsDueInOrder`, `ChannelsStayApart`,
`InstancesStayApart`. The invariant `AsWritten`
says that each file is what setup wrote as a function of the set of keys and of its
arguments, but for the field `indexer`; from it the properties of ports, genesis and
indices are arithmetic and counting (`RankBounded`, `RankInjective`, `RankOnto`: ranks
number a set of keys from 0 without a hole). For `IndexersSpread` the loop has to be
known in advance. Of m regions, the peer with j others before it in its region, which
has p other regions before it, is taken at turn `Slot` = m * j + p, also when turns are
passed over that regions without peers keep. So what a run has taken by turn n is
`UpTo(n)`, the peers with a slot below n, in which no region is ahead of another with
peers left by two. These sets are nested: what several runs have
selected together, in files or failed, is `UpTo` of the largest count (`SpreadInv`).

Of the arithmetic: `ProposalsInGlobalOrder` (the milliseconds of `tproposal` give every
instance and view its own time, in the order of the global log, for K up to 3000; above
that the integer division lets two instances share one), `OffsetsAgree`,
`ChannelsAreApart`. Of `IndexerClient`: `ShownIsAsked` (what is shown has passed all
checks of its query) and `NoCertificateShown`, which is finding 5 for any number of
instances: as long as no instance's namespace is the client's, no certificate is ever
shown.

Assumptions used, all evaluated by TLC in the runs: `InstancesAssumption`,
`ViewsAssumption`, `ChainAssumption`, `PeersAssumption`, `BoundsAssumption`,
`PipelineAssumption`, `ProposalsAssumption`, `VerificationAssumption`,
`QuorumAssumption`, `ProcessAssumption`, `DeploymentAssumption`.

Only model-checked: all liveness (fairness and ENABLED are outside what TLAPS does), in
particular `SelectionEnds`. Every safety property of a passing run is proved.

## 8. Not modelled

- The explorer, `client/src/bin` (submit client), the scripts and the log tools: I/O
  and offline evaluation, without a state anything else depends on.
  `types/src/wasm.rs` wraps for the explorer what the client library does.
- The vendored engines nobody starts (`simplex`, `aggregation`, `ordered_broadcast`),
  and the voter's own voting, the batcher, resolver and marshal: a library. What this
  code assumes of them is agreement per instance, certificates that carry a quorum,
  and storage that may answer late or not at all.
- The HTTP server of a single instance and `Message::SubmitTransaction`: nothing
  starts it; the validator has its own server for all instances, which is modelled.
  The `Reporter` of the application's mailbox: no chain of reporters contains it.
- Bounds of mailboxes: their senders wait, and no cycle of senders was found in the
  code that is modelled. The generation of keys in setup.
- A restart of the whole path at once. It is an action in `AncestorFinalization`
  (where the storage survives), in `NodePipeline` (where nothing does) and in
  `Cluster`; the three meet in what each assumes of the other.

`chain/src/lib.rs` consists mostly of integration tests.

## 9. Findings

1. `docs/ANCESTOR_FETCHING.md:145` promises that a hole left by a task that ran out of
   time is filled by a later finalization. It never is: later tasks stop at the block
   that is already in `finalized_seen` (`actor.rs:752`, `:977`).
2. Message::Broadcast sends `built` without the comparison its comment announces
   (`actor.rs:593`); a stale propose task can have overwritten it.
3. `GATLING_SPEC.md:129-131` has every transaction in exactly one block; those held by
   a cancelled propose task are in none (`actor.rs:584`).
4. After the first error main joins the gatling thread, which ends only when the
   senders are gone that main itself and the engines hold (`validator.rs:858`). The
   comments there speak of all tasks having finished, and
   `docs/ARCHITECTURE_RELATIONSHIPS.md:463` of graceful shutdown. Here it is no
   violated property: run `cluster` checks `NeverReturns`, and `JoinNeverReturns`
   proves it.
5. Instances sign under their own namespace (`validator.rs:559`), the client verifies
   under the common one (`client/src/consensus.rs`).

Smaller differences met on the way and not given a run:

- `docs/GATLING_FINALIZATION_RULE.md:80-82` describes gap filling below an instance's
  first block too; the code skips it (`validator.rs:113`). The order is
  unaffected, as `ImplementsGlobalOrder` shows.
- The docs name LOCAL_CHECK_TIMEOUT_MS for the responder's lookup, which is 15 ms
  (`actor.rs:363`), and an immediate retry after a failed send, where the code pauses
  200 ms first (`actor.rs:832`).
- `GATLING_SPEC.md:68` puts ancestor messages on base + 5; the code on base + 6
  (`validator.rs:35`), and 5 is the transactions' channel.
- `GATLING_SPEC.md:109`: "if any fails the engine exits". It does, but without an error:
  `main`, which waits for errors, does not learn of it (`engine.rs:406`).
- `docs/TRANSACTION_GOSSIP.md:149`, "survives even if the receiving validator crashes",
  is not so between the answer to the client and the broadcast; line 287,
  "verified **before** being added to mempool", not for what gossip brings
  (`validator.rs:800-811`); blocks are checked as a whole in Verify.
- `docs/SUBMIT_TX_CLIENT.md:338` speaks of replay protection; the pool compares only
  with what it holds at that moment.
- `docs/PROPOSAL_TIMING.md` is outdated: it places proposals at an offset of 0 to 999 ms
  within each second (`instance_index * 1000 / num_instances`, compared with
  `current_ms % 1000`). The code counts from genesis, `v * 3000 + (k - 1) * 3000 / K`
  (`actor.rs:232-243`, `validator.rs:560`), which is what `ProposalTiming` models.
- `setup.rs:284` and `:444` say "rounded up to the next minute" plus 4 and plus 1. The
  code adds 4 and 2 to the full minutes passed (rounded down): the first is a minute
  less than its comment says unless setup runs on a full minute, the second a minute
  more if it does.
- A response with several blocks cannot be decoded (section 2, AncestorWire).
- All K instances upload under the same paths of the indexer, keyed by view.
- A validator without gossip never reads its transaction channel.

## 10. Plan

Done: the thread with its abstract specification and agreement, run_buffer of any number
of instances, composed with the thread and a restart, ancestor finalization with faults
and restart, the codec, proposals, verification, start and end of the process, gossip,
the indexer's client, setup with its files, the arithmetic of times, channels and ports;
safety proofs for all of them. Left:

1. What `AncestorFinalization` sends composed with the buffers in one proof, so that
   `ForwardedInHeightOrder` and `NoHoleBelowSent` meet.
2. The voter's proposal and verification state in more detail, the marshal's
   delivery, bounded mailboxes.
