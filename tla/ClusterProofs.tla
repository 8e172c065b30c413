---------------------------- MODULE ClusterProofs ----------------------------
(***************************************************************************)
(* The safety of Cluster, for any finite number of validators, instances,  *)
(* transactions, events and faults, and whichever validators gossip,       *)
(* generate transactions or run the gatling thread.                        *)
(***************************************************************************)
EXTENDS Cluster, FiniteSetTheorems, SequenceTheorems, TLAPS

Early(v) == stage[v] \in {"down", "init"}

\* Up to genesis a process has no more than its network.
EarlyIsIdle ==
  \A v \in Validators : Early(v) => tasks[v] \subseteq {Service("p2p")} /\ emitted[v] = 0

AllEarly == now < Genesis => \A v \in Validators : Early(v)

QuietInv == TypeOK /\ EarlyIsIdle /\ AllEarly /\ QuietBeforeGenesis

\* A task of v's process has failed, or its network has ended: the process
\* may be on its way to its end.
Hurt(v) == errored[v] \/ (stage[v] # "down" /\ Service("p2p") \notin tasks[v])

\* v was handed t and does not hold it any more.
Lost(v, t) == v \in reached[t] /\ ~Holds(v, t)

Struck(t) == { v \in Validators : Lost(v, t) \/ Hurt(v) }

\* A fault strikes one validator.
FaultsCounted == \A t \in Txs : Cardinality(Struck(t)) <= faults

JoiningIsHurt == \A v \in Validators : stage[v] = "joining" => Hurt(v)

OutliveInv == TypeOK /\ JoiningIsHurt /\ FaultsCounted
-----------------------------------------------------------------------------
(* Types. *)

\* What a process's task set may be after a task is added or has ended.
LEMMA TasksChange ==
  ASSUME ProcessTypeOK, NEW v \in Validators, NEW S, S \subseteq AllTasks(v),
         tasks' = [tasks EXCEPT ![v] = S]
  PROVE  DOMAIN tasks' = Validators /\ \A u \in Validators : tasks'[u] \subseteq AllTasks(u)
BY DEF ProcessTypeOK

LEMMA TasksNamed ==
  ASSUME NEW v \in Validators
  PROVE  /\ Service("p2p") \in AllTasks(v)
         /\ Services(v) \subseteq AllTasks(v)
         /\ \A i \in Inst : EngineTask(i) \in AllTasks(v)
BY DEF AllTasks

\* The tasks of one process.
LEMMA TasksOf ==
  ASSUME ProcessTypeOK, NEW v \in Validators
  PROVE  tasks[v] \subseteq AllTasks(v)
BY DEF ProcessTypeOK

LEMMA TickTypes == ProcessTypeOK /\ Tick => ProcessTypeOK'
<1> SUFFICES ASSUME ProcessTypeOK, Tick PROVE ProcessTypeOK'
  OBVIOUS
<1>1. now' \in 0 .. MaxNow
  BY ProcessAssumption DEF ProcessTypeOK, Tick
<1>2. QED
  BY <1>1 DEF ProcessTypeOK, Tick

\* Main and what it starts.
LEMMA MainTypes ==
  ASSUME ProcessTypeOK, NEW v \in Validators,
         Start(v) \/ GenesisPassed(v) \/ StartEngine(v) \/ SpawnThread(v) \/ MainWakes(v) \/ Exit(v)
  PROVE  ProcessTypeOK'
<1>1. PICK S : S = tasks[v]
  OBVIOUS
<1>2. S \subseteq AllTasks(v)
  BY <1>1, TasksOf
<1>3. CASE Start(v)
  <2>1. DOMAIN tasks' = Validators /\ \A u \in Validators : tasks'[u] \subseteq AllTasks(u)
    <3>1. PICK N : N = {Service("p2p")}
      OBVIOUS
    <3>2. N \subseteq AllTasks(v) /\ tasks' = [tasks EXCEPT ![v] = N]
      BY <1>3, <3>1, TasksNamed DEF Start
    <3>3. QED
      BY <3>2, TasksChange
  <2>2. QED
    BY <1>3, <2>1 DEF Start, ProcessTypeOK
<1>4. CASE GenesisPassed(v)
  <2>1. DOMAIN tasks' = Validators /\ \A u \in Validators : tasks'[u] \subseteq AllTasks(u)
    <3>1. tasks' = [tasks EXCEPT ![v] = S \cup Services(v)]
      BY <1>1, <1>4 DEF GenesisPassed
    <3>2. S \cup Services(v) \subseteq AllTasks(v)
      BY <1>2, TasksNamed
    <3>3. QED
      BY <3>1, <3>2, TasksChange
  <2>2. QED
    BY <1>4, <2>1 DEF GenesisPassed, ProcessTypeOK
<1>5. CASE StartEngine(v)
  <2>1. PICK n : n = started[v]
    OBVIOUS
  <2>2. n \in 0 .. K /\ n < K
    BY <1>5, <2>1 DEF StartEngine, ProcessTypeOK
  <2>3. n + 1 \in Inst /\ n + 1 \in 0 .. K
    BY <2>2, ProcessAssumption DEF Inst
  <2>4. DOMAIN tasks' = Validators /\ \A u \in Validators : tasks'[u] \subseteq AllTasks(u)
    <3>1. tasks' = [tasks EXCEPT ![v] = S \cup {EngineTask(n + 1)}]
      BY <1>1, <1>5, <2>1 DEF StartEngine
    <3>2. S \cup {EngineTask(n + 1)} \subseteq AllTasks(v)
      BY <1>2, <2>3, TasksNamed
    <3>3. QED
      BY <3>1, <3>2, TasksChange
  <2>5. started' \in [Validators -> 0 .. K]
    <3>1. started' = [started EXCEPT ![v] = n + 1]
      BY <1>5, <2>1 DEF StartEngine
    <3>2. QED
      BY <2>3, <3>1 DEF ProcessTypeOK
  <2>6. QED
    BY <1>5, <2>4, <2>5 DEF StartEngine, ProcessTypeOK
<1>6. CASE SpawnThread(v)
  BY <1>6 DEF SpawnThread, ProcessTypeOK
<1>7. CASE MainWakes(v)
  BY <1>7 DEF MainWakes, ProcessTypeOK
<1>8. CASE Exit(v)
  <2>1. DOMAIN tasks' = Validators /\ \A u \in Validators : tasks'[u] \subseteq AllTasks(u)
    <3>1. PICK N : N = {}
      OBVIOUS
    <3>2. N \subseteq AllTasks(v) /\ tasks' = [tasks EXCEPT ![v] = N]
      BY <1>8, <3>1 DEF Exit
    <3>3. QED
      BY <3>2, TasksChange
  <2>2. QED
    BY <1>8, <2>1 DEF Exit, ProcessTypeOK
<1>9. QED
  BY <1>3, <1>4, <1>5, <1>6, <1>7, <1>8

LEMMA EventTypes ==
  ASSUME ProcessTypeOK, NEW v \in Validators,
         HandleEvent(v) \/ \E i \in Inst : Emit(v, i)
  PROVE  ProcessTypeOK'
<1>1. PICK e, h : e = emitted[v] /\ h = handled[v]
  OBVIOUS
<1>2. e \in 0 .. MaxEvents /\ h \in 0 .. MaxEvents
  BY <1>1 DEF ProcessTypeOK
<1>3. CASE HandleEvent(v)
  <2>1. handled' = [handled EXCEPT ![v] = h + 1] /\ h < e
    BY <1>1, <1>3 DEF HandleEvent
  <2>2. h + 1 \in 0 .. MaxEvents
    BY <1>2, <2>1, ProcessAssumption
  <2>3. handled' \in [Validators -> 0 .. MaxEvents]
    BY <2>1, <2>2 DEF ProcessTypeOK
  <2>4. QED
    BY <1>3, <2>3 DEF HandleEvent, ProcessTypeOK
<1>4. ASSUME NEW i \in Inst, Emit(v, i) PROVE ProcessTypeOK'
  <2>1. emitted' = [emitted EXCEPT ![v] = e + 1] /\ e < MaxEvents
    BY <1>1, <1>4 DEF Emit
  <2>2. e + 1 \in 0 .. MaxEvents
    BY <1>2, <2>1, ProcessAssumption
  <2>3. emitted' \in [Validators -> 0 .. MaxEvents]
    BY <2>1, <2>2 DEF ProcessTypeOK
  <2>4. QED
    BY <1>4, <2>3 DEF Emit, ProcessTypeOK
<1>5. QED
  BY <1>3, <1>4

\* A task ends.
LEMMA EndTypes ==
  ASSUME ProcessTypeOK, NEW v \in Validators, NEW x, End(v, x)
  PROVE  DOMAIN tasks' = Validators /\ \A u \in Validators : tasks'[u] \subseteq AllTasks(u)
<1>1. PICK S : S = tasks[v] \ {x}
  OBVIOUS
<1>2. tasks' = [tasks EXCEPT ![v] = S] /\ S \subseteq AllTasks(v)
  BY <1>1, TasksOf DEF End
<1>3. QED
  BY <1>2, TasksChange

LEMMA FaultTypes ==
  ASSUME ProcessTypeOK, NEW v \in Validators, NEW name, Fault(v, name)
  PROVE  faults' \in 0 .. MaxFaults /\ faults' = faults + 1
BY ProcessAssumption DEF Fault, ProcessTypeOK

LEMMA FailureTypes ==
  ASSUME ProcessTypeOK, NEW v \in Validators,
         \/ ServerFails(v) \/ \E i \in Inst : ActorFails(v, i)
         \/ \E x \in AllTasks(v) : Panic(v, x)
         \/ Crash(v)
  PROVE  ProcessTypeOK'
<1>1. CASE ServerFails(v)
  <2>1. DOMAIN tasks' = Validators /\ \A u \in Validators : tasks'[u] \subseteq AllTasks(u)
    BY <1>1, EndTypes DEF ServerFails
  <2>2. faults' \in 0 .. MaxFaults
    BY <1>1, FaultTypes DEF ServerFails
  <2>3. QED
    BY <1>1, <2>1, <2>2 DEF ServerFails, ProcessTypeOK
<1>2. ASSUME NEW i \in Inst, ActorFails(v, i) PROVE ProcessTypeOK'
  <2>1. DOMAIN tasks' = Validators /\ \A u \in Validators : tasks'[u] \subseteq AllTasks(u)
    BY <1>2, EndTypes DEF ActorFails
  <2>2. faults' \in 0 .. MaxFaults
    BY <1>2, FaultTypes DEF ActorFails
  <2>3. QED
    BY <1>2, <2>1, <2>2 DEF ActorFails, ProcessTypeOK
<1>3. ASSUME NEW x \in AllTasks(v), Panic(v, x) PROVE ProcessTypeOK'
  <2>1. DOMAIN tasks' = Validators /\ \A u \in Validators : tasks'[u] \subseteq AllTasks(u)
    BY <1>3, EndTypes DEF Panic
  <2>2. faults' \in 0 .. MaxFaults
    BY <1>3, FaultTypes DEF Panic
  <2>3. QED
    BY <1>3, <2>1, <2>2 DEF Panic, ProcessTypeOK
<1>4. CASE Crash(v)
  <2>1. DOMAIN tasks' = Validators /\ \A u \in Validators : tasks'[u] \subseteq AllTasks(u)
    <3>1. PICK N : N = {}
      OBVIOUS
    <3>2. N \subseteq AllTasks(v) /\ tasks' = [tasks EXCEPT ![v] = N]
      BY <1>4, <3>1 DEF Crash
    <3>3. QED
      BY <3>2, TasksChange
  <2>2. faults' \in 0 .. MaxFaults
    BY <1>4, FaultTypes DEF Crash
  <2>3. QED
    BY <1>4, <2>1, <2>2, ProcessAssumption DEF Crash, ProcessTypeOK
<1>5. QED
  BY <1>1, <1>2, <1>3, <1>4

\* The tasks of a transaction.
LEMMA AcceptTypes ==
  ASSUME GossipTypeOK, NEW v \in Validators, NEW t \in Txs, Accept(v, t)
  PROVE  GossipTypeOK'
<1>1. PICK q : q = outgoing[v]
  OBVIOUS
<1>2. Append(q, t) \in Seq(Txs)
  BY <1>1, AppendProperties DEF GossipTypeOK
<1>3. DOMAIN outgoing' = Validators /\ \A u \in Validators : outgoing'[u] \in Seq(Txs)
  <2>1. outgoing' = outgoing \/ outgoing' = [outgoing EXCEPT ![v] = Append(q, t)]
    BY <1>1 DEF Accept
  <2>2. QED
    BY <1>2, <2>1 DEF GossipTypeOK
<1>4. pool' \in [Validators -> SUBSET Txs] /\ reached' \in [Txs -> SUBSET Validators]
  <2>1. PICK p, r : p = pool[v] /\ r = reached[t]
    OBVIOUS
  <2>2. p \subseteq Txs /\ r \subseteq Validators
    BY <2>1 DEF GossipTypeOK
  <2>3. /\ pool' = [pool EXCEPT ![v] = p \cup {t}]
        /\ reached' = [reached EXCEPT ![t] = r \cup {v}]
    BY <2>1 DEF Accept
  <2>4. QED
    BY <2>2, <2>3 DEF GossipTypeOK
<1>5. QED
  BY <1>3, <1>4 DEF Accept, GossipTypeOK

\* What tx_broadcast sends is a transaction.
LEMMA HeadIsTx ==
  ASSUME GossipTypeOK, NEW v \in Validators, outgoing[v] # << >>
  PROVE  Head(outgoing[v]) \in Txs /\ Tail(outgoing[v]) \in Seq(Txs)
<1>1. outgoing[v] \in Seq(Txs)
  BY DEF GossipTypeOK
<1>2. QED
  BY <1>1, HeadTailProperties

LEMMA BroadcastTypes ==
  ASSUME GossipTypeOK, NEW v \in Validators, NEW R \in SUBSET Validators, Broadcast(v, R)
  PROVE  GossipTypeOK'
<1>1. PICK t, q : t = Head(outgoing[v]) /\ q = Tail(outgoing[v])
  OBVIOUS
<1>2. t \in Txs /\ q \in Seq(Txs)
  BY <1>1, HeadIsTx DEF Broadcast
<1>3. DOMAIN outgoing' = Validators /\ \A u \in Validators : outgoing'[u] \in Seq(Txs)
  <2>1. outgoing' = [outgoing EXCEPT ![v] = q]
    BY <1>1 DEF Broadcast
  <2>2. QED
    BY <1>2, <2>1 DEF GossipTypeOK
<1>4. incoming' \in [Validators -> SUBSET (Validators \X Txs)]
  <2>1. incoming' = [u \in Validators |-> incoming[u] \cup IF u \in R THEN {<<v, t>>} ELSE {}]
    BY <1>1 DEF Broadcast
  <2>2. \A u \in Validators : incoming[u] \subseteq Validators \X Txs
    BY DEF GossipTypeOK
  <2>3. QED
    BY <1>2, <2>1, <2>2
<1>5. reached' \in [Txs -> SUBSET Validators]
  <2>1. PICK r : r = reached[t]
    OBVIOUS
  <2>2. reached' = [reached EXCEPT ![t] = r \cup (R \cap Gossiping)] /\ r \subseteq Validators
    BY <1>1, <1>2, <2>1 DEF Broadcast, GossipTypeOK
  <2>3. QED
    BY <2>2 DEF GossipTypeOK
<1>6. QED
  BY <1>3, <1>4, <1>5 DEF Broadcast, GossipTypeOK

LEMMA PoolTypes ==
  ASSUME GossipTypeOK, NEW v \in Validators, Gossip(v) \/ Take(v) \/ Forget(v)
  PROVE  GossipTypeOK'
<1>1. PICK p, k, c : p = pool[v] /\ k = taken[v] /\ c = incoming[v]
  OBVIOUS
<1>2. p \subseteq Txs /\ k \subseteq Txs /\ c \subseteq Validators \X Txs
  BY <1>1 DEF GossipTypeOK
<1>3. CASE Gossip(v)
  <2>1. PICK m \in c : /\ incoming' = [incoming EXCEPT ![v] = c \ {m}]
                       /\ pool' = [pool EXCEPT ![v] = p \cup {m[2]}]
                       /\ UNCHANGED <<taken, outgoing, accepted, reached>>
    BY <1>1, <1>3 DEF Gossip
  <2>2. m[2] \in Txs
    BY <1>2
  <2>3. incoming' \in [Validators -> SUBSET (Validators \X Txs)] /\ pool' \in [Validators -> SUBSET Txs]
    BY <1>2, <2>1, <2>2 DEF GossipTypeOK
  <2>4. QED
    BY <2>1, <2>3 DEF GossipTypeOK
<1>4. CASE Take(v)
  <2>1. pool' = [pool EXCEPT ![v] = {}] /\ taken' = [taken EXCEPT ![v] = k \cup p]
    BY <1>1, <1>4 DEF Take
  <2>2. pool' \in [Validators -> SUBSET Txs] /\ taken' \in [Validators -> SUBSET Txs]
    BY <1>2, <2>1 DEF GossipTypeOK
  <2>3. QED
    BY <1>4, <2>2 DEF Take, GossipTypeOK
<1>5. CASE Forget(v)
  <2>1. << >> \in Seq(Txs)
    BY EmptySeq
  <2>2. DOMAIN outgoing' = Validators /\ \A u \in Validators : outgoing'[u] \in Seq(Txs)
    BY <1>5, <2>1 DEF Forget, GossipTypeOK
  <2>3. QED
    BY <1>5, <2>2 DEF Forget, GossipTypeOK
<1>6. QED
  BY <1>3, <1>4, <1>5

\* A generator that runs is one of those configured.
LEMMA GeneratorConfigured ==
  ASSUME ProcessTypeOK, NEW v \in Validators, Runs(v, Service("submit"))
  PROVE  v \in Generating
<1>1. Service("submit") \in AllTasks(v)
  BY TasksOf DEF Runs
<1>2. "submit" \in ServiceTasks(v)
  BY <1>1 DEF AllTasks, Services, Service, EngineTask
<1>3. QED
  BY <1>2 DEF ServiceTasks

\* What a step of a transaction's task is to the pools and channels.
GossipStep ==
  \E v \in Validators :
    \/ \E t \in Txs : Accept(v, t)
    \/ \E R \in SUBSET Validators : Broadcast(v, R)
    \/ Gossip(v) \/ Take(v)

LEMMA GossipStepTypes == GossipTypeOK /\ GossipStep => GossipTypeOK'
BY AcceptTypes, BroadcastTypes, PoolTypes DEF GossipStep

LEMMA ProcessUnchanged == ProcessTypeOK /\ UNCHANGED processVars => ProcessTypeOK'
<1> SUFFICES ASSUME ProcessTypeOK, UNCHANGED processVars PROVE ProcessTypeOK'
  OBVIOUS
<1>1. /\ now' = now /\ stage' = stage /\ started' = started /\ tasks' = tasks
      /\ errored' = errored /\ emitted' = emitted /\ handled' = handled /\ faults' = faults
  BY DEF processVars
<1>2. QED
  BY <1>1 DEF ProcessTypeOK

LEMMA GossipUnchanged == GossipTypeOK /\ UNCHANGED gossipVars => GossipTypeOK'
BY DEF GossipTypeOK, gossipVars

LEMMA EndedTypes ==
  ASSUME ProcessTypeOK, NEW v \in Validators, NEW x, End(v, x),
         UNCHANGED <<now, stage, started, errored, emitted, handled, faults>>
  PROVE  ProcessTypeOK'
<1>1. DOMAIN tasks' = Validators /\ \A u \in Validators : tasks'[u] \subseteq AllTasks(u)
  BY EndTypes
<1>2. QED
  BY <1>1 DEF ProcessTypeOK

\* The generator's and the clients' transactions.
LEMMA SubmittedIsTx ==
  ASSUME ProcessTypeOK, NEW v \in Validators, Submit(v) \/ Generate(v)
  PROVE  \E t \in Txs : Accept(v, t)
<1>1. CASE Submit(v)
  BY <1>1 DEF Submit, Txs
<1>2. CASE Generate(v)
  <2>1. v \in Generating /\ now \in Window /\ Accept(v, <<v, now>>)
    BY <1>2, GeneratorConfigured DEF Generate
  <2>2. <<v, now>> \in Txs
    BY <2>1 DEF Txs
  <2>3. QED
    BY <2>1, <2>2
<1>3. QED
  BY <1>1, <1>2

\* The steps of the transactions' tasks, apart from their ends.
LEMMA TransactionStep ==
  ASSUME ProcessTypeOK, NEW v \in Validators,
         Submit(v) \/ Generate(v) \/ SendToPeers(v) \/ ReceiveGossip(v) \/ TakeFromPool(v)
  PROVE  GossipStep /\ UNCHANGED processVars
<1>1. CASE Submit(v) \/ Generate(v)
  BY <1>1, SubmittedIsTx DEF Submit, Generate, GossipStep
<1>2. CASE SendToPeers(v)
  <2>1. PICK R : R \in SUBSET Validators /\ Broadcast(v, R)
    BY <1>2 DEF SendToPeers
  <2>2. QED
    BY <1>2, <2>1 DEF SendToPeers, GossipStep
<1>3. CASE ReceiveGossip(v)
  BY <1>3 DEF ReceiveGossip, GossipStep
<1>4. CASE TakeFromPool(v)
  BY <1>4 DEF TakeFromPool, GossipStep
<1>5. QED
  BY <1>1, <1>2, <1>3, <1>4

LEMMA TypesKept == TypeOK /\ [Next]_vars => TypeOK'
<1> SUFFICES ASSUME ProcessTypeOK, GossipTypeOK, [Next]_vars PROVE ProcessTypeOK' /\ GossipTypeOK'
  BY DEF TypeOK
<1>1. CASE Tick /\ UNCHANGED gossipVars
  BY <1>1, TickTypes, GossipUnchanged
<1>2. ASSUME NEW v \in Validators,
             Submit(v) \/ Generate(v) \/ SendToPeers(v) \/ ReceiveGossip(v) \/ TakeFromPool(v)
      PROVE  ProcessTypeOK' /\ GossipTypeOK'
  <2>1. GossipStep /\ UNCHANGED processVars
    BY <1>2, TransactionStep
  <2>2. QED
    BY <2>1, GossipStepTypes, ProcessUnchanged
<1>3. ASSUME NEW v \in Validators, StopGenerator(v) \/ ReceiverCloses(v)
      PROVE  ProcessTypeOK' /\ GossipTypeOK'
  <2>1. ProcessTypeOK'
    BY <1>3, EndedTypes DEF StopGenerator, ReceiverCloses
  <2>2. GossipTypeOK'
    BY <1>3, GossipUnchanged DEF StopGenerator, ReceiverCloses
  <2>3. QED
    BY <2>1, <2>2
<1>4. ASSUME NEW v \in Validators, MainStep(v) PROVE ProcessTypeOK' /\ GossipTypeOK'
  <2>1. ProcessTypeOK'
    BY <1>4, MainTypes DEF MainStep
  <2>2. GossipTypeOK'
    BY <1>4, GossipUnchanged, PoolTypes DEF MainStep
  <2>3. QED
    BY <2>1, <2>2
<1>5. ASSUME NEW v \in Validators, ProcessStep(v) PROVE ProcessTypeOK' /\ GossipTypeOK'
  <2>1. ProcessTypeOK'
    BY <1>5, MainTypes, EventTypes, FailureTypes DEF ProcessStep
  <2>2. GossipTypeOK'
    BY <1>5, GossipUnchanged DEF ProcessStep
  <2>3. QED
    BY <2>1, <2>2
<1>6. ASSUME NEW v \in Validators, Kill(v) PROVE ProcessTypeOK' /\ GossipTypeOK'
  BY <1>6, FailureTypes, PoolTypes DEF Kill
<1>7. CASE UNCHANGED vars
  BY <1>7, ProcessUnchanged, GossipUnchanged DEF vars
<1>8. QED
  BY <1>1, <1>2, <1>3, <1>4, <1>5, <1>6, <1>7 DEF Next

LEMMA TypesStart == Init => TypeOK
<1> SUFFICES ASSUME Init PROVE TypeOK
  OBVIOUS
<1>1. ProcessTypeOK
  BY ProcessAssumption DEF Init, ProcessInit, ProcessTypeOK
<1>2. << >> \in Seq(Txs)
  BY EmptySeq
<1>3. GossipTypeOK
  BY <1>2 DEF Init, GossipInit, GossipTypeOK
<1>4. QED
  BY <1>1, <1>3 DEF TypeOK

\* Processes, pools and channels stay in their types: no instance is started
\* twice or beyond K, a task that runs is one that is configured, and what a
\* generator submits is a transaction of its own.
THEOREM TypeCorrect == Spec => []TypeOK
BY TypesStart, TypesKept, PTL DEF Spec
-----------------------------------------------------------------------------
(* Before genesis. *)

\* The steps by which a task of v ends; some end it in an error.
TaskEnds(v) ==
  /\ \E x : End(v, x)
  /\ errored' = errored \/ errored' = [errored EXCEPT ![v] = TRUE]
  /\ UNCHANGED <<now, stage, started, emitted, handled>>

LEMMA TaskEndSteps ==
  ASSUME NEW v \in Validators,
         \/ StopGenerator(v) \/ ReceiverCloses(v) \/ ServerFails(v)
         \/ \E i \in Inst : ActorFails(v, i)
         \/ \E x \in AllTasks(v) : Panic(v, x)
  PROVE  TaskEnds(v)
<1>1. CASE StopGenerator(v)
  BY <1>1 DEF StopGenerator, TaskEnds
<1>2. CASE ReceiverCloses(v)
  BY <1>2 DEF ReceiverCloses, TaskEnds
<1>3. CASE ServerFails(v)
  BY <1>3 DEF ServerFails, TaskEnds
<1>4. ASSUME NEW i \in Inst, ActorFails(v, i) PROVE TaskEnds(v)
  BY <1>4 DEF ActorFails, TaskEnds
<1>5. ASSUME NEW x \in AllTasks(v), Panic(v, x) PROVE TaskEnds(v)
  BY <1>5 DEF Panic, TaskEnds
<1>6. QED
  BY <1>1, <1>2, <1>3, <1>4, <1>5

\* A process that waits for genesis runs none of the tasks that act.
LEMMA EarlyRunsNothing ==
  ASSUME EarlyIsIdle, NEW v \in Validators, Early(v)
  PROVE  /\ ~Runs(v, Service("http")) /\ ~Runs(v, Service("submit"))
         /\ ~Runs(v, Service("broadcast")) /\ ~Runs(v, Service("gossip"))
         /\ \A i \in Inst : ~Runs(v, EngineTask(i))
<1>1. tasks[v] \subseteq {Service("p2p")}
  BY DEF EarlyIsIdle
<1>2. /\ Service("http") # Service("p2p") /\ Service("submit") # Service("p2p")
      /\ Service("broadcast") # Service("p2p") /\ Service("gossip") # Service("p2p")
      /\ \A i \in Inst : EngineTask(i) # Service("p2p")
  BY DEF Service, EngineTask
<1>3. QED
  BY <1>1, <1>2 DEF Runs

\* The processes of the other validators.
LEMMA OthersUntouched ==
  ASSUME TypeOK, NEW v \in Validators, NEW u \in Validators, u # v,
         TaskEnds(v) \/ MainStep(v) \/ ProcessStep(v) \/ Kill(v)
  PROVE  /\ stage'[u] = stage[u] /\ tasks'[u] = tasks[u]
         /\ errored'[u] = errored[u] /\ emitted'[u] = emitted[u]
<1>1. CASE TaskEnds(v)
  BY <1>1 DEF TaskEnds, End, TypeOK, ProcessTypeOK
<1>2. CASE MainStep(v)
  <2>1. GenesisPassed(v) \/ StartEngine(v) \/ SpawnThread(v) \/ MainWakes(v) \/ Exit(v)
    BY <1>2 DEF MainStep
  <2>2. CASE GenesisPassed(v)
    BY <2>2 DEF GenesisPassed, TypeOK, ProcessTypeOK
  <2>3. CASE StartEngine(v)
    BY <2>3 DEF StartEngine, TypeOK, ProcessTypeOK
  <2>4. CASE SpawnThread(v) \/ MainWakes(v)
    BY <2>4 DEF SpawnThread, MainWakes, TypeOK, ProcessTypeOK
  <2>5. CASE Exit(v)
    BY <2>5 DEF Exit, TypeOK, ProcessTypeOK
  <2>6. QED
    BY <2>1, <2>2, <2>3, <2>4, <2>5
<1>3. CASE ProcessStep(v)
  <2>1. CASE Start(v)
    BY <2>1 DEF Start, TypeOK, ProcessTypeOK
  <2>2. CASE HandleEvent(v)
    BY <2>2 DEF HandleEvent
  <2>3. ASSUME NEW i \in Inst, Emit(v, i)
        PROVE  /\ stage'[u] = stage[u] /\ tasks'[u] = tasks[u]
               /\ errored'[u] = errored[u] /\ emitted'[u] = emitted[u]
    BY <2>3 DEF Emit, TypeOK, ProcessTypeOK
  <2>4. QED
    BY <1>1, <1>3, <2>1, <2>2, <2>3, TaskEndSteps DEF ProcessStep
<1>4. CASE Kill(v)
  BY <1>4 DEF Kill, Crash, TypeOK, ProcessTypeOK
<1>5. QED
  BY <1>1, <1>2, <1>3, <1>4

\* What a step makes of a process that has not passed genesis: its network
\* starts or a task ends.
LEMMA IdleProcess ==
  ASSUME TypeOK, EarlyIsIdle, NEW v \in Validators,
         TaskEnds(v) \/ MainStep(v) \/ ProcessStep(v) \/ Kill(v),
         Early(v)'
  PROVE  tasks'[v] \subseteq {Service("p2p")} /\ emitted'[v] = 0
<1>1. CASE TaskEnds(v)
  <2>1. stage' = stage /\ emitted' = emitted /\ tasks'[v] \subseteq tasks[v]
    BY <1>1 DEF TaskEnds, End, TypeOK, ProcessTypeOK
  <2>2. QED
    BY <2>1 DEF EarlyIsIdle, Early
<1>2. CASE MainStep(v)
  <2>1. stage'[v] \in {"starting", "running", "joining", "exited"}
    <3>1. GenesisPassed(v) \/ StartEngine(v) \/ SpawnThread(v) \/ MainWakes(v) \/ Exit(v)
      BY <1>2 DEF MainStep
    <3>2. QED
      BY <3>1 DEF GenesisPassed, StartEngine, SpawnThread, MainWakes, Exit, TypeOK, ProcessTypeOK
  <2>2. QED
    BY <2>1 DEF Early
<1>3. CASE ProcessStep(v)
  <2>1. CASE Start(v)
    <3>1. tasks'[v] = {Service("p2p")} /\ emitted' = emitted /\ stage[v] = "down"
      BY <2>1 DEF Start, TypeOK, ProcessTypeOK
    <3>2. QED
      BY <3>1 DEF EarlyIsIdle, Early
  <2>2. CASE HandleEvent(v)
    BY <2>2 DEF HandleEvent, EarlyIsIdle, Early
  <2>3. ASSUME NEW i \in Inst, Emit(v, i) PROVE FALSE
    <3>1. Early(v) /\ Runs(v, EngineTask(i))
      BY <2>3 DEF Emit, Early
    <3>2. QED
      BY <3>1, EarlyRunsNothing
  <2>4. QED
    BY <1>1, <1>3, <2>1, <2>2, <2>3, TaskEndSteps DEF ProcessStep
<1>4. CASE Kill(v)
  BY <1>4 DEF Kill, Crash, TypeOK, ProcessTypeOK
<1>5. QED
  BY <1>1, <1>2, <1>3, <1>4

\* Every step is the clock's, a transaction's, or one of a single process.
LEMMA StepKinds ==
  ASSUME TypeOK, [Next]_vars
  PROVE  \/ Tick /\ UNCHANGED gossipVars
         \/ \E v \in Validators :
              /\ \/ Submit(v) \/ Generate(v) \/ SendToPeers(v) \/ ReceiveGossip(v)
                 \/ TakeFromPool(v)
              /\ UNCHANGED processVars
         \/ \E v \in Validators :
              \/ TaskEnds(v) /\ UNCHANGED gossipVars
              \/ MainStep(v) \/ ProcessStep(v) \/ Kill(v)
         \/ UNCHANGED vars
<1>1. ASSUME NEW v \in Validators,
             Submit(v) \/ Generate(v) \/ SendToPeers(v) \/ ReceiveGossip(v) \/ TakeFromPool(v)
      PROVE  UNCHANGED processVars
  BY <1>1 DEF Submit, Generate, SendToPeers, ReceiveGossip, TakeFromPool
<1>2. ASSUME NEW v \in Validators, StopGenerator(v) \/ ReceiverCloses(v)
      PROVE  TaskEnds(v) /\ UNCHANGED gossipVars
  BY <1>2, TaskEndSteps DEF StopGenerator, ReceiverCloses
<1>3. QED
  BY <1>1, <1>2 DEF Next

LEMMA IdleKept == TypeOK /\ EarlyIsIdle /\ [Next]_vars => EarlyIsIdle'
<1> SUFFICES ASSUME TypeOK, EarlyIsIdle, [Next]_vars, NEW u \in Validators, Early(u)'
             PROVE  tasks'[u] \subseteq {Service("p2p")} /\ emitted'[u] = 0
  BY DEF EarlyIsIdle
<1>1. CASE UNCHANGED <<stage, tasks, emitted>>
  BY <1>1 DEF EarlyIsIdle, Early
<1>2. ASSUME NEW v \in Validators, TaskEnds(v) \/ MainStep(v) \/ ProcessStep(v) \/ Kill(v)
      PROVE  tasks'[u] \subseteq {Service("p2p")} /\ emitted'[u] = 0
  <2>1. CASE u = v
    BY <1>2, <2>1, IdleProcess
  <2>2. CASE u # v
    BY <1>2, <2>2, OthersUntouched DEF EarlyIsIdle, Early
  <2>3. QED
    BY <2>1, <2>2
<1>3. QED
  BY <1>1, <1>2, StepKinds DEF Tick, vars, processVars

\* Before genesis a step leaves every process early.
LEMMA AllEarlyKept == TypeOK /\ AllEarly /\ [Next]_vars => AllEarly'
<1> SUFFICES ASSUME TypeOK, AllEarly, [Next]_vars, now' < Genesis, NEW u \in Validators
             PROVE  Early(u)'
  BY DEF AllEarly
<1>1. CASE Tick /\ UNCHANGED gossipVars
  <2>1. now < Genesis
    BY <1>1, ProcessAssumption DEF Tick, TypeOK, ProcessTypeOK
  <2>2. QED
    BY <1>1, <2>1 DEF Tick, AllEarly, Early
<1>2. ASSUME NEW v \in Validators, TaskEnds(v) \/ MainStep(v) \/ ProcessStep(v) \/ Kill(v)
      PROVE  now' = now
  BY <1>2 DEF TaskEnds, MainStep, ProcessStep, Kill, GenesisPassed, StartEngine, SpawnThread,
       MainWakes, Exit, Start, HandleEvent, ServerFails, Emit, ActorFails, Panic, Crash
<1>3. CASE UNCHANGED processVars
  BY <1>3 DEF processVars, AllEarly, Early
<1>4. ASSUME NEW v \in Validators, TaskEnds(v) \/ MainStep(v) \/ ProcessStep(v) \/ Kill(v)
      PROVE  Early(u)'
  <2>1. now < Genesis /\ Early(v) /\ Early(u)
    BY <1>2, <1>4 DEF AllEarly
  <2>2. CASE u # v
    BY <1>4, <2>1, <2>2, OthersUntouched DEF Early
  <2>3. CASE TaskEnds(v)
    BY <2>1, <2>3 DEF TaskEnds, Early
  <2>4. ~MainStep(v)
    <3>1. stage[v] \in {"down", "init"} /\ ~(now >= Genesis)
      BY <2>1, ProcessAssumption DEF Early, TypeOK, ProcessTypeOK
    <3>2. QED
      BY <3>1 DEF MainStep, GenesisPassed, StartEngine, SpawnThread, MainWakes, Exit
  <2>5. CASE ProcessStep(v) /\ u = v
    <3>1. CASE Start(v)
      BY <2>5, <3>1 DEF Start, Early, TypeOK, ProcessTypeOK
    <3>2. CASE HandleEvent(v) \/ \E i \in Inst : Emit(v, i)
      BY <2>1, <3>2 DEF HandleEvent, Emit, Early
    <3>3. QED
      BY <2>3, <2>5, <3>1, <3>2, TaskEndSteps DEF ProcessStep
  <2>6. CASE Kill(v) /\ u = v
    BY <2>6 DEF Kill, Crash, Early, TypeOK, ProcessTypeOK
  <2>7. QED
    BY <1>4, <2>2, <2>3, <2>4, <2>5, <2>6
<1>5. QED
  BY <1>1, <1>3, <1>4, StepKinds DEF vars

LEMMA QuietKept ==
  TypeOK /\ EarlyIsIdle /\ AllEarly /\ AllEarly' /\ EarlyIsIdle' /\ QuietBeforeGenesis /\ [Next]_vars
    => QuietBeforeGenesis'
<1> SUFFICES ASSUME TypeOK, EarlyIsIdle, AllEarly, AllEarly', EarlyIsIdle', QuietBeforeGenesis,
                    [Next]_vars, now' < Genesis
             PROVE  accepted' = {} /\ \A u \in Validators : pool'[u] = {} /\ emitted'[u] = 0
  BY DEF QuietBeforeGenesis
<1>1. \A u \in Validators : emitted'[u] = 0
  BY DEF AllEarly, EarlyIsIdle
<1>2. now < Genesis
  <2>1. now' = now \/ Tick
    BY StepKinds DEF vars, processVars, TaskEnds, MainStep, ProcessStep, Kill, GenesisPassed,
         StartEngine, SpawnThread, MainWakes, Exit, Start, HandleEvent, ServerFails, Emit,
         ActorFails, Panic, Crash
  <2>2. QED
    BY <2>1, ProcessAssumption DEF Tick, TypeOK, ProcessTypeOK
<1>3. accepted = {} /\ \A u \in Validators : pool[u] = {} /\ Early(u)
  BY <1>2 DEF QuietBeforeGenesis, AllEarly
<1>4. CASE UNCHANGED gossipVars
  BY <1>1, <1>3, <1>4 DEF gossipVars
<1>5. ASSUME NEW v \in Validators,
             Submit(v) \/ Generate(v) \/ SendToPeers(v) \/ ReceiveGossip(v) \/ TakeFromPool(v)
      PROVE  FALSE
  <2>1. /\ ~Runs(v, Service("http")) /\ ~Runs(v, Service("submit"))
        /\ ~Runs(v, Service("broadcast")) /\ ~Runs(v, Service("gossip"))
        /\ \A i \in Inst : ~Runs(v, EngineTask(i))
    BY <1>3, EarlyRunsNothing
  <2>2. QED
    BY <1>5, <2>1 DEF Submit, Generate, SendToPeers, ReceiveGossip, TakeFromPool
<1>6. ASSUME NEW v \in Validators, Forget(v)
      PROVE  accepted' = {} /\ \A u \in Validators : pool'[u] = {}
  BY <1>3, <1>6 DEF Forget, TypeOK, GossipTypeOK
<1>7. QED
  BY <1>1, <1>4, <1>5, <1>6, StepKinds DEF MainStep, ProcessStep, Kill, vars

\* Before genesis no validator takes part, whichever of them restarted when
\* and whatever reached it: no transaction is submitted or pooled and no
\* instance finalizes.
THEOREM QuietUntilGenesis == Spec => []QuietBeforeGenesis
<1>1. Init => QuietInv
  <2>1. Init => EarlyIsIdle /\ AllEarly /\ QuietBeforeGenesis
    BY DEF Init, ProcessInit, GossipInit, EarlyIsIdle, AllEarly, Early, QuietBeforeGenesis
  <2>2. QED
    BY <2>1, TypesStart DEF QuietInv
<1>2. QuietInv /\ [Next]_vars => QuietInv'
  BY TypesKept, IdleKept, AllEarlyKept, QuietKept DEF QuietInv
<1>3. QuietInv => QuietBeforeGenesis
  BY DEF QuietInv
<1>4. QED
  BY <1>1, <1>2, <1>3, PTL DEF Spec
-----------------------------------------------------------------------------
(* Transactions and faults. *)

\* A step of a transaction's task loses nothing.
LEMMA NothingDropped ==
  ASSUME GossipTypeOK, GossipStep, NEW u \in Validators, NEW t \in Txs, Lost(u, t)'
  PROVE  Lost(u, t)
<1>1. ASSUME NEW v \in Validators, NEW s \in Txs, Accept(v, s) PROVE Lost(u, t)
  <2>1. /\ taken' = taken /\ incoming' = incoming
        /\ pool'[u] = IF u = v THEN pool[u] \cup {s} ELSE pool[u]
        /\ reached'[t] = IF t = s THEN reached[t] \cup {v} ELSE reached[t]
    BY <1>1 DEF Accept, GossipTypeOK
  <2>2. QED
    BY <2>1 DEF Lost, Holds
<1>2. ASSUME NEW v \in Validators, NEW R \in SUBSET Validators, Broadcast(v, R) PROVE Lost(u, t)
  <2>1. PICK s \in Txs : s = Head(outgoing[v])
    BY <1>2, HeadIsTx DEF Broadcast
  <2>2. /\ taken' = taken /\ pool' = pool
        /\ incoming'[u] = incoming[u] \cup IF u \in R THEN {<<v, s>>} ELSE {}
        /\ reached'[t] = IF t = s THEN reached[t] \cup (R \cap Gossiping) ELSE reached[t]
    BY <1>2, <2>1 DEF Broadcast, GossipTypeOK
  <2>3. ~Holds(u, t)
    BY <2>2 DEF Lost, Holds
  <2>4. u \in reached[t]
    <3>1. SUFFICES ASSUME t = s, u \in R, u \in Gossiping PROVE FALSE
      BY <2>2 DEF Lost
    <3>2. <<v, t>> \in incoming'[u]
      BY <2>2, <3>1
    <3>3. QED
      BY <3>1, <3>2 DEF Lost, Holds
  <2>5. QED
    BY <2>3, <2>4 DEF Lost
<1>3. ASSUME NEW v \in Validators, Gossip(v) PROVE Lost(u, t)
  <2>1. PICK m \in incoming[v] :
          /\ incoming' = [incoming EXCEPT ![v] = @ \ {m}]
          /\ pool' = [pool EXCEPT ![v] = @ \cup {m[2]}]
          /\ UNCHANGED <<taken, outgoing, accepted, reached>>
    BY <1>3 DEF Gossip
  <2>2. /\ taken' = taken /\ reached' = reached
        /\ incoming'[u] = IF u = v THEN incoming[u] \ {m} ELSE incoming[u]
        /\ pool'[u] = IF u = v THEN pool[u] \cup {m[2]} ELSE pool[u]
    BY <2>1 DEF GossipTypeOK
  <2>3. ASSUME NEW w \in Validators, <<w, t>> \in incoming[u]
        PROVE  <<w, t>> \in incoming'[u] \/ t \in pool'[u]
    BY <2>2, <2>3
  <2>4. QED
    BY <2>2, <2>3 DEF Lost, Holds
<1>4. ASSUME NEW v \in Validators, Take(v) PROVE Lost(u, t)
  <2>1. /\ incoming' = incoming /\ reached' = reached
        /\ pool'[u] \cup taken'[u] = pool[u] \cup taken[u]
    BY <1>4 DEF Take, GossipTypeOK
  <2>2. QED
    BY <2>1 DEF Lost, Holds
<1>5. QED
  BY <1>1, <1>2, <1>3, <1>4 DEF GossipStep

\* A process that ends takes only its own share along.
LEMMA OthersKeep ==
  ASSUME GossipTypeOK, NEW v \in Validators, Forget(v),
         NEW u \in Validators, u # v, NEW t \in Txs, Lost(u, t)'
  PROVE  Lost(u, t)
<1>1. /\ pool'[u] = pool[u] /\ taken'[u] = taken[u] /\ incoming'[u] = incoming[u]
      /\ reached' = reached
  BY DEF Forget, GossipTypeOK
<1>2. QED
  BY <1>1 DEF Lost, Holds

LEMMA SameLost ==
  ASSUME UNCHANGED gossipVars, NEW u, NEW t, Lost(u, t)'
  PROVE  Lost(u, t)
BY DEF gossipVars, Lost, Holds

\* What the counts of the sets struck do.
LEMMA CountKept ==
  ASSUME TypeOK, FaultsCounted, faults' = faults, \A t \in Txs : Struck(t)' \subseteq Struck(t)
  PROVE  FaultsCounted'
<1> SUFFICES ASSUME NEW t \in Txs PROVE Cardinality(Struck(t)') <= faults
  BY DEF FaultsCounted
<1>1. IsFiniteSet(Struck(t)) /\ Struck(t)' \subseteq Struck(t)
  BY ProcessAssumption, FS_Subset DEF Struck
<1>2. /\ Cardinality(Struck(t)') \in Nat /\ Cardinality(Struck(t)) \in Nat
      /\ Cardinality(Struck(t)') <= Cardinality(Struck(t))
  BY <1>1, FS_Subset, FS_CardinalityType
<1>3. Cardinality(Struck(t)) <= faults /\ faults \in Nat
  BY ProcessAssumption DEF FaultsCounted, TypeOK, ProcessTypeOK
<1>4. QED
  BY <1>2, <1>3

LEMMA CountGrows ==
  ASSUME TypeOK, FaultsCounted, NEW v, faults' = faults + 1,
         \A t \in Txs : Struck(t)' \subseteq Struck(t) \cup {v}
  PROVE  FaultsCounted'
<1> SUFFICES ASSUME NEW t \in Txs PROVE Cardinality(Struck(t)') <= faults + 1
  BY DEF FaultsCounted
<1>1. IsFiniteSet(Struck(t))
  BY ProcessAssumption, FS_Subset DEF Struck
<1>2. PICK S, U : S = Struck(t) /\ U = Struck(t)'
  OBVIOUS
<1>3. IsFiniteSet(S) /\ U \subseteq S \cup {v}
  BY <1>1, <1>2
<1>4. /\ IsFiniteSet(S \cup {v}) /\ Cardinality(S) \in Nat
      /\ Cardinality(S \cup {v}) = Cardinality(S) \/ Cardinality(S \cup {v}) = Cardinality(S) + 1
  BY <1>3, FS_AddElement, FS_CardinalityType
<1>5. Cardinality(U) \in Nat /\ Cardinality(U) <= Cardinality(S \cup {v})
  BY <1>3, <1>4, FS_Subset, FS_CardinalityType
<1>6. Cardinality(S) <= faults /\ faults \in Nat
  BY <1>2, ProcessAssumption DEF FaultsCounted, TypeOK, ProcessTypeOK
<1>7. QED
  BY <1>2, <1>4, <1>5, <1>6

\* A failed task, and the end of a process by a crash, are faults.
LEMMA FaultSteps ==
  ASSUME TypeOK, NEW v \in Validators,
         \/ ServerFails(v) \/ \E i \in Inst : ActorFails(v, i)
         \/ \E x \in AllTasks(v) : Panic(v, x)
         \/ Crash(v)
  PROVE  faults' = faults + 1
BY DEF ServerFails, ActorFails, Panic, Crash, Fault

\* Any other step of a process leaves it hurt or not as it was, but for main's
\* return.
LEMMA HurtOnlyByFault ==
  ASSUME TypeOK, NEW v \in Validators,
         \/ StopGenerator(v) \/ ReceiverCloses(v) \/ MainStep(v) \/ Start(v) \/ HandleEvent(v)
         \/ \E i \in Inst : Emit(v, i),
         Hurt(v)', ~Exit(v)
  PROVE  Hurt(v)
<1>1. CASE StopGenerator(v) \/ ReceiverCloses(v)
  <2>1. PICK name \in {"submit", "gossip"} : End(v, Service(name))
    BY <1>1 DEF StopGenerator, ReceiverCloses
  <2>2. Service("p2p") # Service(name)
    BY DEF Service
  <2>3. tasks'[v] = tasks[v] \ {Service(name)} /\ errored' = errored /\ stage' = stage
    BY <1>1, <2>1 DEF StopGenerator, ReceiverCloses, End, TypeOK, ProcessTypeOK
  <2>4. QED
    BY <2>2, <2>3 DEF Hurt
<1>2. CASE MainStep(v)
  <2>1. GenesisPassed(v) \/ StartEngine(v) \/ SpawnThread(v) \/ MainWakes(v)
    BY <1>2 DEF MainStep
  <2>2. errored' = errored /\ stage[v] # "down" /\ tasks[v] \subseteq tasks'[v]
    BY <2>1 DEF GenesisPassed, StartEngine, SpawnThread, MainWakes, TypeOK, ProcessTypeOK
  <2>3. QED
    BY <2>2 DEF Hurt
<1>3. CASE Start(v)
  <2>1. errored' = errored /\ tasks'[v] = {Service("p2p")}
    BY <1>3 DEF Start, TypeOK, ProcessTypeOK
  <2>2. QED
    BY <2>1 DEF Hurt
<1>4. CASE HandleEvent(v) \/ \E i \in Inst : Emit(v, i)
  BY <1>4 DEF HandleEvent, Emit, Hurt
<1>5. QED
  BY <1>1, <1>2, <1>3, <1>4

\* Main returns only from a process that is hurt, and it stays so.
LEMMA ExitIsHurt ==
  ASSUME TypeOK, JoiningIsHurt, NEW v \in Validators, Exit(v)
  PROVE  Hurt(v) /\ Hurt(v)'
<1>1. Hurt(v)
  BY DEF Exit, JoiningIsHurt
<1>2. stage'[v] = "exited" /\ tasks'[v] = {}
  BY DEF Exit, TypeOK, ProcessTypeOK
<1>3. QED
  BY <1>1, <1>2 DEF Hurt

\* The other processes are hurt or not as they were.
LEMMA OthersHurt ==
  ASSUME TypeOK, NEW v \in Validators, NEW u \in Validators, u # v,
         TaskEnds(v) \/ MainStep(v) \/ ProcessStep(v) \/ Kill(v)
  PROVE  Hurt(u)' = Hurt(u)
BY OthersUntouched DEF Hurt

\* A process joins the gatling thread only once it is hurt.
LEMMA JoiningKept == TypeOK /\ JoiningIsHurt /\ [Next]_vars => JoiningIsHurt'
<1> SUFFICES ASSUME TypeOK, JoiningIsHurt, [Next]_vars, NEW u \in Validators, stage'[u] = "joining"
             PROVE  Hurt(u)'
  BY DEF JoiningIsHurt
<1>1. CASE UNCHANGED <<stage, tasks, errored>>
  BY <1>1 DEF JoiningIsHurt, Hurt
<1>2. ASSUME NEW v \in Validators, u # v,
             TaskEnds(v) \/ MainStep(v) \/ ProcessStep(v) \/ Kill(v)
      PROVE  Hurt(u)'
  BY <1>2, OthersUntouched DEF JoiningIsHurt, Hurt
<1>3. CASE TaskEnds(u)
  <2>1. /\ stage' = stage /\ tasks'[u] \subseteq tasks[u]
        /\ errored[u] => errored'[u]
    BY <1>3 DEF TaskEnds, End, TypeOK, ProcessTypeOK
  <2>2. QED
    BY <2>1 DEF JoiningIsHurt, Hurt
<1>4. CASE MainStep(u)
  <2>1. MainWakes(u)
    BY <1>4 DEF MainStep, GenesisPassed, StartEngine, SpawnThread, Exit, TypeOK, ProcessTypeOK
  <2>2. errored' = errored /\ tasks' = tasks /\ (errored[u] \/ tasks[u] = {})
    BY <2>1 DEF MainWakes
  <2>3. QED
    BY <2>2 DEF Hurt
<1>5. CASE ProcessStep(u)
  <2>1. ~Start(u)
    BY DEF Start, TypeOK, ProcessTypeOK
  <2>2. CASE HandleEvent(u) \/ \E i \in Inst : Emit(u, i)
    BY <2>2 DEF HandleEvent, Emit, JoiningIsHurt, Hurt
  <2>3. QED
    BY <1>3, <1>5, <2>1, <2>2, TaskEndSteps DEF ProcessStep
<1>6. ~Kill(u)
  BY DEF Kill, Crash, TypeOK, ProcessTypeOK
<1>7. QED
  BY <1>1, <1>2, <1>3, <1>4, <1>5, <1>6, StepKinds DEF Tick, vars, processVars

LEMMA CountsKept == TypeOK /\ JoiningIsHurt /\ FaultsCounted /\ [Next]_vars => FaultsCounted'
<1> SUFFICES ASSUME TypeOK, JoiningIsHurt, FaultsCounted, [Next]_vars PROVE FaultsCounted'
  OBVIOUS
<1>1. GossipTypeOK /\ ProcessTypeOK
  BY DEF TypeOK
\* No process is hurt anew and nothing is dropped.
<1>2. ASSUME faults' = faults,
             \A u \in Validators : Hurt(u)' => Hurt(u),
             \A u \in Validators, t \in Txs : Lost(u, t)' => Lost(u, t) \/ Hurt(u)
      PROVE  FaultsCounted'
  <2>1. \A t \in Txs : Struck(t)' \subseteq Struck(t)
    BY <1>2 DEF Struck
  <2>2. QED
    BY <1>2, <2>1, CountKept
<1>3. CASE UNCHANGED <<stage, tasks, errored, faults>> /\ (GossipStep \/ UNCHANGED gossipVars)
  <2>1. \A u \in Validators : Hurt(u)' => Hurt(u)
    BY <1>3 DEF Hurt
  <2>2. \A u \in Validators, t \in Txs : Lost(u, t)' => Lost(u, t) \/ Hurt(u)
    BY <1>1, <1>3, NothingDropped, SameLost
  <2>3. QED
    BY <1>2, <1>3, <2>1, <2>2
<1>4. ASSUME NEW v \in Validators,
             \/ StopGenerator(v) \/ ReceiverCloses(v) \/ MainStep(v)
             \/ ProcessStep(v) /\ (Start(v) \/ HandleEvent(v) \/ \E i \in Inst : Emit(v, i))
      PROVE  FaultsCounted'
  <2>1. faults' = faults
    BY <1>4 DEF StopGenerator, ReceiverCloses, MainStep, GenesisPassed, StartEngine, SpawnThread,
         MainWakes, Exit, Start, HandleEvent, Emit
  <2>2. TaskEnds(v) \/ MainStep(v) \/ ProcessStep(v) \/ Kill(v)
    BY <1>4, TaskEndSteps
  <2>3. ASSUME NEW u \in Validators, Hurt(u)' PROVE Hurt(u)
    <3>1. CASE u # v
      BY <2>2, <2>3, <3>1, OthersHurt
    <3>2. CASE u = v /\ Exit(v)
      BY <3>2, ExitIsHurt
    <3>3. CASE u = v /\ ~Exit(v)
      BY <1>4, <2>3, <3>3, HurtOnlyByFault
    <3>4. QED
      BY <3>1, <3>2, <3>3
  <2>4. UNCHANGED gossipVars \/ (Exit(v) /\ Forget(v))
    BY <1>4 DEF StopGenerator, ReceiverCloses, MainStep, ProcessStep
  <2>5. ASSUME NEW u \in Validators, NEW t \in Txs, Lost(u, t)' PROVE Lost(u, t) \/ Hurt(u)
    <3>1. CASE UNCHANGED gossipVars
      BY <2>5, <3>1, SameLost
    <3>2. CASE Exit(v) /\ Forget(v)
      BY <1>1, <2>5, <3>2, OthersKeep, ExitIsHurt
    <3>3. QED
      BY <2>4, <3>1, <3>2
  <2>6. QED
    BY <1>2, <2>1, <2>3, <2>5
\* A fault.
<1>5. ASSUME NEW v \in Validators,
             \/ ProcessStep(v) /\ \/ ServerFails(v) \/ \E i \in Inst : ActorFails(v, i)
                                  \/ \E x \in AllTasks(v) : Panic(v, x)
             \/ Kill(v)
      PROVE  FaultsCounted'
  <2>1. faults' = faults + 1
    BY <1>5, FaultSteps DEF Kill
  <2>2. \A u \in Validators \ {v} : Hurt(u)' => Hurt(u)
    BY <1>5, OthersHurt
  <2>3. \A u \in Validators \ {v}, t \in Txs : Lost(u, t)' => Lost(u, t)
    BY <1>1, <1>5, SameLost, OthersKeep DEF ProcessStep, Kill
  <2>4. \A t \in Txs : Struck(t)' \subseteq Struck(t) \cup {v}
    BY <2>2, <2>3 DEF Struck
  <2>5. QED
    BY <2>1, <2>4, CountGrows
<1>6. CASE Tick /\ UNCHANGED gossipVars
  BY <1>3, <1>6 DEF Tick
<1>7. CASE UNCHANGED vars
  BY <1>3, <1>7 DEF vars, processVars
<1>8. ASSUME NEW v \in Validators,
             Submit(v) \/ Generate(v) \/ SendToPeers(v) \/ ReceiveGossip(v) \/ TakeFromPool(v)
      PROVE  FaultsCounted'
  <2>1. GossipStep /\ UNCHANGED processVars
    BY <1>1, <1>8, TransactionStep
  <2>2. QED
    BY <1>3, <2>1 DEF processVars
<1>9. QED
  BY <1>4, <1>5, <1>6, <1>7, <1>8 DEF Next, ProcessStep

\* "Transaction survives even if the receiving validator crashes": as long as
\* fewer faults have struck than validators have been handed a transaction,
\* one of them still holds it or has taken it for a proposal.
THEOREM GossipSurvives == Spec => []GossipOutlivesCrash
<1>1. Init => OutliveInv
  <2>1. SUFFICES ASSUME Init PROVE JoiningIsHurt /\ FaultsCounted
    BY TypesStart DEF OutliveInv
  <2>2. JoiningIsHurt
    BY <2>1 DEF Init, ProcessInit, JoiningIsHurt
  <2>3. ASSUME NEW t \in Txs PROVE Struck(t) = {}
    BY <2>1 DEF Init, ProcessInit, GossipInit, Struck, Lost, Hurt
  <2>4. Cardinality({}) = 0 /\ faults = 0
    BY <2>1, FS_EmptySet DEF Init, ProcessInit
  <2>5. QED
    BY <2>2, <2>3, <2>4 DEF FaultsCounted
<1>2. OutliveInv /\ [Next]_vars => OutliveInv'
  BY TypesKept, JoiningKept, CountsKept DEF OutliveInv
<1>3. OutliveInv => GossipOutlivesCrash
  <2>1. SUFFICES ASSUME OutliveInv, NEW t \in Txs, Cardinality(reached[t]) > faults
                 PROVE  \E v \in Validators : Holds(v, t)
    BY DEF GossipOutlivesCrash
  <2>2. SUFFICES ASSUME \A v \in Validators : ~Holds(v, t) PROVE FALSE
    OBVIOUS
  <2>3. reached[t] \subseteq Struck(t)
    BY <2>1, <2>2 DEF OutliveInv, TypeOK, GossipTypeOK, Struck, Lost
  <2>4. IsFiniteSet(Struck(t))
    BY ProcessAssumption, FS_Subset DEF Struck
  <2>5. /\ Cardinality(reached[t]) \in Nat /\ Cardinality(Struck(t)) \in Nat
        /\ Cardinality(reached[t]) <= Cardinality(Struck(t))
    BY <2>3, <2>4, FS_Subset, FS_CardinalityType
  <2>6. Cardinality(Struck(t)) <= faults /\ faults \in Nat
    BY <2>1, ProcessAssumption DEF OutliveInv, FaultsCounted, TypeOK, ProcessTypeOK
  <2>7. QED
    BY <2>1, <2>5, <2>6
<1>4. QED
  BY <1>1, <1>2, <1>3, PTL DEF Spec

-----------------------------------------------------------------------------
(* The end of main. *)

\* Main joins the gatling thread, which returns when all senders of its
\* channel are gone, and main itself holds one of them: whatever fails, the
\* process of such a validator ends only when it is killed.
THEOREM JoinNeverReturns == Spec => []NeverReturns
<1>1. Init => TypeOK /\ NeverReturns
  BY TypesStart, ProcessAssumption DEF Init, ProcessInit, NeverReturns
<1>2. TypeOK /\ NeverReturns /\ [Next]_vars => NeverReturns'
  <2>1. SUFFICES ASSUME TypeOK, NeverReturns, [Next]_vars, NEW u \in Gatling, stage'[u] = "exited"
                 PROVE  FALSE
    BY DEF NeverReturns
  <2>2. u \in Validators
    BY ProcessAssumption
  <2>3. stage'[u] # stage[u]
    BY <2>1 DEF NeverReturns
  <2>4. MainStep(u) \/ ProcessStep(u) \/ Kill(u)
    <3>1. PICK v \in Validators : TaskEnds(v) \/ MainStep(v) \/ ProcessStep(v) \/ Kill(v)
      BY <2>1, <2>3, StepKinds DEF Tick, vars, processVars
    <3>2. v = u
      BY <2>1, <2>2, <2>3, <3>1, OthersUntouched
    <3>3. QED
      BY <2>3, <3>1, <3>2 DEF TaskEnds
  <2>5. Exit(u)
    <3>1. ~Kill(u)
      BY <2>1, <2>2 DEF Kill, Crash, TypeOK, ProcessTypeOK
    <3>2. ~ProcessStep(u)
      BY <2>1, <2>2, <2>3
      DEF ProcessStep, Start, HandleEvent, ServerFails, Emit, ActorFails, Panic, TypeOK, ProcessTypeOK
    <3>3. QED
      BY <2>1, <2>2, <2>4, <3>1, <3>2
      DEF MainStep, GenesisPassed, StartEngine, SpawnThread, MainWakes, TypeOK, ProcessTypeOK
  <2>6. Service("main") \in Senders(u)
    BY <2>5 DEF Exit, Up, Senders
  <2>7. QED
    BY <2>5, <2>6 DEF Exit, ThreadReturns
<1>3. QED
  BY <1>1, <1>2, TypesStart, TypesKept, PTL DEF Spec
=============================================================================
