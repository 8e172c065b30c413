-------------------------- MODULE ValidatorProcess --------------------------
(***************************************************************************)
(* The processes of the validators, from start to exit: main() of          *)
(* src/chain/src/bin/validator.rs, Engine::new, start and run of           *)
(* src/chain/src/engine.rs.                                                *)
(*                                                                         *)
(* Main starts the network, builds the K engines, waits for genesis,       *)
(* spawns the transaction tasks, the engines and last the gatling thread,  *)
(* and then waits for the first of its tasks to end in an error; then it   *)
(* joins the gatling thread.  The tasks run beside it from the moment they *)
(* are spawned.                                                            *)
(*                                                                         *)
(* A task ends in an error when it panics, which is left to the fault      *)
(* model; whatever else goes wrong in it is logged, and it ends or goes on.*)
(***************************************************************************)
EXTENDS Naturals, FiniteSets

CONSTANTS
  Validators,   \* the validators
  K,            \* consensus instances
  Gatling,      \* the validators run with --gatling
  Gossiping,    \* those with gossip enabled (the default)
  Generating,   \* those with --submit-tx
  Genesis,      \* genesis_timestamp
  StartDelay,   \* --submit-tx: its start, from genesis, and
  Duration,     \* how long it runs
  MaxNow,       \* bound: the clock
  MaxEvents,    \* bound: events of a validator's instances
  Faulty,       \* bound: the <<validator, task>> that may fail, with "main"
                \* for the process, and
  MaxFaults     \* how often, all together

ASSUME ProcessAssumption ==
  /\ K \in Nat \ {0} /\ Genesis \in Nat /\ StartDelay \in Nat /\ Duration \in Nat \ {0}
  /\ MaxNow \in Nat /\ MaxEvents \in Nat /\ MaxFaults \in Nat
  /\ Gatling \subseteq Validators /\ Gossiping \subseteq Validators
  /\ Generating \subseteq Validators /\ Faulty \subseteq Validators \X STRING
  /\ IsFiniteSet(Validators)

VARIABLES
  now,      \* the clock
  stage,    \* how far main() of each validator has got
  started,  \* how many of its engines have been started
  tasks,    \* its tasks that run
  errored,  \* one of them has ended in an error
  emitted,  \* events its instances have sent to the gatling channel
  handled,  \* events the gatling thread has received
  faults    \* faults so far, of all validators

processVars == <<now, stage, started, tasks, errored, emitted, handled, faults>>

Inst == 1 .. K

\* The tasks main spawns before the engines.
ServiceTasks(v) == {"http"}
  \cup (IF v \in Gossiping THEN {"broadcast", "gossip"} ELSE {})
  \cup (IF v \in Generating THEN {"submit"} ELSE {})
\* A task's name and, of an engine's task, its instance (0 of the others).
Service(name) == <<name, 0>>
EngineTask(i) == <<"engine", i>>
Services(v) == { Service(n) : n \in ServiceTasks(v) }
AllTasks(v) == Services(v) \cup {Service("p2p")} \cup { EngineTask(i) : i \in Inst }

Runs(v, x) == x \in tasks[v]
Up(v) == stage[v] \notin {"down", "exited"}
Served(v) == stage[v] \in {"starting", "running", "joining"}

ProcessInit ==
  /\ now = 0
  /\ stage = [v \in Validators |-> "down"]
  /\ started = [v \in Validators |-> 0]
  /\ tasks = [v \in Validators |-> {}]
  /\ errored = [v \in Validators |-> FALSE]
  /\ emitted = [v \in Validators |-> 0]
  /\ handled = [v \in Validators |-> 0]
  /\ faults = 0

Tick ==
  /\ now < MaxNow
  /\ now' = now + 1
  /\ UNCHANGED <<stage, started, tasks, errored, emitted, handled, faults>>

\* The process starts: the config is read, and the network with all its
\* channels runs, before the engines are built.
Start(v) ==
  /\ stage[v] = "down"
  /\ stage' = [stage EXCEPT ![v] = "init"]
  /\ tasks' = [tasks EXCEPT ![v] = {Service("p2p")}]
  /\ UNCHANGED <<now, started, errored, emitted, handled, faults>>

\* Mutant of GenesisPassed: main does not wait.
GenesisIgnored(v) ==
  /\ stage[v] = "init"
  /\ stage' = [stage EXCEPT ![v] = "starting"]
  /\ tasks' = [tasks EXCEPT ![v] = @ \cup Services(v)]
  /\ UNCHANGED <<now, started, errored, emitted, handled, faults>>

\* join_all has built the K engines, and genesis has come or had passed
\* already: the generator, the HTTP server and the gossip tasks are spawned.
GenesisPassed(v) ==
  /\ stage[v] = "init"
  /\ now >= Genesis
  /\ stage' = [stage EXCEPT ![v] = "starting"]
  /\ tasks' = [tasks EXCEPT ![v] = @ \cup Services(v)]
  /\ UNCHANGED <<now, started, errored, emitted, handled, faults>>

\* Mutant of StartEngine: one engine too many.
StartEngineBeyond(v) ==
  /\ stage[v] = "starting"
  /\ started[v] <= K
  /\ started' = [started EXCEPT ![v] = @ + 1]
  /\ tasks' = [tasks EXCEPT ![v] = @ \cup {EngineTask(started[v] + 1)}]
  /\ UNCHANGED <<now, stage, errored, emitted, handled, faults>>

\* The next engine is started: its task, and in it its four actors.
StartEngine(v) ==
  /\ stage[v] = "starting"
  /\ started[v] < K
  /\ started' = [started EXCEPT ![v] = @ + 1]
  /\ tasks' = [tasks EXCEPT ![v] = @ \cup {EngineTask(started[v] + 1)}]
  /\ UNCHANGED <<now, stage, errored, emitted, handled, faults>>

\* After the engines the gatling thread, if enabled; main then waits.
SpawnThread(v) ==
  /\ stage[v] = "starting"
  /\ started[v] = K
  /\ stage' = [stage EXCEPT ![v] = "running"]
  /\ UNCHANGED <<now, started, tasks, errored, emitted, handled, faults>>

ThreadRuns(v) == v \in Gatling /\ stage[v] \in {"running", "joining"}

\* Instance i finalizes a block: it goes into the gatling channel, which
\* exists since before the engines were built.
Emit(v, i) ==
  /\ v \in Gatling
  /\ Runs(v, EngineTask(i))
  /\ emitted[v] < MaxEvents
  /\ emitted' = [emitted EXCEPT ![v] = @ + 1]
  /\ UNCHANGED <<now, stage, started, tasks, errored, handled, faults>>

\* Mutant of HandleEvent: once main joins it, the thread takes no more.
HandleUntilJoined(v) ==
  /\ v \in Gatling /\ stage[v] = "running"
  /\ handled[v] < emitted[v]
  /\ handled' = [handled EXCEPT ![v] = @ + 1]
  /\ UNCHANGED <<now, stage, started, tasks, errored, emitted, faults>>

\* The gatling thread receives the next event.
HandleEvent(v) ==
  /\ ThreadRuns(v)
  /\ handled[v] < emitted[v]
  /\ handled' = [handled EXCEPT ![v] = @ + 1]
  /\ UNCHANGED <<now, stage, started, tasks, errored, emitted, faults>>

-----------------------------------------------------------------------------
(* How tasks end. *)

End(v, x) == tasks' = [tasks EXCEPT ![v] = @ \ {x}]

Fault(v, name) == <<v, name>> \in Faulty /\ faults < MaxFaults /\ faults' = faults + 1

\* A task panics: its handle reports an error.
Panic(v, x) ==
  /\ Runs(v, x)
  /\ Fault(v, x[1])
  /\ End(v, x)
  /\ errored' = [errored EXCEPT ![v] = TRUE]
  /\ UNCHANGED <<now, stage, started, emitted, handled>>

\* An actor of an engine fails: run logs "engine failed" and returns, and the
\* engine's task has ended without an error.
ActorFails(v, i) ==
  /\ Runs(v, EngineTask(i))
  /\ Fault(v, "engine")
  /\ End(v, EngineTask(i))
  /\ UNCHANGED <<now, stage, started, errored, emitted, handled>>

\* The HTTP server cannot bind its port, or fails: that is logged.
ServerFails(v) ==
  /\ Runs(v, Service("http"))
  /\ Fault(v, "http")
  /\ End(v, Service("http"))
  /\ UNCHANGED <<now, stage, started, errored, emitted, handled>>

\* Mutant of MainWakes: main waits for all of its tasks.
MainWaitsForAll(v) ==
  /\ stage[v] = "running"
  /\ tasks[v] = {}
  /\ stage' = [stage EXCEPT ![v] = "joining"]
  /\ UNCHANGED <<now, started, tasks, errored, emitted, handled, faults>>

\* try_join_all returns, on the first error or when all tasks have ended.
MainWakes(v) ==
  /\ stage[v] = "running"
  /\ errored[v] \/ tasks[v] = {}
  /\ stage' = [stage EXCEPT ![v] = "joining"]
  /\ UNCHANGED <<now, started, tasks, errored, emitted, handled, faults>>

\* Mutant of Senders: main drops its sender once the engines have theirs.
SendersOfEngines(v) == { x \in tasks[v] : \E i \in Inst : x = EngineTask(i) }

\* The senders of the gatling channel: main's own, which it drops when it
\* returns, and those of the engines.
Senders(v) == (IF Up(v) THEN {Service("main")} ELSE {})
  \cup { x \in tasks[v] : \E i \in Inst : x = EngineTask(i) }

\* gatling_thread returns when the channel is empty and has no sender left.
ThreadReturns(v) == handled[v] = emitted[v] /\ Senders(v) = {}

\* Main joins the gatling thread, if there is one, and returns; the runtime
\* ends, and with it all tasks.
Exit(v) ==
  /\ stage[v] = "joining"
  /\ v \in Gatling => ThreadReturns(v)
  /\ stage' = [stage EXCEPT ![v] = "exited"]
  /\ tasks' = [tasks EXCEPT ![v] = {}]
  /\ UNCHANGED <<now, started, errored, emitted, handled, faults>>

\* The process is killed.
Crash(v) ==
  /\ Up(v)
  /\ Fault(v, "main")
  /\ stage' = [stage EXCEPT ![v] = "down"]
  /\ started' = [started EXCEPT ![v] = 0]
  /\ tasks' = [tasks EXCEPT ![v] = {}]
  /\ errored' = [errored EXCEPT ![v] = FALSE]
  /\ emitted' = [emitted EXCEPT ![v] = 0]
  /\ handled' = [handled EXCEPT ![v] = 0]
  /\ UNCHANGED now

ProcessTypeOK ==
  /\ now \in 0 .. MaxNow
  /\ stage \in [Validators -> {"down", "init", "starting", "running", "joining",
                               "exited"}]
  /\ started \in [Validators -> 0 .. K]
  /\ DOMAIN tasks = Validators /\ \A v \in Validators : tasks[v] \subseteq AllTasks(v)
  /\ errored \in [Validators -> BOOLEAN]
  /\ emitted \in [Validators -> 0 .. MaxEvents]
  /\ handled \in [Validators -> 0 .. MaxEvents]
  /\ faults \in 0 .. MaxFaults
=============================================================================
