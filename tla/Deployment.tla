----------------------------- MODULE Deployment -----------------------------
(***************************************************************************)
(* How a network of validators is set up: the subcommands of               *)
(* src/chain/src/bin/setup.rs, run one after another, the files they write *)
(* and read again, and what a validator makes of those files when it       *)
(* starts (validator.rs, supervisor.rs).  Public keys and names of regions *)
(* are numbers, in the order of their bytes.                               *)
(***************************************************************************)
EXTENDS ProposalTiming, FiniteSets

CONSTANTS
  Peers,        \* public keys that may come up
  Regions,      \* the regions hosts can be in
  StartPorts,   \* values of --start-port
  Times,        \* of the clock when setup runs, in seconds
  MaxRuns,      \* bound: runs of `setup indexer`
  InstanceCounts, \* values of --consensus-instances
  ProposalViews \* views whose proposals are compared

\* Ports are 16 bits wide.
Port == {p \in Nat : p < 65536}

ASSUME DeploymentAssumption ==
  /\ Peers \subseteq Nat /\ IsFiniteSet(Peers) /\ Regions \subseteq Nat
  /\ StartPorts \subseteq Port /\ Times \subseteq Nat
  /\ MaxRuns \in Nat /\ InstanceCounts \subseteq Nat \ {0}
  /\ ProposalViews \subseteq Nat

VARIABLES
  phase,      \* "begin", then the files are "written", and again after a run
              \* of `setup indexer` ("select"); at last validators are "started"
  mode,       \* of setup generate: "local" or "remote"
  startPort, created,   \* its argument, and when it ran
  configs,    \* each peer's configuration file
  addresses,  \* peers.yaml, of "local"
  region,     \* config.yaml, of "remote": the region of each peer's host
  count, turn, left, selected,  \* setup indexer: its argument and its loop
  failed,     \* peers it selected whose files it could not update
  runs,       \* runs of it so far, and
  most,       \* the largest count of them
  instances   \* --consensus-instances

files == <<mode, startPort, created, configs, addresses, region>>
loop == <<count, turn, left, selected>>
setupVars == <<phase, files, loop, failed, runs, most, instances>>

\* The network's public keys.
keys == DOMAIN configs

SetupInit ==
  /\ phase = "begin" /\ mode = "none" /\ startPort = 0 /\ created = 0
  /\ configs = << >> /\ addresses = << >> /\ region = << >>
  /\ count = 0 /\ turn = 0 /\ left = << >> /\ selected = {}
  /\ failed = {} /\ runs = 0 /\ most = 0 /\ instances = 1

\* The position of a key, or a name, when all are sorted.
Rank(S, k) == Cardinality({x \in S : x < k})
Lowest(S) == CHOOSE x \in S : \A y \in S : x <= y

-----------------------------------------------------------------------------
(* setup generate *)

\* Genesis in seconds: on a whole minute, four later with `local`, two with
\* `remote`.
GenesisAfter(now, minutes) == ((now \div 60) + minutes) * 60

\* Of one peer of S, with everything on one host and the ports counted up
\* from `start`.
LocalConfig(S, start, now, k) ==
  LET port == start + 2 * Rank(S, k)
  IN  [share |-> Rank(S, k),
       port |-> port, metrics |-> port + 1, transaction |-> 8080 + (port - start) \div 2 + 1,
       genesis |-> GenesisAfter(now, 4), indexer |-> FALSE]

\* Mutant of RemoteConfig: the shares are dealt to unsorted peers.
UnsortedConfig(S, now, k) ==
  [share |-> Cardinality(S) - 1 - Rank(S, k), port |-> 4545, metrics |-> 9090, transaction |-> 8080,
   genesis |-> GenesisAfter(now, 2), indexer |-> FALSE]

\* With a host of its own for each, the same ports on all.
RemoteConfig(S, now, k) ==
  [share |-> Rank(S, k), port |-> 4545, metrics |-> 9090, transaction |-> 8080,
   genesis |-> GenesisAfter(now, 2), indexer |-> FALSE]

\* What a validator's file says, of what differs between validators or counts
\* on another file.
Config == [share : Nat, port : Port, metrics : Port, transaction : Port, genesis : Nat, indexer : BOOLEAN]

\* Overflow is checked, also that of the port after the last one.
HasRoom(S, start) == start + 2 * Cardinality(S) \in Port

\* generate_local: without room for the ports it does not get to the files.
GenerateLocal(S, start, now) ==
  /\ phase = "begin"
  /\ HasRoom(S, start)
  /\ phase' = "written" /\ mode' = "local"
  /\ startPort' = start /\ created' = now
  /\ configs' = [k \in S |-> LocalConfig(S, start, now, k)]
  /\ addresses' = [k \in S |-> LocalConfig(S, start, now, k).port]
  /\ UNCHANGED <<region, loop, failed, runs, most, instances>>

\* generate_remote, with a list of at most as many regions as peers.
GenerateRemote(S, n, list, now) ==
  /\ phase = "begin"
  /\ phase' = "written" /\ mode' = "remote"
  /\ created' = now
  /\ configs' = [k \in S |-> RemoteConfig(S, now, k)]
  /\ region' = [k \in S |-> list[Rank(S, k) % n]]
  /\ UNCHANGED <<startPort, addresses, loop, failed, runs, most, instances>>

-----------------------------------------------------------------------------
(* setup indexer: which peers report to the indexer. *)

RegionNames == {region[k] : k \in keys}
Hosts(r) == {k \in keys : region[k] = r}

\* The peers are grouped by region; only `remote` writes what it reads.
StartIndexer(c) ==
  /\ phase = "written" /\ mode = "remote" /\ runs < MaxRuns
  /\ phase' = "select" /\ runs' = runs + 1
  /\ count' = c /\ turn' = 0 /\ selected' = {}
  /\ left' = [r \in RegionNames |-> Hosts(r)]
  /\ UNCHANGED <<files, failed, most, instances>>

\* The loop goes on until it has enough or no region has a peer left.
Choosing == Cardinality(selected) < count /\ \E r \in RegionNames : left[r] # {}

\* The region whose turn it is: those that have run out keep theirs.
RegionAt(n) == CHOOSE r \in RegionNames : Rank(RegionNames, r) = n % Cardinality(RegionNames)

\* Mutant of TakePeer: a region gives peers until it has none left.
TakeAll ==
  LET r == RegionAt(turn)
  IN  /\ phase = "select" /\ Choosing /\ left[r] # {}
      /\ left' = [left EXCEPT ![r] = @ \ {Lowest(@)}]
      /\ selected' = selected \cup {Lowest(left[r])}
      /\ UNCHANGED <<phase, files, count, turn, failed, runs, most, instances>>

\* It gives the first of its peers.
TakePeer ==
  LET r == RegionAt(turn)
  IN  /\ phase = "select" /\ Choosing /\ left[r] # {}
      /\ left' = [left EXCEPT ![r] = @ \ {Lowest(@)}]
      /\ selected' = selected \cup {Lowest(left[r])}
      /\ turn' = turn + 1
      /\ UNCHANGED <<phase, files, count, failed, runs, most, instances>>

\* Mutant of SkipRegion: the turn is not passed on.
SkipNothing ==
  /\ phase = "select" /\ Choosing /\ left[RegionAt(turn)] = {}
  /\ UNCHANGED setupVars

\* It has none left.
SkipRegion ==
  /\ phase = "select" /\ Choosing /\ left[RegionAt(turn)] = {}
  /\ turn' = turn + 1
  /\ UNCHANGED <<phase, files, count, left, selected, failed, runs, most, instances>>

\* The files of the peers selected are updated; an error with one is logged.
\* (What an earlier run wrote into the others stays there.)
WriteSelected ==
  /\ phase = "select" /\ ~Choosing
  /\ \E done \in SUBSET selected :
       /\ configs' = [k \in keys |-> IF k \in done THEN [configs[k] EXCEPT !.indexer = TRUE]
                                     ELSE configs[k]]
       /\ failed' = (failed \cup selected) \ done
  /\ most' = IF count > most THEN count ELSE most
  /\ phase' = "written"
  /\ UNCHANGED <<mode, startPort, created, addresses, region, loop, runs, instances>>

-----------------------------------------------------------------------------
(* Validators start. *)

StartValidators(n) ==
  /\ phase = "written"
  /\ phase' = "started"
  /\ instances' = n
  /\ UNCHANGED <<files, loop, failed, runs, most>>

\* Supervisor::new: the index of a participant, and the leader for a seed.
ParticipantIndex(participants, k) == Rank(participants, k)
LeaderFor(participants, seed) ==
  CHOOSE k \in participants : Rank(participants, k) = seed % Cardinality(participants)

\* Where validator `own` connects to bootstrapper k: with a peers file to the
\* address in it, with a hosts file to k's host at the port of its own
\* configuration.
DialledPort(own, k) == IF mode = "local" THEN addresses[k] ELSE configs[own].port

\* setup explorer: the place of the validator at each index.
Locations == [i \in 0 .. Cardinality(keys) - 1 |-> region[CHOOSE k \in keys : Rank(keys, k) = i]]

-----------------------------------------------------------------------------

SetupNext ==
  \/ \E S \in (SUBSET Peers) \ {{}}, now \in Times :
       \/ \E start \in StartPorts : GenerateLocal(S, start, now)
       \/ \E n \in 1 .. Cardinality(S) : \E list \in [0 .. n - 1 -> Regions] :
            GenerateRemote(S, n, list, now)
  \/ \E c \in 1 .. Cardinality(keys) : StartIndexer(c)
  \/ TakePeer \/ SkipRegion \/ WriteSelected
  \/ \E n \in InstanceCounts : StartValidators(n)

\* A run of setup indexer goes on to its end.
SetupSpec == SetupInit /\ [][SetupNext]_setupVars /\ WF_setupVars(TakePeer \/ SkipRegion \/ WriteSelected)

-----------------------------------------------------------------------------

SetupTypeOK ==
  /\ phase \in {"begin", "written", "select", "started"}
  /\ mode \in {"none", "local", "remote"}
  /\ startPort \in Nat /\ created \in Nat
  /\ keys \subseteq Peers
  /\ configs \in [keys -> Config]
  /\ mode = "local" => DOMAIN addresses = keys
  /\ mode = "remote" => region \in [keys -> Regions]
  /\ phase = "select" => /\ count \in 1 .. Cardinality(keys)
                         /\ left \in [RegionNames -> SUBSET keys]
  /\ turn \in Nat /\ selected \subseteq keys /\ failed \subseteq keys
  /\ runs \in 0 .. MaxRuns /\ most \in 0 .. Cardinality(keys)
  /\ instances \in Nat

Listens(c) == {c.port, c.metrics, c.transaction}

\* On one host no two of the ports that are listened on are the same, if the
\* ports counted up from the start port stay below those of the HTTP servers,
\* which are counted up from 8081, or begin above them.
PortsApart ==
  mode = "local" /\ (startPort + 2 * Cardinality(keys) <= 8081 \/ startPort > 8080 + Cardinality(keys))
    => /\ \A k \in keys : /\ configs[k].port # configs[k].metrics
                          /\ configs[k].transaction \notin {configs[k].port, configs[k].metrics}
       /\ \A j, k \in keys : j # k => Listens(configs[j]) \cap Listens(configs[k]) = {}

\* All validators have the same genesis, on a whole minute, which leaves them
\* three minutes to start with `local` and one with `remote`.
GenesisAhead ==
  \A j, k \in keys : /\ configs[j].genesis = configs[k].genesis
                     /\ configs[k].genesis % 60 = 0
                     /\ configs[k].genesis > created + (IF mode = "local" THEN 180 ELSE 60)

\* setup and the supervisor agree on who is who: a validator signs with the
\* share of the index its peers know it by, the explorer shows that index at
\* its place, and each validator is the leader for some seed.
SameIndices ==
  /\ \A k \in keys :
       LET i == ParticipantIndex(keys, k)
       IN  /\ configs[k].share = i
           /\ mode = "remote" => Locations[i] = region[k]
  /\ keys = { LeaderFor(keys, seed) : seed \in 0 .. Cardinality(keys) - 1 }

\* A validator connects to a bootstrapper where that one listens: over the
\* peers file of `local`, over the hosts file of `remote`.
DialsListener == \A own, k \in keys : DialledPort(own, k) = configs[k].port

\* The files a network is set up with fit together and with what reads them.
FilesFit ==
  /\ \A k \in keys : Listens(configs[k]) \subseteq Port
  /\ PortsApart /\ GenesisAhead /\ SameIndices /\ DialsListener

\* The peers that report to the indexer, or should, are as many as asked for,
\* and spread over the regions: one region has two more than another only if
\* the other has no peer left.  Runs of setup indexer add up to the one with
\* the largest count.
SpreadOverRegions ==
  LET S == {k \in keys : configs[k].indexer} \cup failed
  IN  mode = "remote" =>
        /\ Cardinality(S) = most
        /\ \A q, r \in RegionNames :
             Cardinality(S \cap Hosts(q)) > Cardinality(S \cap Hosts(r)) + 1 => Hosts(r) \subseteq S

\* setup indexer ends, also when regions run out of peers.
SelectionEnds == phase = "select" ~> phase # "select"

\* Once validators run, the proposals of all instances of all validators are
\* due in the order in which the global order takes them, as long as a view
\* has as many milliseconds as instances.
ProposalsInOrder ==
  LET starts == {configs[k].genesis : k \in keys}
  IN  phase = "started" /\ instances <= BlockTime =>
        \A g, h \in starts, u, v \in ProposalViews, i, l \in 1 .. instances :
          TProposal(g, instances, i, u) < TProposal(h, instances, l, v)
            <=> SlotBefore([view |-> u, inst |-> i], [view |-> v, inst |-> l])

\* No two instances share a channel, and none uses the one of the gossip.
ChannelsKeptApart == ChannelsApart(instances)

\* The instances of all validators share no time and no channel, and what they
\* propose is due in the order in which it will be logged.
InstancesApart == ProposalsInOrder /\ ChannelsKeptApart
=============================================================================
