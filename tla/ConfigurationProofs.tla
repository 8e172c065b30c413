------------------------- MODULE ConfigurationProofs -------------------------
(***************************************************************************)
(* Theorems about what surrounds a running validator: the arithmetic of    *)
(* proposals and channels (module ProposalTiming), the files a network is  *)
(* set up with, for any peers, regions, ports and runs of setup            *)
(* (Deployment), and what the client library accepts of an indexer that    *)
(* serves the validators' certificates (IndexerClient).                    *)
(*                                                                         *)
(* Of the files the invariant is AsWritten: each is a function of the set  *)
(* of keys and of the arguments of setup.  Of setup indexer it is          *)
(* SpreadInv: peer k is taken at turn Slot(k), known beforehand, so what   *)
(* has been taken by turn n is a set UpTo(n), and the selections of        *)
(* several runs are nested.                                                *)
(***************************************************************************)
EXTENDS ProposalTiming, Deployment, IndexerClient, FiniteSetTheorems, TLAPS

\* What integer division gives.
LEMMA Division ==
  ASSUME NEW a \in Nat, NEW d \in Nat \ {0}
  PROVE  /\ a \div d \in Nat
         /\ d * (a \div d) <= a
         /\ a < d * (a \div d) + d
  BY Z3

\* A quotient is at least any q that fits.
LEMMA QuotientAtLeast ==
  ASSUME NEW a \in Nat, NEW d \in Nat \ {0}, NEW q \in Nat, d * q <= a
  PROVE  q <= a \div d
<1>1. a \div d \in Nat /\ a < d * (a \div d) + d
  BY Division
<1>2. SUFFICES ASSUME a \div d < q PROVE FALSE
  BY <1>1
<1>3. (a \div d) + 1 <= q
  BY <1>1, <1>2
<1>4. d * ((a \div d) + 1) <= d * q
  BY <1>1, <1>3, Z3
<1>5. d * ((a \div d) + 1) = d * (a \div d) + d
  BY <1>1, Z3
<1> QED
  BY <1>1, <1>4, <1>5

\* A quotient is below any q that does not fit.
LEMMA QuotientBelow ==
  ASSUME NEW a \in Nat, NEW d \in Nat \ {0}, NEW q \in Nat, a < d * q
  PROVE  a \div d < q
<1>1. a \div d \in Nat /\ d * (a \div d) <= a
  BY Division
<1>2. SUFFICES ASSUME q <= a \div d PROVE FALSE
  BY <1>1
<1>3. d * q <= d * (a \div d)
  BY <1>1, <1>2, Z3
<1> QED
  BY <1>1, <1>3

\* The offset of a later instance is later, if there are at most as many
\* instances as milliseconds in a view; and it stays within the view.
LEMMA SlotIncreases ==
  ASSUME NEW K \in 1 .. BlockTime, NEW j \in 1 .. K, NEW k \in 1 .. K, j < k
  PROVE  SlotMs(K, j) < SlotMs(K, k)
<1> DEFINE a == (j - 1) * BlockTime
           b == (k - 1) * BlockTime
           q == a \div K
<1>1. K \in Nat \ {0} /\ a \in Nat /\ b \in Nat /\ K <= BlockTime
  BY DEF BlockTime
<1>2. a + BlockTime <= b
  BY DEF BlockTime
<1>3. q \in Nat /\ K * q <= a
  BY <1>1, Division
<1>4. K * (q + 1) = K * q + K
  BY <1>1, <1>3, Z3
<1>5. K * (q + 1) <= b
  <2> HIDE DEF a, b, q
  <2>1. K * q \in Nat
    BY <1>1, <1>3
  <2> QED
    BY <2>1, <1>1, <1>2, <1>3, <1>4 DEF BlockTime
<1>6. q + 1 <= b \div K
  <2>1. q + 1 \in Nat
    BY <1>3
  <2> HIDE DEF a, b, q
  <2> QED
    BY <2>1, <1>1, <1>5, QuotientAtLeast
<1>7. b \div K \in Nat
  BY <1>1, Division
<1>8. q < b \div K
  <2> HIDE DEF a, b, q
  <2> QED
    BY <1>3, <1>6, <1>7
<1> QED
  BY <1>8 DEF SlotMs

\* The offset of an instance's slot stays inside the view.
LEMMA SlotInView ==
  ASSUME NEW K \in Nat \ {0}, NEW k \in 1 .. K
  PROVE  SlotMs(K, k) \in 0 .. BlockTime - 1
<1> DEFINE a == (k - 1) * BlockTime
<1>1. a \in Nat /\ BlockTime \in Nat
  BY DEF BlockTime
<1>2. (k - 1) + 1 <= K
  OBVIOUS
<1>3. a < K * BlockTime
  BY <1>2 DEF BlockTime
<1>4. a \div K < BlockTime
  <2> HIDE DEF a
  <2> QED
    BY <1>1, <1>3, QuotientBelow
<1>5. a \div K \in Nat
  BY <1>1, Division
<1> QED
  BY <1>1, <1>4, <1>5 DEF SlotMs

\* The comparison of two proposals, of instances j and k in views v and w.
LEMMA ProposalsCompare ==
  ASSUME NEW g \in Nat, NEW K \in 1 .. BlockTime, NEW v \in Nat, NEW w \in Nat,
         NEW j \in 1 .. K, NEW k \in 1 .. K
  PROVE  TProposal(g, K, j, v) < TProposal(g, K, k, w) <=> v < w \/ (v = w /\ j < k)
<1> DEFINE x == SlotMs(K, j)
           y == SlotMs(K, k)
<1>1. K \in Nat \ {0}
  BY DEF BlockTime
<1>2. x \in 0 .. BlockTime - 1 /\ y \in 0 .. BlockTime - 1
  BY <1>1, SlotInView
<1>3. x \in Nat /\ x < 3000 /\ y \in Nat /\ y < 3000
  <2> HIDE DEF x, y
  <2> QED
    BY <1>2 DEF BlockTime
<1>4. j < k => x < y
  BY SlotIncreases
<1>5. k < j => y < x
  BY SlotIncreases
<1>6. j \in Int /\ k \in Int
  BY <1>1
<1>7. /\ TProposal(g, K, j, v) = g * 1000 + v * 3000 + x
      /\ TProposal(g, K, k, w) = g * 1000 + w * 3000 + y
  BY DEF TProposal, BlockTime, SecondMs
<1>8. j = k => x = y
  OBVIOUS
<1> HIDE DEF x, y
<1>9. CASE v < w
  BY <1>3, <1>7, <1>9
<1>10. CASE v = w
  BY <1>3, <1>4, <1>5, <1>6, <1>7, <1>8, <1>10
<1>11. CASE w < v
  BY <1>3, <1>7, <1>11
<1> QED
  BY <1>9, <1>10, <1>11

\* tproposal orders the proposals of all instances and views as gatling's
\* cursor does, for any genesis and up to 3000 instances.
THEOREM ProposalsInGlobalOrder ==
  ASSUME NEW genesis \in Nat, NEW K \in 1 .. BlockTime
  PROVE  ProposedInGlobalOrder(genesis, K, Nat)
<1> SUFFICES ASSUME NEW s \in [view : Nat, inst : 1 .. K], NEW t \in [view : Nat, inst : 1 .. K]
             PROVE  TProposal(genesis, K, s.inst, s.view) < TProposal(genesis, K, t.inst, t.view)
                      <=> SlotBefore(s, t)
  BY DEF ProposedInGlobalOrder
<1>1. s.view \in Nat /\ t.view \in Nat /\ s.inst \in 1 .. K /\ t.inst \in 1 .. K
  OBVIOUS
<1>2. ASSUME NEW v \in Nat, NEW w \in Nat, NEW j \in 1 .. K, NEW k \in 1 .. K
      PROVE  TProposal(genesis, K, j, v) < TProposal(genesis, K, k, w) <=> v < w \/ (v = w /\ j < k)
  BY ProposalsCompare
<1>3. TProposal(genesis, K, s.inst, s.view) < TProposal(genesis, K, t.inst, t.view)
        <=> s.view < t.view \/ (s.view = t.view /\ s.inst < t.inst)
  BY <1>1, <1>2
<1> QED
  BY <1>3 DEF SlotBefore

\* The offset validator.rs configures an engine with is the one tproposal
\* uses for its instance.
THEOREM OffsetsAgree ==
  ASSUME NEW K \in Nat \ {0}, NEW i \in 0 .. K - 1
  PROVE  ProposalOffset(K, i) = SlotMs(K, i + 1)
<1>1. (i + 1) - 1 = i
  OBVIOUS
<1> QED
  BY <1>1 DEF ProposalOffset, SlotMs

\* However many instances a validator runs, their channels are apart from one
\* another and from that of the transaction gossip.
THEOREM ChannelsAreApart ==
  ASSUME NEW K \in Nat
  PROVE  ChannelsApart(K)
BY DEF ChannelsApart, Channel, InstanceChannels, TransactionChannel

-----------------------------------------------------------------------------
(* Sorting. *)

\* Sorting gives every key a position of its own, in order.
LEMMA RankIncreases ==
  ASSUME NEW Keys \in SUBSET Nat, IsFiniteSet(Keys),
         NEW j \in Keys, NEW k \in Keys, j < k
  PROVE  /\ Rank(Keys, j) \in Nat /\ Rank(Keys, k) \in Nat
         /\ Rank(Keys, j) < Rank(Keys, k)
         /\ Rank(Keys, k) < Cardinality(Keys)
<1> DEFINE Below(x) == {y \in Keys : y < x}
<1>1. Below(j) \subseteq Below(k)
  <2>1. \A y \in Keys : y < j => y < k
    <3>1. Keys \subseteq Int /\ j \in Int /\ k \in Int
      OBVIOUS
    <3> QED
      BY <3>1
  <2> QED
    BY <2>1
<1>2. j \in Below(k) /\ j \notin Below(j) /\ k \in Keys /\ k \notin Below(k)
  OBVIOUS
<1>3. Below(k) \subseteq Keys
  OBVIOUS
<1>4. /\ IsFiniteSet(Below(k)) /\ Cardinality(Below(k)) <= Cardinality(Keys)
      /\ Cardinality(Below(k)) = Cardinality(Keys) => Below(k) = Keys
  BY <1>3, FS_Subset, Zenon
<1>6. /\ IsFiniteSet(Below(j)) /\ Cardinality(Below(j)) <= Cardinality(Below(k))
      /\ Cardinality(Below(j)) = Cardinality(Below(k)) => Below(j) = Below(k)
  BY <1>1, <1>4, FS_Subset, Zenon
<1>5. Cardinality(Below(j)) \in Nat /\ Cardinality(Below(k)) \in Nat
  BY <1>4, <1>6, FS_CardinalityType
<1>7. Cardinality(Keys) \in Nat
  BY FS_CardinalityType
<1>8. Below(j) # Below(k) /\ Below(k) # Keys
  BY <1>2
<1>9. Rank(Keys, j) = Cardinality(Below(j)) /\ Rank(Keys, k) = Cardinality(Below(k))
  BY DEF Rank
<1> HIDE DEF Below
<1> QED
  BY <1>4, <1>5, <1>6, <1>7, <1>8, <1>9

\* The rank of a key is an index of the sorted list of keys.
LEMMA RankBounded ==
  ASSUME NEW Keys \in SUBSET Nat, IsFiniteSet(Keys), NEW k \in Keys
  PROVE  Rank(Keys, k) \in 0 .. Cardinality(Keys) - 1
<1> DEFINE Below == {y \in Keys : y < k}
<1>1. Below \subseteq Keys
  OBVIOUS
<1>2. Below # Keys
  <2>1. k \notin Below
    OBVIOUS
  <2> QED
    BY <2>1
<1>3. /\ IsFiniteSet(Below) /\ Cardinality(Below) <= Cardinality(Keys)
      /\ Cardinality(Below) = Cardinality(Keys) => Below = Keys
  BY <1>1, FS_Subset, Zenon
<1>4. Cardinality(Below) \in Nat /\ Cardinality(Keys) \in Nat
  BY <1>3, FS_CardinalityType
<1>5. Rank(Keys, k) = Cardinality(Below)
  BY DEF Rank
<1> HIDE DEF Below
<1> QED
  BY <1>2, <1>3, <1>4, <1>5

\* Different keys have different ranks.
LEMMA RankInjective ==
  ASSUME NEW S \in SUBSET Nat, IsFiniteSet(S), NEW j \in S, NEW k \in S
  PROVE  /\ Rank(S, j) = Rank(S, k) => j = k
         /\ Rank(S, j) < Rank(S, k) <=> j < k
<1>1. j < k \/ k < j \/ j = k
  OBVIOUS
<1>2. Rank(S, j) \in Nat /\ Rank(S, k) \in Nat
  <2>1. Rank(S, j) \in 0 .. Cardinality(S) - 1 /\ Rank(S, k) \in 0 .. Cardinality(S) - 1
    BY RankBounded, Zenon
  <2> QED
    BY <2>1
<1>3. CASE j < k
  <2>1. Rank(S, j) < Rank(S, k)
    BY <1>3, RankIncreases, Zenon
  <2> QED
    BY <1>2, <1>3, <2>1
<1>4. CASE k < j
  <2>1. Rank(S, k) < Rank(S, j)
    BY <1>4, RankIncreases, Zenon
  <2> QED
    BY <1>2, <1>4, <2>1
<1>5. CASE j = k
  BY <1>2, <1>5
<1> QED
  BY <1>1, <1>3, <1>4, <1>5

\* Every position is that of a key.
LEMMA RankOnto ==
  ASSUME NEW S \in SUBSET Nat, IsFiniteSet(S), NEW v \in 0 .. Cardinality(S) - 1
  PROVE  \E k \in S : Rank(S, k) = v
<1>1. Cardinality(S) \in Nat
  BY FS_CardinalityType
<1>2. PICK N : N = Cardinality(S)
  OBVIOUS
<1>3. N \in Nat /\ v \in 0 .. N - 1 /\ 0 \in Int /\ N - 1 \in Int
  BY <1>1, <1>2
<1>4. /\ IsFiniteSet(0 .. N - 1)
      /\ Cardinality(0 .. N - 1) = IF 0 > N - 1 THEN 0 ELSE (N - 1) - 0 + 1
  BY <1>3, FS_Interval, Zenon
<1>5. Cardinality(0 .. N - 1) = N
  BY <1>3, <1>4
<1> DEFINE T == 0 .. N - 1
           f == [k \in S |-> Rank(S, k)]
<1>6. f \in Injection(S, T)
  <2>1. \A k \in S : Rank(S, k) \in T
    BY <1>2, RankBounded, Zenon
  <2>2. \A j, k \in S : Rank(S, j) = Rank(S, k) => j = k
    BY RankInjective, Zenon
  <2> QED
    BY <2>1, <2>2 DEF Injection, IsInjective
<1>7. f \in Surjection(S, T)
  <2>1. PICK g : g = f
    OBVIOUS
  <2>2. PICK U : U = T
    OBVIOUS
  <2>3. g \in Injection(S, U) /\ IsFiniteSet(U) /\ Cardinality(S) = Cardinality(U)
    BY <1>2, <1>4, <1>5, <1>6, <2>1, <2>2
  <2>4. g \in Surjection(S, U)
    BY <2>3, FS_Injection, Zenon
  <2> QED
    BY <2>1, <2>2, <2>4
<1> QED
  BY <1>3, <1>7 DEF Surjection

\* A set of keys that is not empty has a lowest, before which there is none.
LEMMA LowestFirst ==
  ASSUME NEW S \in SUBSET Nat, IsFiniteSet(S), S # {}
  PROVE  /\ Lowest(S) \in S
         /\ \A x \in S : Lowest(S) <= x
<1>1. Cardinality(S) \in Nat /\ Cardinality(S) # 0
  BY FS_CardinalityType, FS_EmptySet
<1>2. 0 \in 0 .. Cardinality(S) - 1
  BY <1>1
<1>3. PICK k \in S : Rank(S, k) = 0
  <2>1. PICK z : z = 0
    OBVIOUS
  <2> QED
    BY <1>2, <2>1, RankOnto, Zenon
<1>4. \A x \in S : k <= x
  <2> SUFFICES ASSUME NEW x \in S, ~(k <= x) PROVE FALSE
    OBVIOUS
  <2>1. x < k
    OBVIOUS
  <2>2. Rank(S, x) \in Nat /\ Rank(S, x) < Rank(S, k)
    BY <2>1, RankIncreases, Zenon
  <2> QED
    BY <1>3, <2>2
<1> QED
  BY <1>3, <1>4 DEF Lowest

\* It has a highest too.
LEMMA HighestLast ==
  ASSUME NEW S \in SUBSET Nat, IsFiniteSet(S), S # {}
  PROVE  \E k \in S : \A x \in S : x <= k
<1>1. PICK N : N = Cardinality(S)
  OBVIOUS
<1>2. N \in Nat /\ N # 0
  BY <1>1, FS_CardinalityType, FS_EmptySet
<1>3. PICK v : v = N - 1
  OBVIOUS
<1>4. v \in 0 .. N - 1
  BY <1>2, <1>3
<1>5. PICK k \in S : Rank(S, k) = v
  BY <1>1, <1>4, RankOnto, Zenon
<1>6. \A x \in S : x <= k
  <2> SUFFICES ASSUME NEW x \in S, ~(x <= k) PROVE FALSE
    OBVIOUS
  <2>1. k < x
    OBVIOUS
  <2>2. Rank(S, k) < Rank(S, x) /\ Rank(S, x) < Cardinality(S) /\ Rank(S, x) \in Nat
    BY <2>1, RankIncreases, Zenon
  <2> QED
    BY <1>1, <1>2, <1>3, <1>5, <2>2
<1> QED
  BY <1>5, <1>6

-----------------------------------------------------------------------------
(* The files setup writes. *)

\* Genesis is on a whole minute and far enough ahead: with `local` the
\* validators have more than three minutes to start, with `remote` one.
LEMMA GenesisBounds ==
  ASSUME NEW now \in Nat, NEW minutes \in Nat \ {0}
  PROVE  /\ GenesisAfter(now, minutes) \in Nat
         /\ GenesisAfter(now, minutes) % 60 = 0
         /\ GenesisAfter(now, minutes) > now + 60 * (minutes - 1)
         /\ GenesisAfter(now, minutes) <= now + 60 * minutes
BY DEF GenesisAfter

\* What `local` writes into the file of the peer with rank r.
LEMMA LocalFile ==
  ASSUME NEW S \in SUBSET Nat, IsFiniteSet(S), NEW start \in Port, NEW now \in Nat,
         HasRoom(S, start), NEW k \in S
  PROVE  /\ LocalConfig(S, start, now, k) \in Config
         /\ LocalConfig(S, start, now, k).share = Rank(S, k)
         /\ LocalConfig(S, start, now, k).port = start + 2 * Rank(S, k)
         /\ LocalConfig(S, start, now, k).metrics = start + 2 * Rank(S, k) + 1
         /\ LocalConfig(S, start, now, k).transaction = 8081 + Rank(S, k)
         /\ LocalConfig(S, start, now, k).genesis = GenesisAfter(now, 4)
<1>1. PICK r : r = Rank(S, k)
  OBVIOUS
<1>2. PICK N : N = Cardinality(S)
  OBVIOUS
<1>3. N \in Nat /\ r \in 0 .. N - 1
  BY <1>1, <1>2, RankBounded, FS_CardinalityType, Zenon
<1>4. start \in Nat /\ start + 2 * N <= 65535
  BY <1>2, <1>3 DEF HasRoom, Port
<1>5. r \in Nat /\ ((start + 2 * r) - start) \div 2 = r /\ r <= 32767
  BY <1>3, <1>4
<1>6. PICK g : g = GenesisAfter(now, 4)
  OBVIOUS
<1>7. g \in Nat
  <2>1. 4 \in Nat \ {0}
    OBVIOUS
  <2> QED
    BY <1>6, <2>1, GenesisBounds, Zenon
<1>8. PICK t : t = 8080 + ((start + 2 * r) - start) \div 2 + 1
  OBVIOUS
<1>9. t = 8081 + r /\ t \in Port /\ start + 2 * r \in Port /\ start + 2 * r + 1 \in Port
  BY <1>3, <1>4, <1>5, <1>8 DEF Port
<1>10. LocalConfig(S, start, now, k)
         = [share |-> r, port |-> start + 2 * r, metrics |-> start + 2 * r + 1,
            transaction |-> t, genesis |-> g, indexer |-> FALSE]
  BY <1>1, <1>6, <1>8 DEF LocalConfig
<1> QED
  BY <1>1, <1>5, <1>6, <1>7, <1>9, <1>10 DEF Config

\* And `remote`.
LEMMA RemoteFile ==
  ASSUME NEW S \in SUBSET Nat, IsFiniteSet(S), NEW now \in Nat, NEW k \in S
  PROVE  /\ RemoteConfig(S, now, k) \in Config
         /\ RemoteConfig(S, now, k).share = Rank(S, k)
         /\ RemoteConfig(S, now, k).port = 4545
         /\ RemoteConfig(S, now, k).genesis = GenesisAfter(now, 2)
         /\ ~RemoteConfig(S, now, k).indexer
<1>1. PICK r : r = Rank(S, k)
  OBVIOUS
<1>2. r \in Nat
  <2>1. r \in 0 .. Cardinality(S) - 1
    BY <1>1, RankBounded, Zenon
  <2> QED
    BY <2>1
<1>3. PICK g : g = GenesisAfter(now, 2)
  OBVIOUS
<1>4. g \in Nat
  <2>1. 2 \in Nat \ {0}
    OBVIOUS
  <2> QED
    BY <1>3, <2>1, GenesisBounds, Zenon
<1> QED
  BY <1>1, <1>2, <1>3, <1>4 DEF RemoteConfig, Config, Port

\* The files are those of the keys they are for: what `local` wrote, or what
\* `remote` wrote but for the indexer's entry.
AsWritten ==
  /\ IsFiniteSet(keys) /\ keys \subseteq Nat
  /\ phase = "begin" <=> mode = "none"
  /\ phase = "begin" => keys = {}
  /\ phase # "begin" => keys # {}
  /\ phase = "select" => mode = "remote"
  /\ mode = "local" =>
       /\ startPort \in Port /\ HasRoom(keys, startPort)
       /\ \A k \in keys : /\ configs[k] = LocalConfig(keys, startPort, created, k)
                          /\ addresses[k] = configs[k].port
  /\ mode = "remote" =>
       \A k \in keys : /\ configs[k].share = Rank(keys, k) /\ configs[k].port = 4545
                       /\ configs[k].genesis = GenesisAfter(created, 2)

\* The constants' assumptions, one by one.
LEMMA SetupConstants ==
  /\ \A S \in SUBSET Peers : S \in SUBSET Nat /\ IsFiniteSet(S) /\ Cardinality(S) \in Nat
  /\ StartPorts \subseteq Port /\ Times \subseteq Nat
  /\ MaxRuns \in Nat /\ InstanceCounts \subseteq Nat \ {0}
<1>1. ASSUME NEW S \in SUBSET Peers
      PROVE  S \in SUBSET Nat /\ IsFiniteSet(S) /\ Cardinality(S) \in Nat
  <2>1. IsFiniteSet(Peers) /\ Peers \subseteq Nat
    BY DeploymentAssumption
  <2>2. IsFiniteSet(S)
    BY <2>1, FS_Subset, Zenon
  <2> QED
    BY <2>1, <2>2, FS_CardinalityType
<1> QED
  BY <1>1, DeploymentAssumption

\* Before setup there are no files.
LEMMA AsWrittenInit == SetupInit => SetupTypeOK /\ AsWritten
<1> SUFFICES ASSUME SetupInit PROVE SetupTypeOK /\ AsWritten
  OBVIOUS
<1>1. keys = {}
  BY DEF SetupInit, keys
<1>2. IsFiniteSet(keys) /\ Cardinality(keys) = 0
  BY <1>1, FS_EmptySet
<1>3. configs \in [keys -> Config]
  BY <1>1 DEF SetupInit
<1>4. SetupTypeOK
  BY <1>1, <1>2, <1>3, SetupConstants DEF SetupInit, SetupTypeOK
<1>5. AsWritten
  BY <1>1, <1>2 DEF SetupInit, AsWritten
<1> QED
  BY <1>4, <1>5

\* generate_local writes them.
LEMMA AsWrittenLocal ==
  ASSUME SetupTypeOK, AsWritten, NEW S \in SUBSET Peers, S # {}, NEW start \in StartPorts, NEW now \in Times,
         GenerateLocal(S, start, now)
  PROVE  SetupTypeOK' /\ AsWritten'
<1>1. S \in SUBSET Nat /\ IsFiniteSet(S) /\ Cardinality(S) \in Nat /\ start \in Port /\ now \in Nat
  BY SetupConstants
<1>2. HasRoom(S, start)
  BY DEF GenerateLocal
<1>3. configs' = [k \in S |-> LocalConfig(S, start, now, k)]
  BY DEF GenerateLocal
<1>4. keys' = S
  BY <1>3 DEF keys
<1>5. ASSUME NEW k \in S PROVE LocalConfig(S, start, now, k) \in Config
  BY <1>1, <1>2, LocalFile
<1>6. configs' \in [keys' -> Config]
  BY <1>3, <1>4, <1>5
<1>7. addresses' = [k \in S |-> LocalConfig(S, start, now, k).port]
  BY DEF GenerateLocal
<1>8. /\ phase = "begin" /\ phase' = "written" /\ mode' = "local" /\ startPort' = start /\ created' = now
      /\ turn' = turn /\ selected' = selected /\ failed' = failed /\ runs' = runs /\ most' = most
      /\ instances' = instances
  BY DEF GenerateLocal, loop
<1>9. keys = {}
  BY <1>8 DEF AsWritten
<1>10. selected = {} /\ failed = {} /\ most = 0
  <2>1. most \in 0 .. Cardinality({}) /\ Cardinality({}) = 0
    BY <1>9, FS_EmptySet DEF SetupTypeOK
  <2> QED
    BY <1>9, <2>1 DEF SetupTypeOK
<1>11. start \in Nat
  BY <1>1 DEF Port
<1>12. SetupTypeOK'
  BY <1>1, <1>4, <1>6, <1>7, <1>8, <1>10, <1>11 DEF SetupTypeOK
<1>13. AsWritten'
  BY <1>1, <1>2, <1>3, <1>4, <1>7, <1>8 DEF AsWritten
<1> QED
  BY <1>12, <1>13

\* generate_remote writes them.
LEMMA AsWrittenRemote ==
  ASSUME SetupTypeOK, AsWritten, NEW S \in SUBSET Peers, S # {}, NEW now \in Times,
         NEW n \in 1 .. Cardinality(S), NEW list \in [0 .. n - 1 -> Regions],
         GenerateRemote(S, n, list, now)
  PROVE  SetupTypeOK' /\ AsWritten'
<1>1. S \in SUBSET Nat /\ IsFiniteSet(S) /\ Cardinality(S) \in Nat /\ now \in Nat
  BY SetupConstants
<1>2. configs' = [k \in S |-> RemoteConfig(S, now, k)]
  BY DEF GenerateRemote
<1>3. keys' = S
  BY <1>2 DEF keys
<1>4. ASSUME NEW k \in S
      PROVE  /\ RemoteConfig(S, now, k) \in Config
             /\ RemoteConfig(S, now, k).share = Rank(S, k)
             /\ RemoteConfig(S, now, k).port = 4545
             /\ RemoteConfig(S, now, k).genesis = GenesisAfter(now, 2)
  BY <1>1, RemoteFile
<1>5. configs' \in [keys' -> Config]
  BY <1>2, <1>3, <1>4
<1>6. region' \in [S -> Regions]
  <2>1. region' = [k \in S |-> list[Rank(S, k) % n]]
    BY DEF GenerateRemote
  <2>2. ASSUME NEW k \in S PROVE Rank(S, k) % n \in 0 .. n - 1
    <3>1. Rank(S, k) \in 0 .. Cardinality(S) - 1
      BY <1>1, RankBounded, Zenon
    <3>2. n \in Nat \ {0} /\ Rank(S, k) \in Nat
      BY <1>1, <3>1
    <3> QED
      BY <3>2
  <2> QED
    BY <2>1, <2>2
<1>7. /\ phase = "begin" /\ phase' = "written" /\ mode' = "remote" /\ created' = now
      /\ startPort' = startPort /\ addresses' = addresses
      /\ turn' = turn /\ selected' = selected /\ failed' = failed /\ runs' = runs /\ most' = most
      /\ instances' = instances
  BY DEF GenerateRemote, loop
<1>8. keys = {}
  BY <1>7 DEF AsWritten
<1>9. selected = {} /\ failed = {} /\ most = 0
  <2>1. most \in 0 .. Cardinality({}) /\ Cardinality({}) = 0
    BY <1>8, FS_EmptySet DEF SetupTypeOK
  <2> QED
    BY <1>8, <2>1 DEF SetupTypeOK
<1>10. SetupTypeOK'
  BY <1>1, <1>3, <1>5, <1>6, <1>7, <1>9 DEF SetupTypeOK
<1>11. AsWritten'
  <2>1. \A k \in S : /\ configs'[k].share = Rank(S, k) /\ configs'[k].port = 4545
                     /\ configs'[k].genesis = GenesisAfter(now, 2)
    BY <1>2, <1>4
  <2> QED
    BY <1>1, <1>3, <1>7, <2>1 DEF AsWritten
<1> QED
  BY <1>10, <1>11

\* Where the files stay as they are, so does all that is said of them.
LEMMA AsWrittenKept ==
  ASSUME AsWritten, UNCHANGED files, phase # "begin", phase' # "begin", phase' = "select" => mode = "remote"
  PROVE  AsWritten'
<1>1. /\ mode' = mode /\ startPort' = startPort /\ created' = created
      /\ configs' = configs /\ addresses' = addresses
  BY DEF files
<1>2. keys' = keys
  BY <1>1 DEF keys
<1> QED
  BY <1>1, <1>2 DEF AsWritten

\* Names of regions: those with a host.
LEMMA NamesKept ==
  ASSUME UNCHANGED files
  PROVE  /\ configs' = configs /\ keys' = keys /\ region' = region /\ mode' = mode
         /\ RegionNames' = RegionNames
         /\ \A r : Hosts(r)' = Hosts(r)
BY DEF files, keys, RegionNames, Hosts

\* A count of keys is a number.
LEMMA KeysCounted ==
  ASSUME AsWritten
  PROVE  /\ Cardinality(keys) \in Nat
         /\ \A c \in 1 .. Cardinality(keys) : c \in Nat
<1>1. Cardinality(keys) \in Nat
  BY FS_CardinalityType DEF AsWritten
<1> QED
  BY <1>1

\* A set of hosts is one of keys.
LEMMA HostsAreKeys == \A r : Hosts(r) \in SUBSET keys
BY DEF Hosts

\* setup indexer reads them,
LEMMA AsWrittenIndexer ==
  ASSUME SetupTypeOK, AsWritten, NEW c \in 1 .. Cardinality(keys), StartIndexer(c)
  PROVE  SetupTypeOK' /\ AsWritten'
<1>1. /\ phase = "written" /\ mode = "remote" /\ runs < MaxRuns
      /\ phase' = "select" /\ runs' = runs + 1 /\ count' = c /\ turn' = 0 /\ selected' = {}
      /\ left' = [r \in RegionNames |-> Hosts(r)]
      /\ failed' = failed /\ most' = most /\ instances' = instances
  BY DEF StartIndexer
<1>2. UNCHANGED files
  BY DEF StartIndexer
<1>3. AsWritten'
  BY <1>1, <1>2, AsWrittenKept
<1>4. /\ configs' = configs /\ keys' = keys /\ region' = region /\ mode' = mode
      /\ RegionNames' = RegionNames
  BY <1>2, NamesKept
<1>5. startPort' = startPort /\ created' = created /\ addresses' = addresses
  BY <1>2 DEF files
<1>6. left' \in [RegionNames -> SUBSET keys]
  BY <1>1, HostsAreKeys
<1>7. runs' \in 0 .. MaxRuns
  BY <1>1, SetupConstants DEF SetupTypeOK
<1>8. SetupTypeOK'
  BY <1>1, <1>4, <1>5, <1>6, <1>7 DEF SetupTypeOK
<1> QED
  BY <1>3, <1>8

\* `remote` leaves at least one region, and finitely many.
LEMMA RegionsOfHosts ==
  ASSUME SetupTypeOK, AsWritten, mode = "remote"
  PROVE  /\ RegionNames \in SUBSET Nat /\ IsFiniteSet(RegionNames) /\ RegionNames # {}
         /\ Cardinality(RegionNames) \in Nat \ {0}
         /\ \A k \in keys : region[k] \in RegionNames
<1>1. region \in [keys -> Regions] /\ IsFiniteSet(keys) /\ keys # {}
  BY DEF SetupTypeOK, AsWritten
<1>2. RegionNames \in SUBSET Nat /\ RegionNames # {} /\ \A k \in keys : region[k] \in RegionNames
  BY <1>1, DeploymentAssumption DEF RegionNames
<1>3. region \in Surjection(keys, RegionNames)
  BY <1>1 DEF RegionNames, Surjection
<1>4. IsFiniteSet(RegionNames)
  BY <1>1, <1>3, FS_Surjection, Zenon
<1>5. Cardinality(RegionNames) \in Nat \ {0}
  BY <1>2, <1>4, FS_CardinalityType, FS_EmptySet
<1> QED
  BY <1>2, <1>4, <1>5

\* The region whose turn is n.
LEMMA RegionOfTurn ==
  ASSUME SetupTypeOK, AsWritten, mode = "remote", NEW n \in Nat
  PROVE  /\ RegionAt(n) \in RegionNames
         /\ Rank(RegionNames, RegionAt(n)) = n % Cardinality(RegionNames)
<1>1. /\ RegionNames \in SUBSET Nat /\ IsFiniteSet(RegionNames)
      /\ Cardinality(RegionNames) \in Nat \ {0}
  BY RegionsOfHosts
<1>2. PICK v : v = n % Cardinality(RegionNames)
  OBVIOUS
<1>3. v \in 0 .. Cardinality(RegionNames) - 1
  BY <1>1, <1>2
<1>4. \E r \in RegionNames : Rank(RegionNames, r) = v
  BY <1>1, <1>3, RankOnto, Zenon
<1>5. RegionAt(n) = CHOOSE r \in RegionNames : Rank(RegionNames, r) = v
  BY <1>2, Zenon DEF RegionAt
<1> QED
  BY <1>2, <1>4, <1>5

\* A peer that is taken is the first of those the region has left.
LEMMA TakenPeer ==
  ASSUME SetupTypeOK, AsWritten, TakePeer
  PROVE  \E r \in RegionNames : \E k \in left[r] :
           /\ r = RegionAt(turn) /\ k \in keys
           /\ \A x \in left[r] : k <= x
           /\ phase = "select" /\ mode = "remote" /\ Cardinality(selected) < count
           /\ left' = [left EXCEPT ![r] = @ \ {k}]
           /\ selected' = selected \cup {k}
           /\ turn' = turn + 1
<1>1. PICK r : r = RegionAt(turn)
  OBVIOUS
<1>2. /\ phase = "select" /\ Choosing /\ left[r] # {}
      /\ left' = [left EXCEPT ![r] = @ \ {Lowest(@)}]
      /\ selected' = selected \cup {Lowest(left[r])}
      /\ turn' = turn + 1
  BY <1>1, Zenon DEF TakePeer
<1>3. mode = "remote" /\ turn \in Nat /\ left \in [RegionNames -> SUBSET keys]
      /\ IsFiniteSet(keys) /\ keys \in SUBSET Nat
  BY <1>2 DEF AsWritten, SetupTypeOK
<1>4. r \in RegionNames
  BY <1>1, <1>3, RegionOfTurn
<1>5. PICK L : L = left[r]
  OBVIOUS
<1>6. L \in SUBSET keys /\ L # {}
  BY <1>2, <1>3, <1>4, <1>5
<1>7. L \in SUBSET Nat /\ IsFiniteSet(L)
  BY <1>3, <1>6, FS_Subset
<1>8. PICK k : k = Lowest(L)
  OBVIOUS
<1>9. k \in L /\ \A x \in L : k <= x
  BY <1>6, <1>7, <1>8, LowestFirst, Zenon
<1>10. left' = [left EXCEPT ![r] = @ \ {k}] /\ selected' = selected \cup {k}
  BY <1>2, <1>3, <1>4, <1>5, <1>8
<1> QED
  BY <1>1, <1>2, <1>3, <1>4, <1>5, <1>6, <1>9, <1>10 DEF Choosing

\* chooses peers one by one,
LEMMA AsWrittenTake ==
  ASSUME SetupTypeOK, AsWritten, TakePeer
  PROVE  SetupTypeOK' /\ AsWritten'
<1>1. PICK r \in RegionNames : \E k \in left[r] :
        /\ k \in keys /\ phase = "select" /\ mode = "remote"
        /\ left' = [left EXCEPT ![r] = @ \ {k}]
        /\ selected' = selected \cup {k}
        /\ turn' = turn + 1
  BY TakenPeer
<1>2. /\ UNCHANGED files
      /\ phase' = phase /\ count' = count /\ failed' = failed /\ runs' = runs /\ most' = most
      /\ instances' = instances
  BY Zenon DEF TakePeer
<1>3. AsWritten'
  BY <1>1, <1>2, AsWrittenKept
<1>4. /\ configs' = configs /\ keys' = keys /\ region' = region /\ mode' = mode
      /\ RegionNames' = RegionNames
  BY <1>2, NamesKept
<1>5. startPort' = startPort /\ created' = created /\ addresses' = addresses
  BY <1>2 DEF files
<1>6. left' \in [RegionNames -> SUBSET keys]
  BY <1>1 DEF SetupTypeOK
<1>7. SetupTypeOK'
  BY <1>1, <1>2, <1>4, <1>5, <1>6 DEF SetupTypeOK
<1> QED
  BY <1>3, <1>7

\* passes over a region,
LEMMA AsWrittenSkip ==
  ASSUME SetupTypeOK, AsWritten, SkipRegion
  PROVE  SetupTypeOK' /\ AsWritten'
<1>1. /\ UNCHANGED files
      /\ phase = "select" /\ turn' = turn + 1 /\ left' = left /\ selected' = selected
      /\ phase' = phase /\ count' = count /\ failed' = failed /\ runs' = runs /\ most' = most
      /\ instances' = instances
  BY Zenon DEF SkipRegion
<1>2. AsWritten'
  BY <1>1, AsWrittenKept DEF AsWritten
<1>3. /\ configs' = configs /\ keys' = keys /\ region' = region /\ mode' = mode
      /\ RegionNames' = RegionNames
  BY <1>1, NamesKept
<1>4. startPort' = startPort /\ created' = created /\ addresses' = addresses
  BY <1>1 DEF files
<1>5. SetupTypeOK'
  BY <1>1, <1>3, <1>4 DEF SetupTypeOK
<1> QED
  BY <1>2, <1>5

\* and writes one entry of some of the files, nothing else.
LEMMA AsWrittenUpdate ==
  ASSUME SetupTypeOK, AsWritten, WriteSelected
  PROVE  SetupTypeOK' /\ AsWritten'
<1>1. PICK done \in SUBSET selected :
        /\ configs' = [k \in keys |-> IF k \in done THEN [configs[k] EXCEPT !.indexer = TRUE]
                                      ELSE configs[k]]
        /\ failed' = (failed \cup selected) \ done
  BY Zenon DEF WriteSelected
<1>2. /\ phase = "select" /\ phase' = "written"
      /\ most' = IF count > most THEN count ELSE most
      /\ mode' = mode /\ startPort' = startPort /\ created' = created /\ addresses' = addresses
      /\ region' = region /\ turn' = turn /\ left' = left /\ selected' = selected
      /\ runs' = runs /\ instances' = instances
  BY DEF WriteSelected, loop
<1>3. keys' = keys
  BY <1>1 DEF keys
<1>4. mode = "remote" /\ configs \in [keys -> Config]
  BY <1>2 DEF AsWritten, SetupTypeOK
<1>5. ASSUME NEW k \in keys
      PROVE  /\ configs'[k] \in Config
             /\ configs'[k].share = configs[k].share /\ configs'[k].port = configs[k].port
             /\ configs'[k].genesis = configs[k].genesis
  <2>1. PICK c : c = configs[k]
    OBVIOUS
  <2>2. c \in Config
    BY <1>4, <2>1
  <2>3. PICK d : d = [c EXCEPT !.indexer = TRUE]
    OBVIOUS
  <2>4. d \in Config /\ d.share = c.share /\ d.port = c.port /\ d.genesis = c.genesis
    BY <2>2, <2>3 DEF Config
  <2>5. configs'[k] = d \/ configs'[k] = c
    BY <1>1, <2>1, <2>3
  <2> QED
    BY <2>1, <2>2, <2>4, <2>5
<1>6. DOMAIN configs' = keys
  BY <1>1
<1>7. configs' \in [keys' -> Config]
  BY <1>1, <1>3, <1>5
<1>8. most' \in 0 .. Cardinality(keys)
  BY <1>2 DEF SetupTypeOK
<1>9. SetupTypeOK'
  BY <1>1, <1>2, <1>3, <1>4, <1>7, <1>8 DEF SetupTypeOK
<1>10. AsWritten'
  BY <1>2, <1>3, <1>4, <1>5 DEF AsWritten
<1> QED
  BY <1>9, <1>10

\* Validators that start leave them alone.
LEMMA AsWrittenStart ==
  ASSUME SetupTypeOK, AsWritten, NEW n \in InstanceCounts, StartValidators(n)
  PROVE  SetupTypeOK' /\ AsWritten'
<1>1. /\ UNCHANGED files /\ phase = "written" /\ phase' = "started" /\ instances' = n
      /\ turn' = turn /\ left' = left /\ selected' = selected /\ count' = count
      /\ failed' = failed /\ runs' = runs /\ most' = most
  BY DEF StartValidators, loop
<1>2. AsWritten'
  BY <1>1, AsWrittenKept
<1>3. /\ configs' = configs /\ keys' = keys /\ region' = region /\ mode' = mode
  BY <1>1, NamesKept
<1>4. startPort' = startPort /\ created' = created /\ addresses' = addresses
  BY <1>1 DEF files
<1>5. SetupTypeOK'
  BY <1>1, <1>3, <1>4, SetupConstants DEF SetupTypeOK
<1> QED
  BY <1>2, <1>5

\* Both hold in every step.
LEMMA AsWrittenStep ==
  ASSUME SetupTypeOK, AsWritten, [SetupNext]_setupVars
  PROVE  SetupTypeOK' /\ AsWritten'
<1>1. ASSUME NEW S \in (SUBSET Peers) \ {{}}, NEW now \in Times, NEW start \in StartPorts,
             GenerateLocal(S, start, now)
      PROVE  SetupTypeOK' /\ AsWritten'
  <2>1. S \in SUBSET Peers /\ S # {}
    OBVIOUS
  <2> QED
    BY <1>1, <2>1, AsWrittenLocal, Zenon
<1>2. ASSUME NEW S \in (SUBSET Peers) \ {{}}, NEW now \in Times, NEW n \in 1 .. Cardinality(S),
             NEW list \in [0 .. n - 1 -> Regions], GenerateRemote(S, n, list, now)
      PROVE  SetupTypeOK' /\ AsWritten'
  <2>1. S \in SUBSET Peers /\ S # {}
    OBVIOUS
  <2> QED
    BY <1>2, <2>1, AsWrittenRemote, Zenon
<1>3. ASSUME NEW c \in 1 .. Cardinality(keys), StartIndexer(c)
      PROVE  SetupTypeOK' /\ AsWritten'
  BY <1>3, AsWrittenIndexer
<1>4. ASSUME NEW n \in InstanceCounts, StartValidators(n)
      PROVE  SetupTypeOK' /\ AsWritten'
  BY <1>4, AsWrittenStart
<1>5. CASE SetupNext
  BY <1>1, <1>2, <1>3, <1>4, <1>5, AsWrittenTake, AsWrittenSkip, AsWrittenUpdate, Zenon DEF SetupNext
<1>6. CASE UNCHANGED setupVars
  <2>1. /\ phase' = phase /\ UNCHANGED files
        /\ turn' = turn /\ left' = left /\ selected' = selected /\ count' = count
        /\ failed' = failed /\ runs' = runs /\ most' = most /\ instances' = instances
    BY <1>6 DEF setupVars, loop
  <2>2. /\ configs' = configs /\ keys' = keys /\ region' = region /\ mode' = mode
        /\ RegionNames' = RegionNames
    BY <2>1, NamesKept
  <2>3. startPort' = startPort /\ created' = created /\ addresses' = addresses
    BY <2>1 DEF files
  <2>4. SetupTypeOK'
    BY <2>1, <2>2, <2>3 DEF SetupTypeOK
  <2>5. AsWritten'
    BY <2>1, <2>2, <2>3 DEF AsWritten
  <2> QED
    BY <2>4, <2>5
<1> QED
  BY <1>5, <1>6

\* Types and files are as written in every state.
LEMMA FilesAsWritten == SetupSpec => [](SetupTypeOK /\ AsWritten)
<1>1. SetupTypeOK /\ AsWritten /\ [SetupNext]_setupVars => (SetupTypeOK /\ AsWritten)'
  BY AsWrittenStep
<1> QED
  BY <1>1, AsWrittenInit, PTL DEF SetupSpec

-----------------------------------------------------------------------------
(* What holds of the files, however often setup indexer runs. *)

\* Every field setup writes stays of its type; ports stay within 16 bits.
THEOREM SetupTypes == SetupSpec => []SetupTypeOK
BY FilesAsWritten, PTL

\* A key's place among the keys.
LEMMA KeyRank ==
  ASSUME AsWritten, NEW k \in keys
  PROVE  Rank(keys, k) \in 0 .. Cardinality(keys) - 1 /\ Cardinality(keys) \in Nat
<1>1. PICK S : S = keys
  OBVIOUS
<1>2. S \in SUBSET Nat /\ IsFiniteSet(S) /\ k \in S
  BY <1>1 DEF AsWritten
<1>3. Rank(S, k) \in 0 .. Cardinality(S) - 1 /\ Cardinality(S) \in Nat
  BY <1>2, RankBounded, FS_CardinalityType, Zenon
<1> QED
  BY <1>1, <1>3, Zenon

\* No two keys have the same place.
LEMMA KeysRanked ==
  ASSUME AsWritten
  PROVE  \A j, k \in keys : Rank(keys, j) = Rank(keys, k) => j = k
<1>1. PICK S : S = keys
  OBVIOUS
<1>2. S \in SUBSET Nat /\ IsFiniteSet(S)
  BY <1>1 DEF AsWritten
<1>3. \A j, k \in S : Rank(S, j) = Rank(S, k) => j = k
  BY <1>2, RankInjective, Zenon
<1> QED
  BY <1>1, <1>3, Zenon

\* What a peer's file says on a host of its own.
LEMMA RemoteFields ==
  ASSUME AsWritten, mode = "remote", NEW k \in keys
  PROVE  configs[k].share = Rank(keys, k) /\ configs[k].genesis = GenesisAfter(created, 2)
<1>1. \A x \in keys : /\ configs[x].share = Rank(keys, x)
                      /\ configs[x].genesis = GenesisAfter(created, 2)
  BY SMTT(30) DEF AsWritten
<1> QED
  BY <1>1

\* What a peer's file says on one host.
LEMMA LocalFields ==
  ASSUME SetupTypeOK, AsWritten, mode = "local", NEW k \in keys
  PROVE  /\ configs[k].share = Rank(keys, k)
         /\ configs[k].port = startPort + 2 * Rank(keys, k)
         /\ configs[k].metrics = startPort + 2 * Rank(keys, k) + 1
         /\ configs[k].transaction = 8081 + Rank(keys, k)
         /\ configs[k].genesis = GenesisAfter(created, 4)
<1>1. PICK S : S = keys
  OBVIOUS
<1>2. PICK s : s = startPort
  OBVIOUS
<1>3. PICK t : t = created
  OBVIOUS
<1>4. /\ S \in SUBSET Nat /\ IsFiniteSet(S) /\ k \in S /\ t \in Nat /\ s \in Port
      /\ HasRoom(S, s) /\ configs[k] = LocalConfig(S, s, t, k)
  BY <1>1, <1>2, <1>3 DEF SetupTypeOK, AsWritten
<1>5. /\ LocalConfig(S, s, t, k).share = Rank(S, k)
      /\ LocalConfig(S, s, t, k).port = s + 2 * Rank(S, k)
      /\ LocalConfig(S, s, t, k).metrics = s + 2 * Rank(S, k) + 1
      /\ LocalConfig(S, s, t, k).transaction = 8081 + Rank(S, k)
      /\ LocalConfig(S, s, t, k).genesis = GenesisAfter(t, 4)
  BY <1>4, LocalFile
<1> QED
  BY <1>1, <1>2, <1>3, <1>4, <1>5

\* Whatever the keys are, the ports of a network on one host are apart, if the
\* ports counted up from the start port stay below or begin above those of the
\* HTTP servers (setup.rs, generate_local).
THEOREM LocalPortsApart == SetupSpec => []PortsApart
<1>1. SetupTypeOK /\ AsWritten => PortsApart
  <2> SUFFICES ASSUME SetupTypeOK, AsWritten, mode = "local",
                      startPort + 2 * Cardinality(keys) <= 8081 \/ startPort > 8080 + Cardinality(keys)
               PROVE  /\ \A k \in keys : /\ configs[k].port # configs[k].metrics
                                       /\ configs[k].transaction \notin {configs[k].port, configs[k].metrics}
                      /\ \A j, k \in keys : j # k => Listens(configs[j]) \cap Listens(configs[k]) = {}
    BY DEF PortsApart
  <2>1. PICK N : N = Cardinality(keys)
    OBVIOUS
  <2>2. PICK s : s = startPort
    OBVIOUS
  <2>3. IsFiniteSet(keys) /\ keys \in SUBSET Nat /\ s \in Nat /\ N \in Nat
    BY <2>1, <2>2, FS_CardinalityType DEF SetupTypeOK, AsWritten
  <2>4. s + 2 * N <= 8081 \/ s > 8080 + N
    BY <2>1, <2>2
  <2>5. ASSUME NEW k \in keys
        PROVE  \E r \in 0 .. N - 1 :
                 /\ r = Rank(keys, k)
                 /\ configs[k].port = s + 2 * r /\ configs[k].metrics = s + 2 * r + 1
                 /\ configs[k].transaction = 8081 + r
    BY <2>1, <2>2, KeyRank, LocalFields
  <2>6. ASSUME NEW k \in keys
        PROVE  /\ configs[k].port # configs[k].metrics
               /\ configs[k].transaction \notin {configs[k].port, configs[k].metrics}
    <3>1. PICK r \in 0 .. N - 1 :
            /\ configs[k].port = s + 2 * r /\ configs[k].metrics = s + 2 * r + 1
            /\ configs[k].transaction = 8081 + r
      BY <2>5
    <3> QED
      BY <2>3, <2>4, <3>1
  <2>7. ASSUME NEW j \in keys, NEW k \in keys, j # k
        PROVE  Listens(configs[j]) \cap Listens(configs[k]) = {}
    <3>1. PICK r \in 0 .. N - 1 :
            /\ r = Rank(keys, j)
            /\ configs[j].port = s + 2 * r /\ configs[j].metrics = s + 2 * r + 1
            /\ configs[j].transaction = 8081 + r
      BY <2>5
    <3>2. PICK q \in 0 .. N - 1 :
            /\ q = Rank(keys, k)
            /\ configs[k].port = s + 2 * q /\ configs[k].metrics = s + 2 * q + 1
            /\ configs[k].transaction = 8081 + q
      BY <2>5
    <3>3. r # q
      BY <2>7, <3>1, <3>2, KeysRanked
    <3>4. \A a \in {s + 2 * r, s + 2 * r + 1, 8081 + r} :
            a \notin {s + 2 * q, s + 2 * q + 1, 8081 + q}
      BY <2>3, <2>4, <3>3
    <3> QED
      BY <3>1, <3>2, <3>4 DEF Listens
  <2> QED
    BY <2>6, <2>7
<1> QED
  BY <1>1, FilesAsWritten, PTL

\* All validators are given one genesis, far enough ahead (generate_local,
\* generate_remote).
THEOREM OneGenesisAhead == SetupSpec => []GenesisAhead
<1>1. SetupTypeOK /\ AsWritten => GenesisAhead
  <2> SUFFICES ASSUME SetupTypeOK, AsWritten, NEW j \in keys, NEW k \in keys
               PROVE  /\ configs[j].genesis = configs[k].genesis
                      /\ configs[k].genesis % 60 = 0
                      /\ configs[k].genesis > created + (IF mode = "local" THEN 180 ELSE 60)
    BY DEF GenesisAhead
  <2>1. created \in Nat /\ IsFiniteSet(keys) /\ keys \in SUBSET Nat /\ mode \in {"local", "remote"}
    BY DEF SetupTypeOK, AsWritten
  <2>2. CASE mode = "local"
    <3>2. ASSUME NEW x \in keys PROVE configs[x].genesis = GenesisAfter(created, 4)
      BY <2>2, LocalFields
    <3>3. /\ GenesisAfter(created, 4) % 60 = 0
          /\ GenesisAfter(created, 4) > created + 60 * (4 - 1)
      BY <2>1, GenesisBounds
    <3> QED
      BY <2>2, <3>2, <3>3
  <2>3. CASE mode = "remote"
    <3>1. ASSUME NEW x \in keys PROVE configs[x].genesis = GenesisAfter(created, 2)
      BY <2>3, RemoteFields
    <3>2. /\ GenesisAfter(created, 2) % 60 = 0
          /\ GenesisAfter(created, 2) > created + 60 * (2 - 1)
      BY <2>1, GenesisBounds
    <3> QED
      BY <2>3, <3>1, <3>2
  <2> QED
    BY <2>1, <2>2, <2>3
<1> QED
  BY <1>1, FilesAsWritten, PTL

\* Shares, the supervisor's participants and leaders, and the explorer's
\* locations go by one numbering of the validators (setup.rs, supervisor.rs).
THEOREM IndicesAgree == SetupSpec => []SameIndices
<1>1. SetupTypeOK /\ AsWritten => SameIndices
  <2> SUFFICES ASSUME SetupTypeOK, AsWritten PROVE SameIndices
    OBVIOUS
  <2>1. PICK N : N = Cardinality(keys)
    OBVIOUS
  <2>2. /\ created \in Nat /\ IsFiniteSet(keys) /\ keys \in SUBSET Nat /\ N \in Nat
        /\ keys # {} => mode \in {"local", "remote"}
    <3>1. mode \in {"none", "local", "remote"} /\ created \in Nat
      BY DEF SetupTypeOK
    <3>2. IsFiniteSet(keys) /\ keys \in SUBSET Nat /\ (keys # {} => mode # "none")
      BY DEF AsWritten
    <3> QED
      BY <2>1, <3>1, <3>2, FS_CardinalityType
  <2>3. ASSUME NEW k \in keys
        PROVE  configs[k].share = Rank(keys, k) /\ Rank(keys, k) \in 0 .. N - 1
    <3>1. Rank(keys, k) \in 0 .. N - 1
      BY <2>1, KeyRank
    <3>2. CASE mode = "local"
      BY <3>1, <3>2, LocalFields
    <3>3. CASE mode = "remote"
      BY <3>1, <3>3, RemoteFields
    <3> QED
      BY <2>2, <3>2, <3>3
  <2>4. ASSUME NEW k \in keys
        PROVE  Locations[Rank(keys, k)] = region[k]
    <3>1. PICK i : i = Rank(keys, k)
      OBVIOUS
    <3>2. PICK x : x = CHOOSE y \in keys : Rank(keys, y) = i
      OBVIOUS
    <3>3. x \in keys /\ Rank(keys, x) = i
      BY <3>1, <3>2
    <3>4. x = k
      BY <2>2, <3>1, <3>3, RankInjective, Zenon
    <3>5. i \in 0 .. Cardinality(keys) - 1
      BY <2>1, <2>3, <3>1
    <3>6. Locations[i] = region[CHOOSE y \in keys : Rank(keys, y) = i]
      BY <3>5 DEF Locations
    <3> QED
      BY <3>1, <3>2, <3>4, <3>6
  <2>5. ASSUME NEW seed \in 0 .. N - 1
        PROVE  LeaderFor(keys, seed) \in keys /\ Rank(keys, LeaderFor(keys, seed)) = seed
    <3>1. seed % N = seed
      BY <2>2
    <3>2. \E k \in keys : Rank(keys, k) = seed
      BY <2>1, <2>2, RankOnto, Zenon
    <3>3. LeaderFor(keys, seed) = CHOOSE k \in keys : Rank(keys, k) = seed
      BY <2>1, <3>1, Zenon DEF LeaderFor
    <3> QED
      BY <3>2, <3>3
  <2>6. ASSUME NEW k \in keys
        PROVE  LeaderFor(keys, Rank(keys, k)) = k
    <3>1. Rank(keys, k) \in 0 .. N - 1
      BY <2>3
    <3> QED
      BY <2>2, <2>5, <3>1, RankInjective
  <2>7. keys = { LeaderFor(keys, seed) : seed \in 0 .. N - 1 }
    BY <2>3, <2>5, <2>6
  <2> QED
    BY <2>1, <2>3, <2>4, <2>7 DEF SameIndices, ParticipantIndex
<1> QED
  BY <1>1, FilesAsWritten, PTL

\* Where a validator connects to, its bootstrapper listens (validator.rs).
THEOREM DialsWhereListened == SetupSpec => []DialsListener
<1>1. SetupTypeOK /\ AsWritten => DialsListener
  <2> SUFFICES ASSUME SetupTypeOK, AsWritten, NEW own \in keys, NEW k \in keys
               PROVE  DialledPort(own, k) = configs[k].port
    BY DEF DialsListener
  <2>1. mode \in {"local", "remote"}
    BY DEF SetupTypeOK, AsWritten
  <2> QED
    BY <2>1 DEF AsWritten, DialledPort
<1> QED
  BY <1>1, FilesAsWritten, PTL

\* All of what setup writes fits together.
THEOREM FilesFitTogether == SetupSpec => []FilesFit
<1>1. SetupTypeOK => \A k \in keys : Listens(configs[k]) \subseteq Port
  <2> SUFFICES ASSUME SetupTypeOK, NEW k \in keys PROVE Listens(configs[k]) \subseteq Port
    OBVIOUS
  <2>1. configs[k] \in Config
    BY DEF SetupTypeOK
  <2> QED
    BY <2>1 DEF Config, Listens
<1>2. SetupTypeOK /\ PortsApart /\ GenesisAhead /\ SameIndices /\ DialsListener => FilesFit
  BY <1>1 DEF FilesFit
<1> QED
  BY <1>2, SetupTypes, LocalPortsApart, OneGenesisAhead, IndicesAgree, DialsWhereListened, PTL

\* The number of instances validators are started with.
LEMMA InstancesPositive == SetupSpec => [](instances \in Nat \ {0})
<1>1. SetupInit => instances \in Nat \ {0}
  BY DEF SetupInit
<1>2. instances \in Nat \ {0} /\ [SetupNext]_setupVars => (instances \in Nat \ {0})'
  <2> SUFFICES ASSUME instances \in Nat \ {0}, [SetupNext]_setupVars
               PROVE  instances' \in Nat \ {0}
    OBVIOUS
  <2>1. CASE UNCHANGED instances
    BY <2>1
  <2>2. ASSUME NEW n \in InstanceCounts, StartValidators(n)
        PROVE  instances' \in Nat \ {0}
    BY <2>2, SetupConstants DEF StartValidators
  <2>3. CASE SetupNext
    <3>1. ASSUME NEW S, NEW now, NEW start, GenerateLocal(S, start, now)
          PROVE  instances' = instances
      BY <3>1 DEF GenerateLocal
    <3>2. ASSUME NEW S, NEW now, NEW n, NEW list, GenerateRemote(S, n, list, now)
          PROVE  instances' = instances
      BY <3>2 DEF GenerateRemote
    <3>3. ASSUME NEW c, StartIndexer(c)
          PROVE  instances' = instances
      BY <3>3 DEF StartIndexer
    <3>4. TakePeer \/ SkipRegion \/ WriteSelected => instances' = instances
      BY Zenon DEF TakePeer, SkipRegion, WriteSelected
    <3> QED
      BY <2>1, <2>2, <2>3, <3>1, <3>2, <3>3, <3>4, Zenon DEF SetupNext
  <2> QED
    BY <2>1, <2>3 DEF setupVars
<1> QED
  BY <1>1, <1>2, PTL DEF SetupSpec

\* With the genesis setup wrote, the instances of all validators propose in
\* the order in which gatling takes their blocks, for up to 3000 instances
\* (actor.rs, tproposal).
THEOREM ProposalsDueInOrder == SetupSpec => []ProposalsInOrder
<1>1. SetupTypeOK /\ GenesisAhead /\ instances \in Nat \ {0} => ProposalsInOrder
  <2> SUFFICES ASSUME SetupTypeOK, GenesisAhead, instances \in Nat \ {0}, instances <= BlockTime,
                      NEW g \in {configs[k].genesis : k \in keys}, NEW h \in {configs[k].genesis : k \in keys},
                      NEW u \in ProposalViews, NEW v \in ProposalViews,
                      NEW i \in 1 .. instances, NEW l \in 1 .. instances
               PROVE  TProposal(g, instances, i, u) < TProposal(h, instances, l, v)
                        <=> SlotBefore([view |-> u, inst |-> i], [view |-> v, inst |-> l])
    BY DEF ProposalsInOrder
  <2>1. g = h
    BY DEF GenesisAhead
  <2>2. g \in Nat
    <3>1. PICK k \in keys : g = configs[k].genesis
      OBVIOUS
    <3>2. configs[k] \in Config
      BY DEF SetupTypeOK
    <3> QED
      BY <3>1, <3>2 DEF Config
  <2>3. instances \in 1 .. BlockTime /\ u \in Nat /\ v \in Nat
    BY DeploymentAssumption DEF BlockTime
  <2>4. TProposal(g, instances, i, u) < TProposal(g, instances, l, v) <=> u < v \/ (u = v /\ i < l)
    BY <2>2, <2>3, ProposalsCompare
  <2> QED
    BY <2>1, <2>4 DEF SlotBefore
<1> QED
  BY <1>1, FilesAsWritten, OneGenesisAhead, InstancesPositive, PTL

\* And their channels are apart from one another and from that of the gossip
\* (validator.rs), for any number of instances.
THEOREM ChannelsStayApart == SetupSpec => []ChannelsKeptApart
<1>1. instances \in Nat \ {0} => ChannelsKeptApart
  BY ChannelsAreApart DEF ChannelsKeptApart
<1> QED
  BY <1>1, InstancesPositive, PTL

\* So no two instances propose at one time or talk on one channel.
THEOREM InstancesStayApart == SetupSpec => []InstancesApart
<1>1. ProposalsInOrder /\ ChannelsKeptApart => InstancesApart
  BY DEF InstancesApart
<1> QED
  BY <1>1, ProposalsDueInOrder, ChannelsStayApart, PTL

-----------------------------------------------------------------------------
(* setup indexer: how the peers that report are spread. *)

\* The turn at which the loop comes to a peer: peers of one region are taken
\* in order, a round of all regions apart.
Slot(k) == Cardinality(RegionNames) * Rank(Hosts(region[k]), k) + Rank(RegionNames, region[k])

\* The peers whose turn is before n.
UpTo(n) == {k \in keys : Slot(k) < n}

\* The peers that report, or should.
Reported == {k \in keys : configs[k].indexer} \cup failed

\* A selection has taken the peers whose turn is over, and all runs together
\* those up to some turn.
SpreadInv ==
  mode = "remote" =>
    /\ phase = "select" => /\ selected = UpTo(turn) /\ Cardinality(selected) <= count
                           /\ \A r \in RegionNames : left[r] = Hosts(r) \ selected
    /\ \E n \in Nat : Reported = UpTo(n) /\ Cardinality(Reported) = most

\* Turns are compared by the round first, then by the region.
LEMMA RoundsCompare ==
  ASSUME NEW m \in Nat \ {0}, NEW a \in Nat, NEW b \in Nat, NEW i \in 0 .. m - 1, NEW j \in 0 .. m - 1
  PROVE  /\ a < b => m * a + i < m * b + j
         /\ m * a + i = m * b + j => a = b /\ i = j
<1>1. ASSUME NEW c \in Nat, NEW d \in Nat, NEW e \in 0 .. m - 1, NEW f \in 0 .. m - 1, c < d
      PROVE  m * c + e < m * d + f
  <2>1. m * (c + 1) = m * c + m
    BY Z3
  <2>2. m * (c + 1) <= m * d
    BY <1>1, Z3
  <2>3. PICK x : x = m * c
    OBVIOUS
  <2>4. PICK y : y = m * d
    OBVIOUS
  <2>5. x \in Nat /\ y \in Nat /\ x + m <= y
    BY <2>1, <2>2, <2>3, <2>4
  <2>6. x + e < y + f
    BY <2>5
  <2> QED
    BY <2>3, <2>4, <2>6
<1>2. a < b => m * a + i < m * b + j
  BY <1>1
<1>3. b < a => m * b + j < m * a + i
  BY <1>1
<1>4. m * a \in Nat /\ m * b \in Nat
  OBVIOUS
<1>5. m * a + i = m * b + j => a = b /\ i = j
  <2>1. PICK x : x = m * a
    OBVIOUS
  <2>2. PICK y : y = m * b
    OBVIOUS
  <2>3. SUFFICES ASSUME x + i = y + j PROVE a = b /\ i = j
    BY <2>1, <2>2
  <2>4. a = b
    BY <1>2, <1>3, <1>4, <2>1, <2>2, <2>3
  <2>5. x = y
    BY <2>1, <2>2, <2>4
  <2> QED
    BY <1>4, <2>1, <2>3, <2>4, <2>5
<1> QED
  BY <1>2, <1>5

\* A number is its quotient and its remainder.
LEMMA DivideAndMultiply ==
  ASSUME NEW n \in Int, NEW m \in Int, m > 0
  PROVE  n = m * (n \div m) + (n % m)
BY Z3

\* Both as numbers of their own.
LEMMA QuotientRemainder ==
  ASSUME NEW n \in Nat, NEW m \in Nat \ {0}
  PROVE  \E q \in Nat, i \in 0 .. m - 1 : n = m * q + i /\ i = n % m
<1>1. n \div m \in Nat
  BY Division
<1>2. n % m \in 0 .. m - 1
  OBVIOUS
<1>3. n = m * (n \div m) + (n % m)
  BY DivideAndMultiply
<1> QED
  BY <1>1, <1>2, <1>3

\* The hosts of a region are a finite set of keys.
LEMMA HostsRanked ==
  ASSUME SetupTypeOK, AsWritten, NEW r
  PROVE  /\ Hosts(r) \in SUBSET Nat /\ IsFiniteSet(Hosts(r)) /\ Cardinality(Hosts(r)) \in Nat
         /\ Hosts(r) \subseteq keys
<1>1. Hosts(r) \in SUBSET keys
  BY HostsAreKeys
<1>2. IsFiniteSet(keys) /\ keys \subseteq Nat
  BY DEF AsWritten
<1>3. PICK K : K = keys
  OBVIOUS
<1>4. PICK H : H = Hosts(r)
  OBVIOUS
<1>5. IsFiniteSet(H) /\ Cardinality(H) \in Nat
  BY <1>1, <1>2, <1>3, <1>4, FS_Subset, FS_CardinalityType, Zenon
<1> QED
  BY <1>1, <1>2, <1>4, <1>5

\* The turn of a peer, taken apart.
LEMMA SlotParts ==
  ASSUME SetupTypeOK, AsWritten, mode = "remote", NEW k \in keys, NEW m, m = Cardinality(RegionNames)
  PROVE  /\ m \in Nat \ {0}
         /\ \E a \in Nat, i \in 0 .. m - 1 :
              /\ a = Rank(Hosts(region[k]), k) /\ i = Rank(RegionNames, region[k])
              /\ Slot(k) = m * a + i
              /\ region[k] \in RegionNames /\ k \in Hosts(region[k])
<1>1. PICK r : r = region[k]
  OBVIOUS
<1>2. PICK H : H = Hosts(r)
  OBVIOUS
<1>3. PICK R : R = RegionNames
  OBVIOUS
<1>4. /\ R \in SUBSET Nat /\ IsFiniteSet(R) /\ r \in R /\ Cardinality(R) \in Nat \ {0}
  BY <1>1, <1>3, RegionsOfHosts
<1>5. H \in SUBSET Nat /\ IsFiniteSet(H) /\ Cardinality(H) \in Nat
  BY <1>2, HostsRanked
<1>6. k \in H
  BY <1>1, <1>2 DEF Hosts
<1>7. Rank(H, k) \in 0 .. Cardinality(H) - 1 /\ Rank(R, r) \in 0 .. Cardinality(R) - 1
  BY <1>4, <1>5, <1>6, RankBounded, Zenon
<1>8. Rank(H, k) \in Nat
  BY <1>5, <1>7
<1>9. Slot(k) = Cardinality(R) * Rank(H, k) + Rank(R, r)
  BY <1>1, <1>2, <1>3, Zenon DEF Slot
<1> QED
  BY <1>1, <1>2, <1>3, <1>4, <1>6, <1>7, <1>8, <1>9

\* No two peers have the same turn.
LEMMA SlotInjective ==
  ASSUME SetupTypeOK, AsWritten, mode = "remote", NEW j \in keys, NEW k \in keys, Slot(j) = Slot(k)
  PROVE  j = k
<1>1. PICK m : m = Cardinality(RegionNames)
  OBVIOUS
<1> m \in Nat \ {0}
  BY <1>1, SlotParts
<1>2. PICK a \in Nat, i \in 0 .. m - 1 :
        /\ a = Rank(Hosts(region[j]), j)
        /\ i = Rank(RegionNames, region[j]) /\ Slot(j) = m * a + i
        /\ region[j] \in RegionNames /\ j \in Hosts(region[j])
  BY <1>1, SlotParts
<1>3. PICK b \in Nat, l \in 0 .. m - 1 :
        /\ b = Rank(Hosts(region[k]), k)
        /\ l = Rank(RegionNames, region[k]) /\ Slot(k) = m * b + l
        /\ region[k] \in RegionNames /\ k \in Hosts(region[k])
  BY <1>1, SlotParts
<1>4. a = b /\ i = l
  <2>1. m * a + i = m * b + l
    BY <1>2, <1>3
  <2> QED
    BY <2>1, RoundsCompare
<1>5. region[j] = region[k]
  <2>1. PICK R : R = RegionNames
    OBVIOUS
  <2>2. PICK p : p = region[j]
    OBVIOUS
  <2>3. PICK q : q = region[k]
    OBVIOUS
  <2>4. R \in SUBSET Nat /\ IsFiniteSet(R) /\ p \in R /\ q \in R /\ Rank(R, p) = Rank(R, q)
    BY <1>2, <1>3, <1>4, <2>1, <2>2, <2>3, RegionsOfHosts
  <2>5. p = q
    BY <2>4, RankInjective, Zenon
  <2> QED
    BY <2>2, <2>3, <2>5
<1>6. PICK H : H = Hosts(region[k])
  OBVIOUS
<1>7. H \in SUBSET Nat /\ IsFiniteSet(H) /\ j \in H /\ k \in H /\ Rank(H, j) = Rank(H, k)
  BY <1>2, <1>3, <1>4, <1>5, <1>6, HostsRanked
<1> QED
  BY <1>7, RankInjective, Zenon

\* A peer whose turn is n is in the region whose turn is n.
LEMMA RegionOfSlot ==
  ASSUME SetupTypeOK, AsWritten, mode = "remote", NEW n \in Nat, NEW k \in keys, Slot(k) = n
  PROVE  region[k] = RegionAt(n)
<1>1. PICK m : m = Cardinality(RegionNames)
  OBVIOUS
<1> m \in Nat \ {0}
  BY <1>1, SlotParts
<1>2. PICK a \in Nat, i \in 0 .. m - 1 :
        i = Rank(RegionNames, region[k]) /\ n = m * a + i /\ region[k] \in RegionNames
  BY <1>1, SlotParts
<1>3. PICK q \in Nat, l \in 0 .. m - 1 : n = m * q + l /\ l = n % m
  BY QuotientRemainder
<1>4. i = l
  <2>1. m * a + i = m * q + l
    BY <1>2, <1>3
  <2> QED
    BY <2>1, RoundsCompare
<1>5. PICK R : R = RegionNames
  OBVIOUS
<1>6. PICK p : p = region[k]
  OBVIOUS
<1>7. PICK r : r = RegionAt(n)
  OBVIOUS
<1>8. r \in R /\ Rank(R, r) = n % m
  BY <1>1, <1>5, <1>7, RegionOfTurn
<1>9. R \in SUBSET Nat /\ IsFiniteSet(R) /\ p \in R /\ Rank(R, p) = Rank(R, r)
  BY <1>2, <1>3, <1>4, <1>5, <1>6, <1>8, RegionsOfHosts
<1>10. p = r
  BY <1>8, <1>9, RankInjective, Zenon
<1> QED
  BY <1>6, <1>7, <1>10

\* If the region whose turn is n has a peer left whose turn is not over, the
\* first of these is the one whose turn is n.
LEMMA FirstLeftIsNext ==
  ASSUME SetupTypeOK, AsWritten, mode = "remote", NEW n \in Nat,
         NEW k \in keys, region[k] = RegionAt(n), ~(Slot(k) < n),
         \A x \in keys : region[x] = RegionAt(n) /\ ~(Slot(x) < n) => k <= x
  PROVE  Slot(k) = n
<1>1. PICK m : m = Cardinality(RegionNames)
  OBVIOUS
<1> m \in Nat \ {0}
  BY <1>1, SlotParts
<1>2. PICK a \in Nat, i \in 0 .. m - 1 :
        a = Rank(Hosts(region[k]), k) /\ i = Rank(RegionNames, region[k]) /\ Slot(k) = m * a + i
        /\ k \in Hosts(region[k])
  BY <1>1, SlotParts
<1>3. PICK q \in Nat, l \in 0 .. m - 1 : n = m * q + l /\ l = n % m
  BY QuotientRemainder
<1>4. i = l
  BY <1>1, <1>2, <1>3, RegionOfTurn
<1>5. m * a \in Nat /\ m * q \in Nat
  OBVIOUS
<1>6. ~(a < q)
  <2>1. a < q => m * a + i < m * q + l
    BY RoundsCompare
  <2> QED
    BY <1>2, <1>3, <2>1
<1>7. ~(q < a)
  <2> SUFFICES ASSUME q < a PROVE FALSE
    OBVIOUS
  <2>1. PICK H : H = Hosts(region[k])
    OBVIOUS
  <2>2. H \in SUBSET Nat /\ IsFiniteSet(H) /\ k \in H /\ H \subseteq keys /\ a = Rank(H, k)
    BY <1>2, <2>1, HostsRanked
  <2>3. a \in 0 .. Cardinality(H) - 1 /\ Cardinality(H) \in Nat
    BY <2>2, RankBounded, FS_CardinalityType, Zenon
  <2>4. q \in 0 .. Cardinality(H) - 1
    BY <2>3
  <2>5. PICK j \in H : Rank(H, j) = q
    BY <2>2, <2>4, RankOnto, Zenon
  <2>6. j \in keys /\ region[j] = region[k]
    BY <2>1, <2>5 DEF Hosts
  <2>7. Slot(j) = n
    <3>1. PICK b \in Nat, h \in 0 .. m - 1 :
            b = Rank(Hosts(region[j]), j) /\ h = Rank(RegionNames, region[j]) /\ Slot(j) = m * b + h
      BY <1>1, <2>6, SlotParts
    <3>2. b = q /\ h = l
      BY <1>2, <1>4, <2>1, <2>5, <2>6, <3>1
    <3> QED
      BY <1>3, <3>1, <3>2
  <2>8. ~(Slot(j) < n)
    BY <2>7
  <2>9. k <= j
    BY <2>6, <2>8
  <2>10. j < k
    <3>1. Rank(H, j) < Rank(H, k)
      BY <2>2, <2>5
    <3> QED
      BY <2>2, <3>1, RankInjective, Zenon
  <2>11. j \in Nat /\ k \in Nat
    BY <2>2
  <2> QED
    BY <2>9, <2>10, <2>11
<1>8. a = q
  BY <1>6, <1>7
<1> QED
  BY <1>2, <1>3, <1>4, <1>8

\* Where the files stay as they are, turns and reports do.
LEMMA TurnsKept ==
  ASSUME keys' = keys, region' = region
  PROVE  /\ RegionNames' = RegionNames
         /\ \A r : Hosts(r)' = Hosts(r)
         /\ \A n : UpTo(n)' = UpTo(n)
<1>1. RegionNames' = RegionNames /\ \A r : Hosts(r)' = Hosts(r)
  BY DEF RegionNames, Hosts
<1>2. \A k : Slot(k)' = Slot(k)
  BY <1>1 DEF Slot
<1> QED
  BY <1>1, <1>2 DEF UpTo

\* Turns are counted from zero.
LEMMA SlotCounted ==
  ASSUME SetupTypeOK, AsWritten, mode = "remote", NEW k \in keys
  PROVE  Slot(k) \in Nat
<1>1. PICK c : c = Cardinality(RegionNames)
  OBVIOUS
<1>2. c \in Nat \ {0}
  BY <1>1, SlotParts
<1>3. PICK a \in Nat, i \in 0 .. c - 1 : Slot(k) = c * a + i
  BY <1>1, SlotParts
<1>4. c * a \in Nat
  BY <1>2
<1> QED
  BY <1>2, <1>3, <1>4

\* The sets of peers up to a turn are nested.
LEMMA UpToNested ==
  ASSUME SetupTypeOK, AsWritten, mode = "remote", NEW m \in Nat, NEW n \in Nat, m <= n
  PROVE  /\ UpTo(m) \subseteq UpTo(n)
         /\ IsFiniteSet(UpTo(n)) /\ IsFiniteSet(UpTo(m))
         /\ Cardinality(UpTo(m)) \in Nat /\ Cardinality(UpTo(n)) \in Nat
         /\ Cardinality(UpTo(m)) <= Cardinality(UpTo(n))
         /\ Cardinality(UpTo(m)) = Cardinality(UpTo(n)) => UpTo(m) = UpTo(n)
<1>1. ASSUME NEW k \in keys PROVE Slot(k) \in Nat
  BY SlotCounted
<1>2. UpTo(m) \subseteq UpTo(n) /\ UpTo(n) \subseteq keys
  BY <1>1 DEF UpTo
<1>3. PICK M : M = UpTo(m)
  OBVIOUS
<1>4. PICK N : N = UpTo(n)
  OBVIOUS
<1>5. IsFiniteSet(keys)
  BY DEF AsWritten
<1>6. PICK K : K = keys
  OBVIOUS
<1>7. IsFiniteSet(N) /\ M \in SUBSET N
  <2>1. N \in SUBSET K /\ IsFiniteSet(K)
    BY <1>2, <1>4, <1>5, <1>6
  <2>2. IsFiniteSet(N)
    BY <2>1, FS_Subset, Zenon
  <2> QED
    BY <1>2, <1>3, <1>4, <2>2
<1>8. /\ IsFiniteSet(M) /\ Cardinality(M) <= Cardinality(N)
      /\ Cardinality(N) = Cardinality(M) => N = M
  BY <1>7, FS_Subset, Zenon
<1>9. Cardinality(M) \in Nat /\ Cardinality(N) \in Nat
  BY <1>7, <1>8, FS_CardinalityType, Zenon
<1> QED
  BY <1>2, <1>3, <1>4, <1>7, <1>8, <1>9

\* One more turn adds the peer whose turn it is, if there is one.
LEMMA UpToNext ==
  ASSUME SetupTypeOK, AsWritten, mode = "remote", NEW n \in Nat
  PROVE  /\ \A k \in keys : Slot(k) = n => UpTo(n + 1) = UpTo(n) \cup {k} /\ k \notin UpTo(n)
         /\ (\A k \in keys : Slot(k) # n) => UpTo(n + 1) = UpTo(n)
<1>1. ASSUME NEW k \in keys PROVE Slot(k) \in Nat
  BY SlotCounted
<1>2. \A x \in keys : Slot(x) < n + 1 <=> Slot(x) < n \/ Slot(x) = n
  BY <1>1
<1>3. ASSUME NEW k \in keys, Slot(k) = n
      PROVE  UpTo(n + 1) = UpTo(n) \cup {k} /\ k \notin UpTo(n)
  <2>1. \A x \in keys : Slot(x) = n => x = k
    BY <1>3, SlotInjective
  <2>2. \A x \in keys : Slot(x) < n + 1 <=> Slot(x) < n \/ x = k
    BY <1>2, <1>3, <2>1
  <2>3. ~(Slot(k) < n)
    BY <1>3
  <2> QED
    BY <2>2, <2>3, Zenon DEF UpTo
<1>4. (\A k \in keys : Slot(k) # n) => UpTo(n + 1) = UpTo(n)
  BY <1>2, Zenon DEF UpTo
<1> QED
  BY <1>3, <1>4

\* A step that leaves the files, the reports and the selection alone.
LEMMA SpreadKept ==
  ASSUME SpreadInv, UNCHANGED <<files, failed, most>>,
         phase' = "select" => phase = "select" /\ UNCHANGED <<turn, left, selected, count>>
  PROVE  SpreadInv'
<1>1. /\ configs' = configs /\ keys' = keys /\ region' = region /\ mode' = mode
  BY NamesKept
<1>2. /\ RegionNames' = RegionNames /\ \A r : Hosts(r)' = Hosts(r)
      /\ \A n : UpTo(n)' = UpTo(n)
  BY <1>1, TurnsKept
<1>3. Reported' = Reported /\ most' = most
  BY <1>1 DEF Reported
<1>4. turn' = turn => UpTo(turn)' = UpTo(turn)
  BY <1>1 DEF UpTo, Slot, RegionNames, Hosts
<1> QED
  BY <1>1, <1>2, <1>3, <1>4 DEF SpreadInv

\* No peer's turn is before the first.
LEMMA NothingUpToZero == SetupTypeOK /\ AsWritten /\ mode = "remote" => UpTo(0) = {}
<1> SUFFICES ASSUME SetupTypeOK, AsWritten, mode = "remote", NEW k \in keys, Slot(k) < 0
             PROVE  FALSE
  BY DEF UpTo
<1>1. Slot(k) \in Nat
  BY SlotCounted
<1> QED
  BY <1>1

\* Nor in the next state.
LEMMA NothingUpToZeroNext == (SetupTypeOK /\ AsWritten /\ mode = "remote" => UpTo(0) = {})'
BY NothingUpToZero, PTL

\* A new network's peers do not report.
LEMMA SpreadRemote ==
  ASSUME SetupTypeOK, AsWritten, NEW S \in SUBSET Peers, S # {}, NEW now \in Times,
         NEW n \in 1 .. Cardinality(S), NEW list \in [0 .. n - 1 -> Regions],
         GenerateRemote(S, n, list, now)
  PROVE  SpreadInv'
<1>1. SetupTypeOK' /\ AsWritten'
  BY AsWrittenRemote
<1>2. /\ phase = "begin" /\ phase' = "written" /\ mode' = "remote"
      /\ configs' = [k \in S |-> RemoteConfig(S, now, k)]
      /\ failed' = failed /\ most' = most
  BY DEF GenerateRemote
<1>3. UpTo(0)' = {}
  BY <1>1, <1>2, NothingUpToZeroNext
<1>4. keys = {}
  BY <1>2 DEF AsWritten
<1>5. failed = {} /\ most = 0
  <2>1. most \in 0 .. Cardinality({}) /\ Cardinality({}) = 0
    BY <1>4, FS_EmptySet DEF SetupTypeOK
  <2> QED
    BY <1>4, <2>1 DEF SetupTypeOK
<1>6. \A k \in S : ~configs'[k].indexer
  <2>1. S \in SUBSET Nat /\ IsFiniteSet(S) /\ now \in Nat
    BY SetupConstants
  <2>2. ASSUME NEW k \in S PROVE ~RemoteConfig(S, now, k).indexer
    BY <2>1, RemoteFile
  <2> QED
    BY <1>2, <2>2
<1>7. keys' = S
  BY <1>2 DEF keys
<1>8. Reported' = {}
  BY <1>2, <1>5, <1>6, <1>7 DEF Reported
<1>9. Reported' = UpTo(0)' /\ Cardinality(Reported') = most'
  BY <1>2, <1>3, <1>5, <1>8, FS_EmptySet
<1> QED
  BY <1>2, <1>9 DEF SpreadInv

\* A selection begins with nobody,
LEMMA SpreadIndexer ==
  ASSUME SetupTypeOK, AsWritten, SpreadInv, NEW c \in 1 .. Cardinality(keys), StartIndexer(c)
  PROVE  SpreadInv'
<1>1. /\ mode = "remote" /\ phase' = "select" /\ count' = c /\ turn' = 0 /\ selected' = {}
      /\ left' = [r \in RegionNames |-> Hosts(r)]
      /\ UNCHANGED files /\ failed' = failed /\ most' = most
  BY DEF StartIndexer
<1>2. configs' = configs /\ keys' = keys /\ region' = region /\ mode' = mode
  BY <1>1, NamesKept
<1>3. /\ RegionNames' = RegionNames /\ \A r : Hosts(r)' = Hosts(r)
      /\ \A n : UpTo(n)' = UpTo(n)
  BY <1>2, TurnsKept
<1>4. Reported' = Reported
  BY <1>1, <1>2 DEF Reported
<1>5. UpTo(0) = {}
  BY <1>1, NothingUpToZero
<1>6. UpTo(turn)' = {}
  <2>1. UpTo(turn)' = UpTo(0)'
    BY <1>1 DEF UpTo
  <2> QED
    BY <1>3, <1>5, <2>1
<1>7. Cardinality(selected') <= count'
  <2>1. c \in Nat
    BY KeysCounted
  <2> QED
    BY <1>1, <2>1, FS_EmptySet
<1>8. \A r \in RegionNames' : left'[r] = Hosts(r)' \ selected'
  BY <1>1, <1>3
<1>9. \E n \in Nat : Reported' = UpTo(n)' /\ Cardinality(Reported') = most'
  <2>1. PICK n \in Nat : Reported = UpTo(n) /\ Cardinality(Reported) = most
    BY <1>1 DEF SpreadInv
  <2> QED
    BY <1>1, <1>3, <1>4, <2>1
<1> QED
  BY <1>1, <1>6, <1>7, <1>8, <1>9 DEF SpreadInv

\* takes the peer whose turn it is,
LEMMA SpreadTake ==
  ASSUME SetupTypeOK, AsWritten, SpreadInv, TakePeer
  PROVE  SpreadInv'
<1>1. PICK r \in RegionNames : \E k \in left[r] :
        /\ r = RegionAt(turn) /\ k \in keys
        /\ \A x \in left[r] : k <= x
        /\ phase = "select" /\ mode = "remote" /\ Cardinality(selected) < count
        /\ left' = [left EXCEPT ![r] = @ \ {k}]
        /\ selected' = selected \cup {k}
        /\ turn' = turn + 1
  BY TakenPeer
<1>2. PICK k \in left[r] :
        /\ r = RegionAt(turn) /\ k \in keys
        /\ \A x \in left[r] : k <= x
        /\ phase = "select" /\ mode = "remote" /\ Cardinality(selected) < count
        /\ left' = [left EXCEPT ![r] = @ \ {k}]
        /\ selected' = selected \cup {k}
        /\ turn' = turn + 1
  BY <1>1
<1>3. UNCHANGED files /\ phase' = phase /\ count' = count /\ failed' = failed /\ most' = most
  BY Zenon DEF TakePeer
<1>4. configs' = configs /\ keys' = keys /\ region' = region /\ mode' = mode
  BY <1>3, NamesKept
<1>5. /\ RegionNames' = RegionNames /\ \A q : Hosts(q)' = Hosts(q)
      /\ \A n : UpTo(n)' = UpTo(n)
  BY <1>4, TurnsKept
<1>6. /\ selected = UpTo(turn) /\ \A q \in RegionNames : left[q] = Hosts(q) \ selected
      /\ turn \in Nat /\ count \in Nat /\ left \in [RegionNames -> SUBSET keys]
  BY <1>2, KeysCounted DEF SpreadInv, SetupTypeOK
<1>7. Slot(k) = turn
  <2>1. region[k] = r /\ k \notin selected
    BY <1>2, <1>6 DEF Hosts
  <2>2. ~(Slot(k) < turn)
    BY <1>2, <1>6, <2>1 DEF UpTo
  <2>3. ASSUME NEW x \in keys, region[x] = r, ~(Slot(x) < turn)
        PROVE  k <= x
    <3>1. x \in left[r]
      BY <1>6, <2>3 DEF UpTo, Hosts
    <3> QED
      BY <1>2, <3>1
  <2> QED
    BY <1>2, <1>6, <2>1, <2>2, <2>3, FirstLeftIsNext
<1>8. UpTo(turn + 1) = selected \cup {k} /\ k \notin selected
  BY <1>2, <1>6, <1>7, UpToNext
<1>9. selected' = UpTo(turn)'
  <2>1. UpTo(turn)' = UpTo(turn + 1)
    BY <1>2, <1>4 DEF UpTo, Slot, RegionNames, Hosts
  <2> QED
    BY <1>2, <1>8, <2>1
<1>10. Cardinality(selected') <= count'
  <2>1. PICK T : T = selected
    OBVIOUS
  <2>2. IsFiniteSet(T) /\ k \notin T
    BY <1>2, <1>6, <1>8, <2>1, UpToNested
  <2>3. Cardinality(T) \in Nat /\ Cardinality(T \cup {k}) = Cardinality(T) + 1
    BY <2>2, FS_AddElement, FS_CardinalityType, Zenon
  <2>4. Cardinality(T) < count
    BY <1>2, <2>1
  <2> QED
    BY <1>2, <1>3, <1>6, <2>1, <2>3, <2>4
<1>11. \A q \in RegionNames' : left'[q] = Hosts(q)' \ selected'
  <2> SUFFICES ASSUME NEW q \in RegionNames PROVE left'[q] = Hosts(q) \ (selected \cup {k})
    BY <1>2, <1>5
  <2>1. CASE q = r
    BY <1>2, <1>6, <2>1
  <2>2. CASE q # r
    <3>1. k \notin Hosts(q)
      BY <1>2, <1>6, <2>2 DEF Hosts
    <3> QED
      BY <1>2, <1>6, <2>2, <3>1
  <2> QED
    BY <2>1, <2>2
<1>12. \E n \in Nat : Reported' = UpTo(n)' /\ Cardinality(Reported') = most'
  <2>1. PICK n \in Nat : Reported = UpTo(n) /\ Cardinality(Reported) = most
    BY <1>2 DEF SpreadInv
  <2>2. Reported' = Reported
    BY <1>3, <1>4 DEF Reported
  <2> QED
    BY <1>3, <1>5, <2>1, <2>2
<1> QED
  BY <1>9, <1>10, <1>11, <1>12 DEF SpreadInv

\* passes the turn on where the region has no peer left,
LEMMA SpreadSkip ==
  ASSUME SetupTypeOK, AsWritten, SpreadInv, SkipRegion
  PROVE  SpreadInv'
<1>1. /\ phase = "select" /\ left[RegionAt(turn)] = {}
      /\ turn' = turn + 1 /\ left' = left /\ selected' = selected
      /\ UNCHANGED files /\ phase' = phase /\ count' = count /\ failed' = failed /\ most' = most
  BY Zenon DEF SkipRegion
<1>2. configs' = configs /\ keys' = keys /\ region' = region /\ mode' = mode
  BY <1>1, NamesKept
<1>3. /\ RegionNames' = RegionNames /\ \A q : Hosts(q)' = Hosts(q)
      /\ \A n : UpTo(n)' = UpTo(n)
  BY <1>2, TurnsKept
<1>4. /\ mode = "remote" /\ turn \in Nat
      /\ selected = UpTo(turn) /\ \A q \in RegionNames : left[q] = Hosts(q) \ selected
  BY <1>1 DEF SpreadInv, SetupTypeOK, AsWritten
<1>5. \A k \in keys : Slot(k) # turn
  <2> SUFFICES ASSUME NEW k \in keys, Slot(k) = turn PROVE FALSE
    OBVIOUS
  <2>1. region[k] = RegionAt(turn) /\ RegionAt(turn) \in RegionNames
    BY <1>4, RegionOfSlot, RegionOfTurn
  <2>2. ~(Slot(k) < turn)
    BY <1>4
  <2>3. k \in Hosts(RegionAt(turn)) /\ k \notin selected
    BY <1>4, <2>1, <2>2 DEF Hosts, UpTo
  <2> QED
    BY <1>1, <1>4, <2>1, <2>3
<1>6. UpTo(turn + 1) = selected
  BY <1>4, <1>5, UpToNext
<1>7. selected' = UpTo(turn)'
  <2>1. UpTo(turn)' = UpTo(turn + 1)
    BY <1>1, <1>2 DEF UpTo, Slot, RegionNames, Hosts
  <2> QED
    BY <1>1, <1>6, <2>1
<1>8. Reported' = Reported
  BY <1>1, <1>2 DEF Reported
<1> QED
  BY <1>1, <1>2, <1>3, <1>7, <1>8 DEF SpreadInv

\* and ends with as many as asked for: together with those of earlier runs,
\* which are more of the same order or fewer, the largest count.
LEMMA SpreadUpdate ==
  ASSUME SetupTypeOK, AsWritten, SpreadInv, WriteSelected
  PROVE  SpreadInv'
<1>1. PICK done \in SUBSET selected :
        /\ configs' = [k \in keys |-> IF k \in done THEN [configs[k] EXCEPT !.indexer = TRUE]
                                      ELSE configs[k]]
        /\ failed' = (failed \cup selected) \ done
  BY Zenon DEF WriteSelected
<1>2. /\ phase = "select" /\ ~Choosing /\ phase' = "written"
      /\ most' = IF count > most THEN count ELSE most
      /\ mode' = mode /\ region' = region
  BY DEF WriteSelected
<1>3. keys' = keys
  BY <1>1 DEF keys
<1>4. \A n : UpTo(n)' = UpTo(n)
  BY <1>2, <1>3, TurnsKept
<1>5. /\ mode = "remote" /\ turn \in Nat /\ selected = UpTo(turn) /\ Cardinality(selected) <= count
      /\ \A r \in RegionNames : left[r] = Hosts(r) \ selected
      /\ count \in 1 .. Cardinality(keys) /\ Cardinality(keys) \in Nat
      /\ selected \subseteq keys /\ failed \subseteq keys /\ configs \in [keys -> Config]
      /\ most \in Nat
  BY <1>2, KeysCounted DEF SpreadInv, SetupTypeOK, AsWritten
<1>6. Reported' = Reported \cup selected
  <2>1. ASSUME NEW k \in keys
        PROVE  configs'[k].indexer <=> k \in done \/ configs[k].indexer
    <3>1. PICK c : c = configs[k]
      OBVIOUS
    <3>2. c \in Config
      BY <1>5, <3>1
    <3>3. PICK d : d = [c EXCEPT !.indexer = TRUE]
      OBVIOUS
    <3>4. d.indexer
      BY <3>2, <3>3 DEF Config
    <3>5. CASE k \in done
      BY <1>1, <3>1, <3>3, <3>4, <3>5
    <3>6. CASE k \notin done
      BY <1>1, <3>6
    <3> QED
      BY <3>5, <3>6
  <2>2. Reported' = {k \in keys : configs'[k].indexer} \cup ((failed \cup selected) \ done)
    BY <1>1, <1>3 DEF Reported
  <2>3. ASSUME NEW k \in keys
        PROVE  k \in Reported' <=> k \in Reported \/ k \in selected
    BY <1>1, <2>1, <2>2 DEF Reported
  <2>4. Reported' \subseteq keys /\ Reported \subseteq keys
    BY <1>5, <2>2 DEF Reported
  <2> QED
    BY <1>5, <2>3, <2>4
<1>7. Cardinality(selected) = count
  <2>1. CASE Cardinality(selected) < count
    <3>1. \A r \in RegionNames : left[r] = {}
      BY <1>2, <2>1 DEF Choosing
    <3>2. ASSUME NEW k \in keys PROVE k \in selected
      <4>1. region[k] \in RegionNames /\ k \in Hosts(region[k])
        BY DEF RegionNames, Hosts
      <4> QED
        BY <1>5, <3>1, <4>1
    <3>3. selected = keys
      BY <1>5, <3>2
    <3> QED
      BY <1>5, <2>1, <3>3
  <2>2. CASE ~(Cardinality(selected) < count)
    <3>1. Cardinality(selected) \in Nat
      BY <1>5, UpToNested
    <3> QED
      BY <1>5, <2>2, <3>1
  <2> QED
    BY <2>1, <2>2
<1>8. PICK n \in Nat : Reported = UpTo(n) /\ Cardinality(Reported) = most
  BY <1>5 DEF SpreadInv
<1>9. \E j \in Nat : Reported' = UpTo(j) /\ Cardinality(Reported') = most'
  <2>1. Reported' = UpTo(n) \cup UpTo(turn)
    BY <1>5, <1>6, <1>8
  <2>2. PICK x : x = Cardinality(UpTo(n))
    OBVIOUS
  <2>3. PICK y : y = Cardinality(UpTo(turn))
    OBVIOUS
  <2>4. x = most /\ y = count
    BY <1>5, <1>7, <1>8, <2>2, <2>3
  <2>5. n <= turn \/ turn <= n
    BY <1>5
  <2>6. CASE n <= turn
    <3>1. /\ UpTo(n) \subseteq UpTo(turn) /\ x \in Nat /\ y \in Nat /\ x <= y
      BY <1>5, <2>2, <2>3, <2>6, UpToNested
    <3>2. Reported' = UpTo(turn)
      BY <2>1, <3>1
    <3>3. most' = y
      BY <1>2, <2>4, <3>1
    <3> QED
      BY <1>5, <2>3, <3>2, <3>3
  <2>7. CASE turn <= n
    <3>1. /\ UpTo(turn) \subseteq UpTo(n) /\ x \in Nat /\ y \in Nat /\ y <= x
      BY <1>5, <2>2, <2>3, <2>7, UpToNested
    <3>2. Reported' = UpTo(n)
      BY <2>1, <3>1
    <3>3. most' = x
      BY <1>2, <2>4, <3>1
    <3> QED
      BY <2>2, <3>2, <3>3
  <2> QED
    BY <2>5, <2>6, <2>7
<1> QED
  BY <1>2, <1>4, <1>9 DEF SpreadInv

\* The invariant holds in every step.
LEMMA SpreadStep ==
  ASSUME SetupTypeOK, AsWritten, SpreadInv, [SetupNext]_setupVars
  PROVE  SpreadInv'
<1>1. ASSUME NEW S \in (SUBSET Peers) \ {{}}, NEW now \in Times, NEW start \in StartPorts,
             GenerateLocal(S, start, now)
      PROVE  SpreadInv'
  <2>1. mode' = "local"
    BY <1>1 DEF GenerateLocal
  <2> QED
    BY <2>1 DEF SpreadInv
<1>2. ASSUME NEW S \in (SUBSET Peers) \ {{}}, NEW now \in Times, NEW n \in 1 .. Cardinality(S),
             NEW list \in [0 .. n - 1 -> Regions], GenerateRemote(S, n, list, now)
      PROVE  SpreadInv'
  <2>1. S \in SUBSET Peers /\ S # {}
    OBVIOUS
  <2> QED
    BY <1>2, <2>1, SpreadRemote, Zenon
<1>3. ASSUME NEW c \in 1 .. Cardinality(keys), StartIndexer(c)
      PROVE  SpreadInv'
  BY <1>3, SpreadIndexer
<1>4. ASSUME NEW n \in InstanceCounts, StartValidators(n)
      PROVE  SpreadInv'
  <2>1. UNCHANGED <<files, failed, most>> /\ phase' = "started"
    BY <1>4 DEF StartValidators
  <2> QED
    BY <2>1, SpreadKept
<1>5. CASE SetupNext
  BY <1>1, <1>2, <1>3, <1>4, <1>5, SpreadTake, SpreadSkip, SpreadUpdate, Zenon DEF SetupNext
<1>6. CASE UNCHANGED setupVars
  <2>1. UNCHANGED <<files, failed, most, phase, turn, left, selected, count>>
    BY <1>6 DEF setupVars, loop
  <2> QED
    BY <2>1, SpreadKept
<1> QED
  BY <1>5, <1>6

\* In a region that has peers whose turn is not before n, the peers whose turn
\* is are as many as the lowest of the others has before it.
LEMMA TakenOfRegion ==
  ASSUME SetupTypeOK, AsWritten, mode = "remote", NEW n \in Nat, NEW r \in RegionNames,
         NEW m, m = Cardinality(RegionNames), NEW x, x = Cardinality(UpTo(n) \cap Hosts(r)),
         ~(Hosts(r) \subseteq UpTo(n))
  PROVE  x \in Nat /\ ~(m * x + Rank(RegionNames, r) < n)
<1>1. PICK H : H = Hosts(r)
  OBVIOUS
<1>2. H \in SUBSET Nat /\ IsFiniteSet(H) /\ H \subseteq keys
  BY <1>1, HostsRanked
<1>3. PICK L : L = {k \in H : ~(Slot(k) < n)}
  OBVIOUS
<1>4. L \in SUBSET Nat /\ L \in SUBSET H /\ L # {}
  BY <1>1, <1>2, <1>3 DEF UpTo
<1>5. IsFiniteSet(L)
  BY <1>2, <1>4, FS_Subset, Zenon
<1>6. PICK k : k = Lowest(L)
  OBVIOUS
<1>7. k \in L /\ \A j \in L : k <= j
  BY <1>4, <1>5, <1>6, LowestFirst, Zenon
<1>8. ASSUME NEW j \in H
      PROVE  j < k <=> Slot(j) < n
  <2>1. j \in Nat /\ k \in Nat /\ k \in H /\ ~(Slot(k) < n) /\ j \in keys /\ k \in keys
    BY <1>2, <1>3, <1>4, <1>7
  <2>2. j < k => Slot(j) < n
    BY <1>3, <1>7, <2>1
  <2>3. k < j => ~(Slot(j) < n)
    <3> SUFFICES ASSUME k < j PROVE ~(Slot(j) < n)
      OBVIOUS
    <3>1. region[j] = r /\ region[k] = r
      BY <1>1, <2>1 DEF Hosts
    <3>2. m \in Nat \ {0}
      BY <2>1, SlotParts
    <3>3. PICK a \in Nat, i \in 0 .. m - 1 :
            a = Rank(H, k) /\ i = Rank(RegionNames, r) /\ Slot(k) = m * a + i
      BY <1>1, <2>1, <3>1, SlotParts
    <3>4. PICK b \in Nat, l \in 0 .. m - 1 :
            b = Rank(H, j) /\ l = Rank(RegionNames, r) /\ Slot(j) = m * b + l
      BY <1>1, <2>1, <3>1, SlotParts
    <3>5. a < b
      <4>1. Rank(H, k) < Rank(H, j)
        BY <1>2, <2>1, RankInjective, Zenon
      <4> QED
        BY <3>3, <3>4, <4>1
    <3>6. m * a + i < m * b + l
      BY <3>2, <3>5, RoundsCompare
    <3>7. m * a \in Nat /\ m * b \in Nat
      BY <3>2
    <3> QED
      BY <2>1, <3>2, <3>3, <3>4, <3>6, <3>7
  <2> QED
    BY <2>1, <2>2, <2>3
<1>9. UpTo(n) \cap H = {j \in H : j < k}
  BY <1>2, <1>8 DEF UpTo
<1>10. x = Rank(H, k)
  BY <1>1, <1>9 DEF Rank
<1>11. k \in keys /\ region[k] = r /\ ~(Slot(k) < n)
  BY <1>1, <1>3, <1>4, <1>7 DEF Hosts
<1>12. m \in Nat \ {0}
  BY <1>11, SlotParts
<1>13. PICK a \in Nat, i \in 0 .. m - 1 :
         a = Rank(H, k) /\ i = Rank(RegionNames, r) /\ Slot(k) = m * a + i
  BY <1>1, <1>11, SlotParts
<1> QED
  BY <1>10, <1>11, <1>13

\* No more peers of a region have had their turn than one more than a number
\* of rounds that is not over.
LEMMA TakenAtMost ==
  ASSUME SetupTypeOK, AsWritten, mode = "remote", NEW n \in Nat, NEW q \in RegionNames,
         NEW m, m = Cardinality(RegionNames), NEW x \in Nat, NEW i \in 0 .. m - 1, ~(m * x + i < n)
  PROVE  Cardinality(UpTo(n) \cap Hosts(q)) \in Nat /\ Cardinality(UpTo(n) \cap Hosts(q)) <= x + 1
<1>1. PICK H : H = Hosts(q)
  OBVIOUS
<1>2. H \in SUBSET Nat /\ IsFiniteSet(H) /\ H \subseteq keys
  BY <1>1, HostsRanked
<1>3. PICK T : T = UpTo(n) \cap H
  OBVIOUS
<1>4. T \in SUBSET H /\ T \in SUBSET Nat
  BY <1>2, <1>3
<1>5. IsFiniteSet(T) /\ Cardinality(T) \in Nat
  BY <1>2, <1>4, FS_Subset, FS_CardinalityType, Zenon
<1>6. CASE T = {}
  <2>1. Cardinality(T) = 0
    BY <1>5, <1>6, FS_EmptySet, Zenon
  <2> QED
    BY <1>1, <1>3, <2>1
<1>7. CASE T # {}
  <2>1. PICK k \in T : \A j \in T : j <= k
    BY <1>4, <1>5, <1>7, HighestLast, Zenon
  <2>2. k \in keys /\ region[k] = q /\ Slot(k) < n /\ k \in H
    BY <1>1, <1>2, <1>3, <2>1 DEF UpTo, Hosts
  <2>3. m \in Nat \ {0}
    BY <2>2, SlotParts
  <2>4. PICK a \in Nat, l \in 0 .. m - 1 : a = Rank(H, k) /\ Slot(k) = m * a + l
    BY <1>1, <2>2, SlotParts
  <2>5. a <= x
    <3>1. x < a => m * x + i < m * a + l
      BY <2>3, RoundsCompare
    <3>2. m * a \in Nat /\ m * x \in Nat
      BY <2>3
    <3>3. PICK y : y = m * x
      OBVIOUS
    <3>4. PICK z : z = m * a
      OBVIOUS
    <3>5. y \in Nat /\ z \in Nat /\ ~(y + i < n) /\ z + l < n /\ (x < a => y + i < z + l)
      BY <2>2, <2>4, <3>1, <3>2, <3>3, <3>4
    <3> QED
      BY <3>5
  <2>6. PICK B : B = {j \in H : j < k}
    OBVIOUS
  <2>7. B \in SUBSET H /\ k \notin B
    BY <1>2, <2>2, <2>6
  <2>8. T \in SUBSET (B \cup {k})
    <3>1. \A j \in T : j < k \/ j = k
      BY <1>4, <2>1
    <3> QED
      BY <1>4, <2>6, <3>1
  <2>9. IsFiniteSet(B)
    BY <1>2, <2>7, FS_Subset, Zenon
  <2>10. PICK C : C = B \cup {k}
    OBVIOUS
  <2>11. IsFiniteSet(C) /\ Cardinality(C) = Cardinality(B) + 1
    BY <2>7, <2>9, <2>10, FS_AddElement, Zenon
  <2>12. Cardinality(T) <= Cardinality(C)
    BY <2>8, <2>10, <2>11, FS_Subset, Zenon
  <2>13. Cardinality(B) = a
    BY <2>4, <2>6 DEF Rank
  <2>14. Cardinality(T) <= x + 1
    BY <1>5, <2>5, <2>11, <2>12, <2>13
  <2> QED
    BY <1>1, <1>3, <1>5, <2>14
<1> QED
  BY <1>6, <1>7

\* Of every network, however its peers and regions are, the peers that report
\* to the indexer are as many as the largest count asked for, and no region
\* has two more than one that has peers left (setup.rs, indexer).
THEOREM IndexersSpread == SetupSpec => []SpreadOverRegions
<1>1. SetupTypeOK /\ AsWritten /\ SpreadInv => SpreadOverRegions
  <2> SUFFICES ASSUME SetupTypeOK, AsWritten, SpreadInv, mode = "remote"
               PROVE  /\ Cardinality(Reported) = most
                      /\ \A q, r \in RegionNames :
                           Cardinality(Reported \cap Hosts(q)) > Cardinality(Reported \cap Hosts(r)) + 1
                             => Hosts(r) \subseteq Reported
    BY DEF SpreadOverRegions, Reported
  <2>1. PICK n \in Nat : Reported = UpTo(n) /\ Cardinality(Reported) = most
    BY DEF SpreadInv
  <2>2. ASSUME NEW q \in RegionNames, NEW r \in RegionNames, ~(Hosts(r) \subseteq UpTo(n))
        PROVE  ~(Cardinality(UpTo(n) \cap Hosts(q)) > Cardinality(UpTo(n) \cap Hosts(r)) + 1)
    <3>1. PICK m : m = Cardinality(RegionNames)
      OBVIOUS
    <3>2. PICK x : x = Cardinality(UpTo(n) \cap Hosts(r))
      OBVIOUS
    <3>3. PICK i : i = Rank(RegionNames, r)
      OBVIOUS
    <3>4. i \in 0 .. m - 1
      <4>1. PICK R : R = RegionNames
        OBVIOUS
      <4>2. R \in SUBSET Nat /\ IsFiniteSet(R) /\ r \in R
        BY <4>1, RegionsOfHosts
      <4>3. Rank(R, r) \in 0 .. Cardinality(R) - 1
        BY <4>2, RankBounded, Zenon
      <4> QED
        BY <3>1, <3>3, <4>1, <4>3
    <3>5. x \in Nat /\ ~(m * x + i < n)
      BY <2>2, <3>1, <3>2, <3>3, TakenOfRegion
    <3>6. PICK y : y = Cardinality(UpTo(n) \cap Hosts(q))
      OBVIOUS
    <3>7. y \in Nat /\ y <= x + 1
      BY <3>1, <3>4, <3>5, <3>6, TakenAtMost
    <3> QED
      BY <3>2, <3>5, <3>6, <3>7
  <2> QED
    BY <2>1, <2>2
<1>2. SetupInit => SpreadInv
  BY DEF SetupInit, SpreadInv
<1>3. SetupTypeOK /\ AsWritten /\ SpreadInv /\ [SetupNext]_setupVars => SpreadInv'
  BY SpreadStep
<1> QED
  BY <1>1, <1>2, <1>3, FilesAsWritten, PTL DEF SetupSpec

-----------------------------------------------------------------------------
\* Every result recorded is the client library's verdict on that answer.
ResultsAreVerdicts == \A o \in outcomes : o[3] = Result(o[1], o[2])

\* The verdict shown for each answer is the one the checks give it.
LEMMA Verdicts == Spec => []ResultsAreVerdicts
<1>1. Init => ResultsAreVerdicts
  BY DEF Init, ResultsAreVerdicts
<1>2. ASSUME ResultsAreVerdicts, [Next]_vars
      PROVE  ResultsAreVerdicts'
  <2> USE <1>2 DEF ResultsAreVerdicts
  <2>1. CASE UNCHANGED outcomes
    BY <2>1
  <2>2. ASSUME NEW a, Answered(a)
        PROVE  ResultsAreVerdicts'
    BY <2>2 DEF Answered
  <2>3. ASSUME NEW a, Pushed(a)
        PROVE  ResultsAreVerdicts'
    BY <2>3 DEF Pushed
  <2>4. CASE Next
    <3>1. CASE \E c \in Certificate : Report(c) \/ UploadSeed(c) \/ UploadBlock(c)
      BY <2>1, <3>1, Zenon DEF Report, UploadSeed, UploadBlock
    <3>2. CASE \E q \in Query : GetOne(q)
      BY <2>1, <3>2, Zenon DEF GetOne
    <3>3. CASE \E kind \in Kinds, start, end \in Views : GetRange(kind, start, end)
      BY <2>1, <3>3, Zenon DEF GetRange
    <3>4. CASE \E a \in held \cup Foreign : Answered(a) \/ Pushed(a)
      BY <2>2, <2>3, <3>4, Zenon
    <3>5. CASE Failed \/ Listen \/ End
      BY <2>1, <3>5, Zenon DEF Failed, Listen, End
    <3> QED
      BY <2>4, <3>1, <3>2, <3>3, <3>4, <3>5, Zenon DEF Next
  <2>5. CASE UNCHANGED vars
    BY <2>1, <2>5 DEF vars
  <2> QED
    BY <2>4, <2>5
<1> QED
  BY <1>1, <1>2, PTL DEF Spec

\* What a verdict of "ok" says.
LEMMA Accepted ==
  ASSUME NEW q, NEW a, Result(q, a) = "ok"
  PROVE  Decodes(q, a) /\ Verifies(q, a) /\ Matches(q, a)
BY DEF Result

\* Whatever the indexer answers, the inspector shows only what was asked for
\* and what verifies (client/src/consensus.rs, the get functions and listen).
THEOREM ShownIsAsked == Spec => []ShownAnswersQuery
<1>1. ResultsAreVerdicts => ShownAnswersQuery
  <2> SUFFICES ASSUME ResultsAreVerdicts, NEW o \in outcomes, o[3] = "ok"
               PROVE  /\ o[2].kind = Expected(o[1]) /\ o[2].payload = o[2].block
                      /\ o[1].by # "digest" => o[2].ns = ClientNamespace
                      /\ o[1].by = "index" /\ o[1].kind # "block" => o[2].view = o[1].key
                      /\ o[1].by = "index" /\ o[1].kind = "block" => o[2].block.height = o[1].key
                      /\ o[1].by = "digest" => o[2].block = o[1].key
    BY DEF ShownAnswersQuery
  <2>1. Result(o[1], o[2]) = "ok"
    BY DEF ResultsAreVerdicts
  <2>2. Decodes(o[1], o[2]) /\ Verifies(o[1], o[2]) /\ Matches(o[1], o[2])
    BY <2>1, Accepted
  <2> QED
    BY <2>2 DEF Decodes, Verifies, Matches
<1> QED
  BY <1>1, Verdicts, PTL

\* No certificate is ever shown.
OnlyBlocksByDigest == \A o \in outcomes : o[3] = "ok" => o[1].by = "digest"

\* If no instance signs under the very namespace the client verifies under, as
\* when each instance appends its number to it, and nobody else can sign for
\* the instances, the inspector shows no seed, notarization or finalization at
\* all: every query but that of a block by its digest is refused.
THEOREM NoCertificateShown ==
  ASSUME ClientNamespace \notin {Namespace[i] : i \in Instances},
         \A a \in Foreign : a.ns # ClientNamespace,
         ClientNamespace # "none"
  PROVE  Spec => []OnlyBlocksByDigest
<1> DEFINE Inv == /\ \A a \in held : a.ns # ClientNamespace
                  /\ \A o \in outcomes : o[2].ns # ClientNamespace
<1>1. Init => Inv
  BY DEF Init
<1>2. ASSUME Inv, [Next]_vars
      PROVE  Inv'
  <2> USE <1>2
  <2>1. ASSUME NEW c \in Certificate, Report(c) \/ UploadSeed(c) \/ UploadBlock(c)
        PROVE  Inv'
    <3>1. c.inst \in Instances
      BY DEF Certificate
    <3>2. /\ Seed(c).ns # ClientNamespace
          /\ WithBlock(c, c.payload).ns # ClientNamespace
          /\ Bare(c.payload).ns # ClientNamespace
      BY <3>1 DEF Seed, WithBlock, Bare
    <3>3. CASE Report(c)
      BY <3>3 DEF Report
    <3>4. CASE UploadSeed(c)
      BY <3>2, <3>4 DEF UploadSeed
    <3>5. CASE UploadBlock(c)
      BY <3>2, <3>5 DEF UploadBlock
    <3> QED
      BY <2>1, <3>3, <3>4, <3>5
  <2>2. ASSUME NEW a \in held \cup Foreign, Answered(a)
        PROVE  Inv'
    BY <2>2 DEF Answered
  <2>3. ASSUME NEW a \in held \cup Foreign, Pushed(a)
        PROVE  Inv'
    BY <2>3 DEF Pushed
  <2>4. CASE UNCHANGED <<held, outcomes>>
    BY <2>4
  <2>5. CASE Next
    <3> HIDE DEF Inv
    <3>1. CASE \E q \in Query : GetOne(q)
      BY <2>4, <3>1, Zenon DEF GetOne
    <3>2. CASE \E kind \in Kinds, start, end \in Views : GetRange(kind, start, end)
      BY <2>4, <3>2, Zenon DEF GetRange
    <3>3. CASE Failed \/ Listen \/ End
      BY <2>4, <3>3, Zenon DEF Failed, Listen, End
    <3> QED
      BY <2>1, <2>2, <2>3, <2>5, <3>1, <3>2, <3>3, Zenon DEF Next
  <2>6. CASE UNCHANGED vars
    BY <2>4, <2>6 DEF vars
  <2> QED
    BY <2>5, <2>6
<1>3. Inv /\ ResultsAreVerdicts => OnlyBlocksByDigest
  <2> SUFFICES ASSUME Inv, ResultsAreVerdicts, NEW o \in outcomes, o[3] = "ok"
               PROVE  o[1].by = "digest"
    BY DEF OnlyBlocksByDigest
  <2>1. Result(o[1], o[2]) = "ok"
    BY DEF ResultsAreVerdicts
  <2>2. Verifies(o[1], o[2])
    BY <2>1, Accepted
  <2> QED
    BY <2>2 DEF Verifies
<1> HIDE DEF Inv
<1> QED
  BY <1>1, <1>2, <1>3, Verdicts, PTL DEF Spec
=============================================================================
