------------------------- MODULE NodePipelineProofs -------------------------
(***************************************************************************)
(* What holds of one validator's path from the buffers to the log, for any *)
(* number of instances, any chains, any order and number of the blocks     *)
(* sent, and any number of restarts.                                       *)
(*                                                                         *)
(* The buffers' own invariant ties the three places a height can be in:    *)
(* the forwarded ones are 1 .. next - 1, the others received are           *)
(* `pending`, and the two do not overlap.                                  *)
(*                                                                         *)
(* `Linked` says what is in the channel between the buffers and the        *)
(* thread: of each instance just the blocks after the last one the thread  *)
(* took and up to the last one the buffer forwarded, by ascending view.    *)
(***************************************************************************)
EXTENDS NodePipeline, FiniteSetTheorems, SequenceTheorems, TLAPS

\* The heights of the blocks of an instance.
HeightsOf(i) == {HeightOf(i, v) : v \in chain[i]}

\* The last height the buffer of an instance has forwarded.
Top(i) == Len(forwarded[i])

\* The buffers get only blocks of the chains.
Received ==
  \A i \in Inst : chan[i] \in Seq(HeightsOf(i)) /\ pending[i] \subseteq HeightsOf(i)

\* An event is a block after the last taken and not after the last forwarded.
EventsAhead ==
  \A j \in 1 .. Len(events) : \A i \in Inst, v \in Views :
    events[j] = <<v, i>> => v \in chain[i] /\ fed[i] < v /\ HeightOf(i, v) <= Top(i)

EventsAscend ==
  \A j, k \in 1 .. Len(events) : \A i \in Inst, v, w \in Views :
    j < k /\ events[j] = <<v, i>> /\ events[k] = <<w, i>> => v < w

\* What the buffer has forwarded and the thread has not taken is an event.
NoneMissing ==
  \A i \in Inst : \A w \in chain[i] :
    fed[i] < w /\ HeightOf(i, w) <= Top(i) => \E j \in 1 .. Len(events) : events[j] = <<w, i>>

FedForwarded == \A i \in Inst : fed[i] \in chain[i] => HeightOf(i, fed[i]) <= Top(i)

Linked ==
  /\ events \in Seq(Cell)
  /\ EventsAhead /\ EventsAscend /\ NoneMissing /\ FedForwarded

\* What was logged before a restart was the ordered log of the same chains.
FormerOrdered == \E q : T!OrderedLog(T!Blocks(chain), q, former)

Restarted == former \in Seq(Cell) /\ restarts \in 0 .. MaxRestarts

BufferInv == BufferTypeOK /\ ForwardedInHeightOrder /\ NothingWithheld

Inv == BufferInv /\ T!IInv /\ Received /\ Linked /\ FormerOrdered /\ Restarted
-----------------------------------------------------------------------------
\* A set of views up to some view is finite, and its size is a number.
LEMMA HeightIsNat ==
  ASSUME NEW i, chain[i] \subseteq Nat \ {0}, NEW v \in Nat
  PROVE  /\ IsFiniteSet({w \in chain[i] : w <= v})
         /\ HeightOf(i, v) \in Nat
<1>1. IsFiniteSet(1 .. v)
  BY FS_Interval
<1>2. {w \in chain[i] : w <= v} \subseteq 1 .. v
  OBVIOUS
<1>3. IsFiniteSet({w \in chain[i] : w <= v})
  BY <1>1, <1>2, FS_Subset
<1>4. QED
  BY <1>3, FS_CardinalityType DEF HeightOf

\* Along a chain heights ascend with views.
LEMMA HeightAscends ==
  ASSUME NEW i, chain[i] \subseteq Nat \ {0}, NEW v \in chain[i], NEW w \in chain[i], v < w
  PROVE  HeightOf(i, v) < HeightOf(i, w)
<1> DEFINE X == {u \in chain[i] : u <= v}
           Y == {u \in chain[i] : u <= w}
<1>1. IsFiniteSet(X) /\ IsFiniteSet(Y)
  BY HeightIsNat
<1>2. X \subseteq Y /\ w \in Y /\ w \notin X
  OBVIOUS
<1>3. /\ Cardinality(X) \in Nat /\ Cardinality(Y) \in Nat
      /\ Cardinality(X) <= Cardinality(Y)
      /\ Cardinality(X) # Cardinality(Y)
  BY <1>1, <1>2, FS_Subset, FS_CardinalityType
<1>4. QED
  BY <1>3 DEF HeightOf

\* And views with heights.
LEMMA ViewAscends ==
  ASSUME NEW i, chain[i] \subseteq Nat \ {0}, NEW v \in chain[i], NEW w \in chain[i]
  PROVE  /\ HeightOf(i, v) < HeightOf(i, w) => v < w
         /\ HeightOf(i, v) = HeightOf(i, w) => v = w
<1>1. /\ v \in Nat /\ w \in Nat /\ HeightOf(i, v) \in Nat /\ HeightOf(i, w) \in Nat
  BY HeightIsNat
<1>2. v < w => HeightOf(i, v) < HeightOf(i, w)
  BY HeightAscends
<1>3. w < v => HeightOf(i, w) < HeightOf(i, v)
  BY HeightAscends
<1>4. QED
  BY <1>1, <1>2, <1>3

\* The view found for a height that a block of the chain has.
LEMMA ViewFound ==
  ASSUME NEW i, NEW h \in HeightsOf(i)
  PROVE  ViewAt(i, h) \in chain[i] /\ HeightOf(i, ViewAt(i, h)) = h
BY DEF HeightsOf, ViewAt

\* The thread starts, and starts again, in its invariant.
LEMMA ThreadStartsAgain == /\ T!Init => T!IInv
                           /\ T!Init' => T!IInv'
<1>1. T!Init => T!IInv
  BY T!InitIInv, InstancesAssumption, ViewsAssumption
<1>2. QED
  BY <1>1, PTL
-----------------------------------------------------------------------------
(* The buffers. *)

\* Every buffer starts with nothing received and height 1 expected.
LEMMA BufferStarts == BufferInit => BufferInv
<1> SUFFICES ASSUME BufferInit PROVE BufferInv
  OBVIOUS
<1>1. <<>> \in Seq(Heights) /\ Len(<<>>) = 0
  BY EmptySeq
<1>2. BufferTypeOK
  BY <1>1 DEF BufferInit, BufferTypeOK, Heights
<1>3. ForwardedInHeightOrder
  BY <1>1 DEF BufferInit, ForwardedInHeightOrder
<1>4. NothingWithheld
  BY DEF BufferInit, NothingWithheld
<1>5. QED
  BY <1>2, <1>3, <1>4 DEF BufferInv

LEMMA BufferStartsAgain == BufferInit' => BufferInv'
  BY BufferStarts, PTL

\* What the types say of one buffer.
LEMMA OneBuffer ==
  ASSUME BufferInv, NEW i \in Inst
  PROVE  /\ chan[i] \in Seq(Heights) /\ next[i] \in Nat \ {0} /\ pending[i] \subseteq Heights
         /\ forwarded[i] \in Seq(Heights) /\ Len(forwarded[i]) \in Nat
         /\ next[i] = Len(forwarded[i]) + 1
         /\ \A j \in 1 .. Len(forwarded[i]) : forwarded[i][j] = j
         /\ seen[i] = (1 .. next[i] - 1) \cup pending[i]
         /\ pending[i] \cap (1 .. next[i] - 1) = {}
         /\ ~draining[i] => next[i] \notin pending[i]
<1>1. /\ chan[i] \in Seq(Heights) /\ next[i] \in Nat \ {0} /\ pending[i] \subseteq Heights
      /\ forwarded[i] \in Seq(Heights)
  BY DEF BufferInv, BufferTypeOK, Heights
<1>2. Len(forwarded[i]) \in Nat
  BY <1>1, LenProperties
<1>3. QED
  BY <1>1, <1>2 DEF BufferInv, ForwardedInHeightOrder, NothingWithheld

\* A block sent to the channel leaves the task's own state alone.
LEMMA SendKeeps ==
  ASSUME BufferInv, NEW i \in Inst, NEW h \in Heights, Send(i, h)
  PROVE  BufferInv'
<1>1. chan' \in [Inst -> Seq(Heights)]
  <2>1. Append(chan[i], h) \in Seq(Heights)
    BY OneBuffer, AppendProperties
  <2>2. QED
    BY <2>1 DEF Send, BufferInv, BufferTypeOK
<1>2. QED
  BY <1>1 DEF Send, BufferInv, BufferTypeOK, ForwardedInHeightOrder, NothingWithheld

\* A block received for the first time becomes pending: no height that has
\* been forwarded can be new.
LEMMA AcceptKeeps == ASSUME BufferInv, NEW i \in Inst, Accept(i) PROVE BufferInv'
<1>1. PICK h : h = Head(chan[i])
  OBVIOUS
<1>2. /\ chan[i] # <<>> /\ chan' = [chan EXCEPT ![i] = Tail(chan[i])]
      /\ seen' = [seen EXCEPT ![i] = seen[i] \cup {h}]
      /\ pending' = [pending EXCEPT ![i] = IF h \in seen[i] THEN pending[i] ELSE pending[i] \cup {h}]
      /\ draining' = [draining EXCEPT ![i] = h \notin seen[i]]
      /\ ~draining[i] /\ next' = next /\ forwarded' = forwarded
  BY <1>1 DEF Accept
<1>3. h \in Heights /\ Tail(chan[i]) \in Seq(Heights)
  BY <1>1, <1>2, OneBuffer, HeadTailProperties
<1>4. BufferTypeOK'
  <2>1. chan' \in [Inst -> Seq(Heights)]
    BY <1>2, <1>3 DEF BufferInv, BufferTypeOK
  <2>2. seen' \in [Inst -> SUBSET Heights]
    BY <1>2, <1>3 DEF BufferInv, BufferTypeOK
  <2>3. pending' \in [Inst -> SUBSET Heights]
    BY <1>2, <1>3 DEF BufferInv, BufferTypeOK
  <2>4. draining' \in [Inst -> BOOLEAN]
    BY <1>2 DEF BufferInv, BufferTypeOK
  <2>5. QED
    BY <1>2, <2>1, <2>2, <2>3, <2>4 DEF BufferInv, BufferTypeOK
<1>5. ForwardedInHeightOrder'
  BY <1>2 DEF BufferInv, ForwardedInHeightOrder
<1>6. ASSUME NEW k \in Inst
      PROVE  /\ seen'[k] = (1 .. next[k] - 1) \cup pending'[k]
             /\ pending'[k] \cap (1 .. next[k] - 1) = {}
             /\ ~draining'[k] => next[k] \notin pending'[k]
  <2>1. CASE k # i
    <3>1. seen'[k] = seen[k] /\ pending'[k] = pending[k] /\ draining'[k] = draining[k]
      BY <1>2, <2>1 DEF BufferInv, BufferTypeOK
    <3>2. QED
      BY <3>1, OneBuffer
  <2>2. CASE k = i
    <3>1. /\ seen'[k] = seen[i] \cup {h} /\ draining'[k] = (h \notin seen[i])
          /\ pending'[k] = IF h \in seen[i] THEN pending[i] ELSE pending[i] \cup {h}
      BY <1>2, <2>2 DEF BufferInv, BufferTypeOK
    <3>2. PICK D, S, P : D = (1 .. next[i] - 1) /\ S = seen[i] /\ P = pending[i]
      OBVIOUS
    <3>3. S = D \cup P /\ P \cap D = {} /\ next[i] \notin P
      BY <1>2, <3>2, OneBuffer
    <3>4. CASE h \in S
      <4>1. seen'[k] = S /\ pending'[k] = P /\ ~draining'[k]
        BY <3>1, <3>2, <3>4
      <4>2. QED
        BY <2>2, <3>2, <3>3, <4>1
    <3>5. CASE h \notin S
      <4>1. seen'[k] = S \cup {h} /\ pending'[k] = P \cup {h} /\ draining'[k] = TRUE
        BY <3>1, <3>2, <3>5
      <4>2. S \cup {h} = D \cup (P \cup {h}) /\ (P \cup {h}) \cap D = {}
        BY <3>3, <3>5
      <4>3. QED
        BY <2>2, <3>2, <4>1, <4>2
    <3>6. QED
      BY <3>4, <3>5
  <2>3. QED
    BY <2>1, <2>2
<1>7. NothingWithheld'
  BY <1>2, <1>6 DEF NothingWithheld
<1>8. QED
  BY <1>4, <1>5, <1>7 DEF BufferInv

\* The block forwarded is the one after the last, so the sequence forwarded
\* grows by its own next index.
LEMMA ForwardKeeps == ASSUME BufferInv, NEW i \in Inst, Forward(i) PROVE BufferInv'
<1>1. PICK n : n = next[i]
  OBVIOUS
<1>2. /\ n \in pending[i]
      /\ pending' = [pending EXCEPT ![i] = pending[i] \ {n}]
      /\ forwarded' = [forwarded EXCEPT ![i] = Append(forwarded[i], n)]
      /\ next' = [next EXCEPT ![i] = n + 1]
      /\ chan' = chan /\ seen' = seen /\ draining' = draining /\ draining[i]
  BY <1>1 DEF Forward
<1>3. /\ n \in Nat \ {0} /\ n \in Heights /\ forwarded[i] \in Seq(Heights)
      /\ n = Len(forwarded[i]) + 1 /\ Len(forwarded[i]) \in Nat
  BY <1>1, OneBuffer DEF Heights
<1>4. /\ Append(forwarded[i], n) \in Seq(Heights)
      /\ Len(Append(forwarded[i], n)) = n
      /\ \A j \in 1 .. n : Append(forwarded[i], n)[j] = j
  <2>1. /\ Append(forwarded[i], n) \in Seq(Heights)
        /\ Len(Append(forwarded[i], n)) = Len(forwarded[i]) + 1
        /\ \A j \in 1 .. Len(forwarded[i]) : Append(forwarded[i], n)[j] = forwarded[i][j]
        /\ Append(forwarded[i], n)[Len(forwarded[i]) + 1] = n
    BY <1>3, AppendProperties
  <2>2. QED
    BY <1>3, <2>1, OneBuffer
<1>5. BufferTypeOK'
  <2>1. forwarded' \in [Inst -> Seq(Heights)]
    BY <1>2, <1>4 DEF BufferInv, BufferTypeOK
  <2>2. next' \in [Inst -> Heights]
    BY <1>2, <1>3 DEF BufferInv, BufferTypeOK, Heights
  <2>3. pending' \in [Inst -> SUBSET Heights]
    BY <1>2 DEF BufferInv, BufferTypeOK
  <2>4. QED
    BY <1>2, <2>1, <2>2, <2>3 DEF BufferInv, BufferTypeOK
<1>6. ASSUME NEW k \in Inst
      PROVE  /\ next'[k] = Len(forwarded'[k]) + 1
             /\ \A j \in 1 .. Len(forwarded'[k]) : forwarded'[k][j] = j
             /\ seen[k] = (1 .. next'[k] - 1) \cup pending'[k]
             /\ pending'[k] \cap (1 .. next'[k] - 1) = {}
             /\ ~draining[k] => next'[k] \notin pending'[k]
  <2>1. CASE k # i
    <3>1. next'[k] = next[k] /\ forwarded'[k] = forwarded[k] /\ pending'[k] = pending[k]
      BY <1>2, <2>1 DEF BufferInv, BufferTypeOK
    <3>2. QED
      BY <3>1, OneBuffer
  <2>2. CASE k = i
    <3>1. /\ next'[k] = n + 1 /\ forwarded'[k] = Append(forwarded[i], n)
          /\ pending'[k] = pending[i] \ {n}
      BY <1>2, <2>2 DEF BufferInv, BufferTypeOK
    <3>2. /\ seen[i] = (1 .. n - 1) \cup pending[i] /\ pending[i] \cap (1 .. n - 1) = {}
      BY <1>1, OneBuffer
    <3>3. 1 .. (n + 1) - 1 = (1 .. n - 1) \cup {n}
      BY <1>3
    <3>4. /\ seen[i] = (1 .. (n + 1) - 1) \cup (pending[i] \ {n})
          /\ (pending[i] \ {n}) \cap (1 .. (n + 1) - 1) = {}
      BY <1>2, <3>2, <3>3
    <3>5. QED
      BY <1>2, <1>4, <2>2, <3>1, <3>4
  <2>3. QED
    BY <2>1, <2>2
<1>7. ForwardedInHeightOrder' /\ NothingWithheld'
  BY <1>2, <1>6 DEF ForwardedInHeightOrder, NothingWithheld
<1>8. QED
  BY <1>5, <1>7 DEF BufferInv

\* The loop ends only when the expected height is not pending.
LEMMA HoldKeeps == ASSUME BufferInv, NEW i \in Inst, Hold(i) PROVE BufferInv'
<1>1. BufferTypeOK'
  BY DEF Hold, BufferInv, BufferTypeOK
<1>2. ForwardedInHeightOrder' /\ NothingWithheld'
  BY DEF Hold, BufferInv, BufferTypeOK, ForwardedInHeightOrder, NothingWithheld
<1>3. QED
  BY <1>1, <1>2 DEF BufferInv

LEMMA RunKeeps == ASSUME BufferInv, NEW i \in Inst, Run(i) PROVE BufferInv'
  BY AcceptKeeps, ForwardKeeps, HoldKeeps DEF Run

LEMMA BuffersRest == ASSUME BufferInv, UNCHANGED bufferVars PROVE BufferInv'
  BY DEF bufferVars, BufferInv, BufferTypeOK, ForwardedInHeightOrder, NothingWithheld
-----------------------------------------------------------------------------
(* The channel between the buffers and the thread. *)

\* What the thread's invariant says of the chains and of what it has taken.
LEMMA Chained ==
  ASSUME T!IInv
  PROVE  /\ chain \in [Inst -> SUBSET Views] /\ fed \in [Inst -> Nat]
         /\ \A i \in Inst : /\ chain[i] \subseteq Nat \ {0}
                            /\ chain[i] \subseteq Views
                            /\ fed[i] \in chain[i] \cup {0}
<1>1. T!Inst = Inst
  BY DEF T!Inst, Inst
<1>2. T!TypeOK /\ \A i \in Inst : T!Window(i)
  BY <1>1 DEF T!IInv
<1>3. chain \in [Inst -> SUBSET Views] /\ fed \in [Inst -> Nat]
  BY <1>1, <1>2 DEF T!TypeOK, T!Chains
<1>4. ASSUME NEW i \in Inst
      PROVE  /\ chain[i] \subseteq Nat \ {0}
             /\ chain[i] \subseteq Views
             /\ fed[i] \in chain[i] \cup {0}
  BY <1>2, <1>3, ViewsAssumption DEF T!Window
<1>5. QED
  BY <1>3, <1>4

\* Chains do not change, so heights do not.
LEMMA SameHeights ==
  ASSUME UNCHANGED chain
  PROVE  /\ \A i, v : HeightOf(i, v)' = HeightOf(i, v)
         /\ \A i : HeightsOf(i)' = HeightsOf(i)
BY DEF HeightOf, HeightsOf

\* The next block forwarded goes behind those of its instance.
LEMMA LinkForwards ==
  ASSUME T!IInv, Linked, UNCHANGED <<chain, fed>>,
         NEW i \in Inst, NEW v \in chain[i],
         HeightOf(i, v) = Top(i) + 1,
         events' = Append(events, <<v, i>>),
         \A k \in Inst : Top(k) \in Nat,
         \A k \in Inst : Top(k)' = IF k = i THEN Top(k) + 1 ELSE Top(k)
  PROVE  Linked'
<1> USE DEF Linked
<1>1. /\ \A k \in Inst : chain[k] \subseteq Nat \ {0} /\ fed[k] \in chain[k] \cup {0}
      /\ \A k \in Inst : fed[k] \in Nat
      /\ v \in Nat /\ v \in Views
  BY Chained
<1>2. <<v, i>> \in Cell
  BY <1>1 DEF Cell
<1>3. /\ events' \in Seq(Cell) /\ Len(events') = Len(events) + 1 /\ Len(events) \in Nat
      /\ \A j \in 1 .. Len(events) : events'[j] = events[j]
      /\ events'[Len(events) + 1] = <<v, i>>
  BY <1>2, AppendProperties, LenProperties
<1>4. /\ \A k, u : HeightOf(k, u)' = HeightOf(k, u)
      /\ \A k \in Inst : \A u \in chain[k] : HeightOf(k, u) \in Nat
  BY <1>1, SameHeights, HeightIsNat
<1>5. fed[i] < v
  <2>1. CASE fed[i] \in chain[i]
    BY <1>4, <2>1, <1>1, ViewAscends DEF FedForwarded
  <2>2. CASE fed[i] = 0
    BY <1>1, <2>2
  <2>3. QED
    BY <1>1, <2>1, <2>2
<1>6. ASSUME NEW j \in 1 .. Len(events'), NEW k \in Inst, NEW u \in Views,
             events'[j] = <<u, k>>
      PROVE  \/ j \in 1 .. Len(events) /\ events[j] = <<u, k>>
             \/ j = Len(events) + 1 /\ u = v /\ k = i
  <2>1. CASE j \in 1 .. Len(events)
    BY <1>3, <1>6, <2>1
  <2>2. CASE j = Len(events) + 1
    BY <1>3, <1>6, <2>2
  <2>3. QED
    BY <1>3, <2>1, <2>2
<1>7. EventsAhead'
  <2>1. ASSUME NEW j \in 1 .. Len(events'), NEW k \in Inst, NEW u \in Views,
               events'[j] = <<u, k>>
        PROVE  u \in chain[k] /\ fed[k] < u /\ HeightOf(k, u) <= Top(k)'
    <3>1. CASE j = Len(events) + 1 /\ u = v /\ k = i
      BY <1>4, <1>5, <3>1
    <3>2. CASE j \in 1 .. Len(events) /\ events[j] = <<u, k>>
      <4>1. u \in chain[k] /\ fed[k] < u /\ HeightOf(k, u) <= Top(k)
        BY <3>2 DEF EventsAhead
      <4>2. QED
        BY <1>4, <4>1
    <3>3. QED
      BY <1>6, <2>1, <3>1, <3>2
  <2>2. QED
    BY <2>1, <1>4 DEF EventsAhead
<1>8. EventsAscend'
  <2>1. ASSUME NEW j \in 1 .. Len(events'), NEW k \in 1 .. Len(events'),
               NEW m \in Inst, NEW u \in Views, NEW w \in Views,
               j < k, events'[j] = <<u, m>>, events'[k] = <<w, m>>
        PROVE  u < w
    <3>1. j \in 1 .. Len(events) /\ events[j] = <<u, m>>
      BY <1>3, <1>6, <2>1
    <3>2. CASE k \in 1 .. Len(events) /\ events[k] = <<w, m>>
      BY <2>1, <3>1, <3>2 DEF EventsAscend
    <3>3. CASE w = v /\ m = i
      <4>1. u \in chain[i] /\ HeightOf(i, u) <= Top(i)
        BY <3>1, <3>3 DEF EventsAhead
      <4>2. HeightOf(i, u) < HeightOf(i, v)
        BY <1>4, <4>1
      <4>3. QED
        BY <1>1, <3>3, <4>1, <4>2, ViewAscends
    <3>4. QED
      BY <1>6, <2>1, <3>2, <3>3
  <2>2. QED
    BY <2>1 DEF EventsAscend
<1>9. NoneMissing'
  <2>1. ASSUME NEW k \in Inst, NEW w \in chain[k], fed[k] < w, HeightOf(k, w) <= Top(k)'
        PROVE  \E j \in 1 .. Len(events') : events'[j] = <<w, k>>
    <3>1. CASE HeightOf(k, w) <= Top(k)
      <4>1. PICK j \in 1 .. Len(events) : events[j] = <<w, k>>
        BY <2>1, <3>1 DEF NoneMissing
      <4>2. QED
        BY <1>3, <4>1
    <3>2. CASE ~(HeightOf(k, w) <= Top(k))
      <4>1. k = i /\ HeightOf(i, w) = HeightOf(i, v)
        BY <1>4, <2>1, <3>2
      <4>2. w = v
        BY <1>1, <4>1, ViewAscends
      <4>3. QED
        BY <1>3, <4>1, <4>2
    <3>3. QED
      BY <3>1, <3>2
  <2>2. QED
    BY <2>1, <1>4 DEF NoneMissing
<1>10. FedForwarded'
  <2>1. ASSUME NEW k \in Inst, fed[k] \in chain[k]
        PROVE  HeightOf(k, fed[k]) <= Top(k)'
    BY <1>4, <2>1 DEF FedForwarded
  <2>2. QED
    BY <2>1, <1>4 DEF FedForwarded
<1>11. QED
  BY <1>3, <1>7, <1>8, <1>9, <1>10

\* The block at the head of the channel is the thread's next of its instance.
LEMMA HeadIsNext ==
  ASSUME T!IInv, Linked, events # <<>>, NEW v \in Views, NEW i \in Inst, Head(events) = <<v, i>>,
         Top(i) \in Nat
  PROVE  T!NextToFeed(i, v)
<1> USE DEF Linked
<1>1. 1 \in 1 .. Len(events) /\ events[1] = <<v, i>>
  BY EmptySeq
<1>2. v \in chain[i] /\ fed[i] < v /\ HeightOf(i, v) <= Top(i)
  BY <1>1 DEF EventsAhead
<1>3. ASSUME NEW w \in chain[i], fed[i] < w
      PROVE  v <= w
  <2>1. v \in Nat /\ w \in Nat /\ chain[i] \subseteq Nat \ {0} /\ w \in Views
    BY <1>2, Chained
  <2>2. SUFFICES ASSUME w < v PROVE FALSE
    BY <2>1
  <2>3. HeightOf(i, w) <= Top(i)
    <3>1. HeightOf(i, w) < HeightOf(i, v)
      BY <1>2, <2>1, <2>2, HeightAscends
    <3>2. HeightOf(i, w) \in Nat /\ HeightOf(i, v) \in Nat
      BY <2>1, HeightIsNat
    <3>3. QED
      BY <1>2, <3>1, <3>2
  <2>4. PICK k \in 1 .. Len(events) : events[k] = <<w, i>>
    BY <1>3, <2>3 DEF NoneMissing
  <2>5. k # 1
    BY <1>1, <2>1, <2>2, <2>4
  <2>6. v < w
    BY <1>1, <2>1, <2>4, <2>5 DEF EventsAscend
  <2>7. QED
    BY <2>1, <2>2, <2>6
<1>4. QED
  BY <1>2, <1>3 DEF T!NextToFeed

\* What is left in the channel is what comes after the block taken.
LEMMA LinkTakes ==
  ASSUME T!IInv, Linked, events # <<>>, NEW v \in Views, NEW i \in Inst, Head(events) = <<v, i>>,
         UNCHANGED chain, fed' = [fed EXCEPT ![i] = v], events' = Tail(events),
         \A k \in Inst : Top(k)' = Top(k)
  PROVE  Linked'
<1> USE DEF Linked
<1>1. /\ events' \in Seq(Cell) /\ Len(events') = Len(events) - 1 /\ Len(events) \in Nat \ {0}
      /\ \A j \in 1 .. Len(events') : j + 1 \in 1 .. Len(events) /\ events'[j] = events[j + 1]
      /\ events[1] = <<v, i>>
  BY EmptySeq, HeadTailProperties
<1>2. /\ \A k, u : HeightOf(k, u)' = HeightOf(k, u)
      /\ \A k \in Inst : fed'[k] = IF k = i THEN v ELSE fed[k]
  BY SameHeights, Chained
<1>3. v \in chain[i] /\ fed[i] < v /\ HeightOf(i, v) <= Top(i)
  BY <1>1 DEF EventsAhead
<1>4. EventsAhead'
  <2>1. ASSUME NEW j \in 1 .. Len(events'), NEW k \in Inst, NEW u \in Views,
               events'[j] = <<u, k>>
        PROVE  u \in chain[k] /\ fed'[k] < u /\ HeightOf(k, u) <= Top(k)'
    <3>1. j + 1 \in 1 .. Len(events) /\ events[j + 1] = <<u, k>>
      BY <1>1, <2>1
    <3>2. u \in chain[k] /\ fed[k] < u /\ HeightOf(k, u) <= Top(k)
      BY <3>1 DEF EventsAhead
    <3>3. k = i => v < u
      BY <1>1, <3>1 DEF EventsAscend
    <3>4. QED
      BY <1>2, <3>2, <3>3
  <2>2. QED
    BY <2>1, <1>2 DEF EventsAhead
<1>5. EventsAscend'
  BY <1>1 DEF EventsAscend
<1>6. NoneMissing'
  <2>1. ASSUME NEW k \in Inst, NEW w \in chain[k], fed'[k] < w, HeightOf(k, w) <= Top(k)'
        PROVE  \E j \in 1 .. Len(events') : events'[j] = <<w, k>>
    <3>1. fed[k] < w /\ <<w, k>> # <<v, i>>
      BY <1>2, <1>3, <2>1, Chained
    <3>2. PICK j \in 1 .. Len(events) : events[j] = <<w, k>>
      BY <2>1, <3>1 DEF NoneMissing
    <3>3. j - 1 \in 1 .. Len(events') /\ events'[j - 1] = events[j]
      BY <1>1, <3>1, <3>2
    <3>4. QED
      BY <3>2, <3>3
  <2>2. QED
    BY <2>1, <1>2 DEF NoneMissing
<1>7. FedForwarded'
  <2>1. ASSUME NEW k \in Inst, fed'[k] \in chain[k]
        PROVE  HeightOf(k, fed'[k]) <= Top(k)'
    BY <1>2, <1>3, <2>1 DEF FedForwarded
  <2>2. QED
    BY <2>1, <1>2 DEF FedForwarded, HeightOf
<1>8. QED
  BY <1>1, <1>4, <1>5, <1>6, <1>7
-----------------------------------------------------------------------------
\* A step of the thread, or none, keeps its invariant.
LEMMA ThreadKeeps == T!IInv /\ (T!Next \/ UNCHANGED thread) => T!IInv'
<1>1. UNCHANGED thread => UNCHANGED T!vars
  BY DEF thread, T!vars
<1>2. QED
  BY <1>1, T!NextIInv, InstancesAssumption, ViewsAssumption

\* How many blocks a buffer has forwarded.
LEMMA TopIsNat ==
  ASSUME BufferInv
  PROVE  \A k \in Inst : Top(k) \in Nat
BY OneBuffer DEF Top

\* Nothing between buffers and thread changes.
LEMMA LinkRests ==
  ASSUME Linked, UNCHANGED <<events, chain, fed>>, \A k \in Inst : Top(k)' = Top(k)
  PROVE  Linked'
<1> USE DEF Linked
<1>1. \A k, u : HeightOf(k, u)' = HeightOf(k, u)
  BY SameHeights
<1>2. EventsAhead'
  BY <1>1 DEF EventsAhead
<1>3. EventsAscend' /\ NoneMissing' /\ FedForwarded'
  BY <1>1 DEF EventsAscend, NoneMissing, FedForwarded
<1>4. QED
  BY <1>2, <1>3

\* The ordered log of the same chains stays one.
LEMMA FormerRests ==
  ASSUME FormerOrdered, Restarted, UNCHANGED <<chain, former, restarts>>
  PROVE  FormerOrdered' /\ Restarted'
BY DEF FormerOrdered, Restarted, T!OrderedLog, T!Blocks

\* A step of the buffer of instance i.
LEMMA BufferKeeps == ASSUME Inv, NEW i \in Inst, Buffer(i) PROVE Inv'
<1> USE DEF Inv
<1>1. BufferInv' /\ T!IInv'
  BY RunKeeps, ThreadKeeps DEF Buffer
<1>2. /\ UNCHANGED <<chain, fed>> /\ UNCHANGED <<former, restarts>>
      /\ events' = events \o Emitted(i, forwarded[i], forwarded'[i])
  BY DEF Buffer, thread, history
<1>3. FormerOrdered' /\ Restarted'
  BY <1>2, FormerRests
<1>4. \A k : HeightsOf(k)' = HeightsOf(k)
  BY <1>2, SameHeights
<1>5. events \in Seq(Cell)
  BY DEF Linked
<1>6. /\ chan \in [Inst -> Seq(Heights)] /\ pending \in [Inst -> SUBSET Heights]
      /\ forwarded \in [Inst -> Seq(Heights)]
  BY DEF BufferInv, BufferTypeOK
<1>7. CASE Accept(i)
  <2>1. /\ chan[i] # <<>> /\ forwarded' = forwarded
        /\ chan' = [chan EXCEPT ![i] = Tail(chan[i])]
        /\ pending'[i] \subseteq pending[i] \cup {Head(chan[i])}
        /\ \A k \in Inst : k # i => pending'[k] = pending[k]
    BY <1>6, <1>7 DEF Accept
  <2>2. Head(chan[i]) \in HeightsOf(i) /\ Tail(chan[i]) \in Seq(HeightsOf(i))
    BY <2>1, HeadTailProperties DEF Received
  <2>3. Received'
    BY <1>4, <1>6, <2>1, <2>2 DEF Received
  <2>4. events' = events
    BY <1>2, <1>5, <2>1, ConcatEmptySeq DEF Emitted
  <2>5. Linked'
    BY <1>2, <2>1, <2>4, LinkRests DEF Top
  <2>6. QED
    BY <1>1, <1>3, <2>3, <2>5
<1>8. CASE Hold(i)
  <2>1. UNCHANGED <<chan, pending, forwarded>>
    BY <1>8 DEF Hold
  <2>2. Received'
    BY <1>4, <2>1 DEF Received
  <2>3. events' = events
    BY <1>2, <1>5, <2>1, ConcatEmptySeq DEF Emitted
  <2>4. Linked'
    BY <1>2, <2>1, <2>3, LinkRests DEF Top
  <2>5. QED
    BY <1>1, <1>3, <2>2, <2>4
<1>9. CASE Forward(i)
  <2>1. PICK n : n = next[i]
    OBVIOUS
  <2>2. /\ n \in pending[i] /\ chan' = chan
        /\ pending' = [pending EXCEPT ![i] = pending[i] \ {n}]
        /\ forwarded' = [forwarded EXCEPT ![i] = Append(forwarded[i], n)]
    BY <1>9, <2>1 DEF Forward
  <2>3. forwarded[i] \in Seq(Heights) /\ n = Len(forwarded[i]) + 1 /\ n \in Heights /\ n \in Nat
    BY <2>1, OneBuffer DEF Heights
  <2>4. /\ forwarded'[i] = Append(forwarded[i], n)
        /\ \A k \in Inst : k # i => forwarded'[k] = forwarded[k]
    BY <1>6, <2>2
  <2>5. /\ Len(forwarded'[i]) = Len(forwarded[i]) + 1 /\ forwarded'[i][Len(forwarded'[i])] = n
        /\ Len(forwarded[i]) \in Nat /\ forwarded'[i] # forwarded[i]
    BY <2>3, <2>4, AppendProperties, LenProperties
  <2>6. Received'
    BY <1>4, <1>6, <2>2 DEF Received
  <2> DEFINE v == ViewAt(i, n)
  <2>7. v \in chain[i] /\ HeightOf(i, v) = n
    BY <2>2, ViewFound DEF Received
  <2>8. <<v, i>> \in Cell
    BY <2>7, Chained DEF Cell
  <2>9. events' = Append(events, <<v, i>>)
    BY <1>2, <1>5, <2>5, <2>8, AppendIsConcat DEF Emitted, Last
  <2>10. /\ HeightOf(i, v) = Top(i) + 1
         /\ \A k \in Inst : Top(k)' = IF k = i THEN Top(k) + 1 ELSE Top(k)
    BY <2>3, <2>4, <2>5, <2>7 DEF Top
  <2> HIDE DEF v
  <2>11. Linked'
    BY <1>2, <2>7, <2>9, <2>10, TopIsNat, LinkForwards
  <2>12. QED
    BY <1>1, <1>3, <2>6, <2>11
<1>10. QED
  BY <1>7, <1>8, <1>9 DEF Buffer, Run

\* A block reaches the buffer of instance i.
LEMMA SendBlockKeeps ==
  ASSUME Inv, NEW i \in Inst, NEW h \in 1 .. MaxHeight[i], SendBlock(i, h)
  PROVE  Inv'
<1> USE DEF Inv
<1>1. h \in Heights
  BY PipelineAssumption DEF Heights
<1>2. BufferInv' /\ T!IInv'
  BY <1>1, SendKeeps, ThreadKeeps DEF SendBlock
<1>3. /\ UNCHANGED <<events, chain, fed>> /\ UNCHANGED <<former, restarts>>
      /\ UNCHANGED <<pending, forwarded>> /\ chan' = [chan EXCEPT ![i] = Append(chan[i], h)]
      /\ h \in HeightsOf(i)
  BY DEF SendBlock, Send, thread, history, HeightsOf
<1>4. \A k : HeightsOf(k)' = HeightsOf(k)
  BY <1>3, SameHeights
<1>5. Received'
  <2>1. Append(chan[i], h) \in Seq(HeightsOf(i))
    BY <1>3, AppendProperties DEF Received
  <2>2. chan \in [Inst -> Seq(Heights)]
    BY DEF BufferInv, BufferTypeOK
  <2>3. QED
    BY <1>3, <1>4, <2>1, <2>2 DEF Received
<1>6. Linked'
  BY <1>3, LinkRests DEF Top
<1>7. QED
  BY <1>2, <1>3, <1>5, <1>6, FormerRests

\* The block the thread takes from the shared channel is its next.
LEMMA TakesNext ==
  ASSUME Inv, Receive
  PROVE  \E i \in Inst, v \in Views : Head(events) = <<v, i>> /\ T!NextToFeed(i, v) /\ T!Receive(i)
<1> USE DEF Inv
<1>1. events # <<>> /\ events \in Seq(Cell)
  BY DEF Receive, Linked
<1>2. Head(events) \in Cell
  BY <1>1, HeadTailProperties
<1>3. PICK v \in Views, i \in Inst : Head(events) = <<v, i>>
  BY <1>2 DEF Cell
<1>4. T!Enqueue(i, v)
  BY <1>3 DEF Receive
<1>5. T!NextToFeed(i, v)
  BY <1>1, <1>3, TopIsNat, HeadIsNext
<1>6. v \in chain[i]
  BY <1>5 DEF T!NextToFeed
<1>7. T!Receive(i)
  BY <1>4, <1>5, <1>6 DEF T!Receive
<1>8. QED
  BY <1>3, <1>5, <1>7

LEMMA ReceiveInv == ASSUME Inv, Receive PROVE Inv'
<1> USE DEF Inv
<1>1. PICK i \in Inst, v \in Views :
        Head(events) = <<v, i>> /\ T!NextToFeed(i, v) /\ T!Receive(i)
  BY TakesNext
<1>2. T!Next
  <2>1. i \in T!Inst
    BY DEF T!Inst, Inst
  <2>2. QED
    BY <1>1, <2>1 DEF T!Next
<1>3. /\ events # <<>> /\ events' = Tail(events) /\ T!Enqueue(i, v)
      /\ UNCHANGED bufferVars /\ UNCHANGED <<former, restarts>>
  BY <1>1 DEF Receive, history
<1>4. BufferInv' /\ T!IInv'
  BY <1>2, <1>3, BuffersRest, ThreadKeeps
<1>5. UNCHANGED chain /\ fed' = [fed EXCEPT ![i] = v]
  BY <1>3 DEF T!Enqueue
<1>6. UNCHANGED <<chan, pending, forwarded>>
  BY <1>3 DEF bufferVars
<1>7. \A k : HeightsOf(k)' = HeightsOf(k)
  BY <1>5, SameHeights
<1>8. Received'
  BY <1>6, <1>7 DEF Received
<1>9. \A k \in Inst : Top(k)' = Top(k)
  BY <1>6 DEF Top
<1>10. Linked'
  BY <1>1, <1>3, <1>5, <1>9, LinkTakes
<1>11. QED
  BY <1>3, <1>4, <1>5, <1>8, <1>10, FormerRests

\* Between two blocks taken the thread touches neither channel nor chains.
LEMMA DrainInv == ASSUME Inv, Drain PROVE Inv'
<1> USE DEF Inv
<1>1. UNCHANGED bufferVars /\ UNCHANGED <<events, former, restarts>>
  BY DEF Drain, history
<1>2. UNCHANGED <<chain, fed>>
  BY DEF Drain, T!Drain, T!FinalizeCell, T!PassSettledCell, T!PassSkippedCell, T!Await
<1>3. BufferInv' /\ T!IInv'
  BY <1>1, BuffersRest, ThreadKeeps DEF Drain, T!Next
<1>4. UNCHANGED <<chan, pending, forwarded>>
  BY <1>1 DEF bufferVars
<1>5. \A k : HeightsOf(k)' = HeightsOf(k)
  BY <1>2, SameHeights
<1>6. Received'
  BY <1>4, <1>5 DEF Received
<1>7. Linked'
  BY <1>1, <1>2, <1>4, LinkRests DEF Top
<1>8. QED
  BY <1>1, <1>2, <1>3, <1>6, <1>7, FormerRests

\* A thread with nothing taken and empty buffers, at the start and again.
LEMMA LinkStarts ==
  ASSUME T!IInv, events = <<>>, fed = [i \in Inst |-> 0],
         forwarded = [i \in Inst |-> <<>>]
  PROVE  Linked
<1>1. \A i \in Inst : /\ chain[i] \subseteq Nat \ {0} /\ fed[i] = 0 /\ Top(i) = 0
  BY Chained, EmptySeq DEF Top
<1>2. \A i \in Inst : \A w \in chain[i] : 0 < HeightOf(i, w) /\ HeightOf(i, w) \in Nat
  <2>1. SUFFICES ASSUME NEW i \in Inst, NEW w \in chain[i]
                 PROVE  0 < HeightOf(i, w) /\ HeightOf(i, w) \in Nat
    OBVIOUS
  <2>2. IsFiniteSet({u \in chain[i] : u <= w}) /\ HeightOf(i, w) \in Nat
    BY <1>1, HeightIsNat
  <2>3. {u \in chain[i] : u <= w} # {}
    BY <1>1
  <2>4. Cardinality({u \in chain[i] : u <= w}) # 0
    BY <2>2, <2>3, FS_EmptySet, Zenon
  <2>5. QED
    BY <2>2, <2>4 DEF HeightOf
<1>3. events \in Seq(Cell) /\ Len(events) = 0
  BY EmptySeq
<1>4. EventsAhead /\ EventsAscend
  BY <1>3 DEF EventsAhead, EventsAscend
<1>5. NoneMissing
  BY <1>1, <1>2 DEF NoneMissing
<1>6. FedForwarded
  BY <1>1 DEF FedForwarded
<1>7. QED
  BY <1>3, <1>4, <1>5, <1>6 DEF Linked

LEMMA LinkStartsAgain ==
  (/\ T!IInv /\ events = <<>> /\ fed = [i \in Inst |-> 0]
   /\ forwarded = [i \in Inst |-> <<>>])' => Linked'
<1>1. (/\ T!IInv /\ events = <<>> /\ fed = [i \in Inst |-> 0]
       /\ forwarded = [i \in Inst |-> <<>>]) => Linked
  BY LinkStarts
<1>2. QED
  BY <1>1, PTL

\* After a restart everything is as at the start, except that `former` is the
\* log written until then, which is ordered like any log of the thread.
LEMMA RestartInv == ASSUME Inv, Restart PROVE Inv'
<1> USE DEF Inv
<1>1. /\ restarts < MaxRestarts /\ restarts' = restarts + 1 /\ former' = log
      /\ events' = <<>> /\ chain' = chain /\ ThreadStarts /\ BuffersStart
  BY DEF Restart
<1>2. T!Init'
  <2>1. T!Inst = Inst
    BY DEF T!Inst, Inst
  <2>2. chain \in T!Chains
    BY DEF T!IInv, T!TypeOK
  <2>3. QED
    BY <1>1, <2>1, <2>2 DEF T!Init, ThreadStarts, T!Chains
<1>3. BufferInit'
  BY <1>1 DEF BufferInit, BuffersStart
<1>4. BufferInv' /\ T!IInv'
  BY <1>2, <1>3, BufferStartsAgain, ThreadStartsAgain
<1>5. Received'
  BY <1>1, EmptySeq DEF BuffersStart, Received
<1>6. Linked'
  BY <1>1, <1>4, LinkStartsAgain DEF ThreadStarts, BuffersStart
<1>7. T!OrderedLog(T!Blocks(chain), cursor, log)
  BY T!LogIsOrdered, InstancesAssumption, ViewsAssumption
<1>8. FormerOrdered'
  BY <1>1, <1>7 DEF FormerOrdered, T!OrderedLog, T!Blocks
<1>9. Restarted'
  <2>1. T!Cell = Cell
    BY DEF T!Cell, T!Inst, Cell, Inst
  <2>2. log \in Seq(Cell)
    BY <2>1 DEF T!IInv, T!TypeOK
  <2>3. restarts + 1 \in 0 .. MaxRestarts
    BY <1>1, PipelineAssumption DEF Restarted
  <2>4. QED
    BY <1>1, <2>2, <2>3 DEF Restarted
<1>10. QED
  BY <1>4, <1>5, <1>6, <1>8, <1>9

LEMMA InitInv == Init => Inv
<1> SUFFICES ASSUME Init PROVE Inv
  OBVIOUS
<1>1. BufferInv /\ T!IInv
  BY BufferStarts, ThreadStartsAgain DEF Init
<1>2. T!Inst = Inst
  BY DEF T!Inst, Inst
<1>3. Received
  BY EmptySeq DEF Init, BufferInit, Received
<1>4. Linked
  BY <1>1, <1>2, LinkStarts DEF Init, BufferInit, T!Init
<1>5. T!OrderedLog(T!Blocks(chain), cursor, log)
  BY <1>1, T!LogIsOrdered, InstancesAssumption, ViewsAssumption
<1>6. FormerOrdered
  BY <1>5 DEF FormerOrdered, Init, T!Init
<1>7. Restarted
  BY PipelineAssumption, EmptySeq DEF Restarted, Init
<1>8. QED
  BY <1>1, <1>3, <1>4, <1>6, <1>7 DEF Inv

\* Every step keeps the invariant.
LEMMA NextInv == Inv /\ [Next]_vars => Inv'
<1> SUFFICES ASSUME Inv, [Next]_vars PROVE Inv'
  OBVIOUS
<1>1. ASSUME NEW i \in Inst, Buffer(i) PROVE Inv'
  BY <1>1, BufferKeeps
<1>2. ASSUME NEW i \in Inst, NEW h \in 1 .. MaxHeight[i], SendBlock(i, h) PROVE Inv'
  BY <1>2, SendBlockKeeps
<1>4. CASE Receive
  BY <1>4, ReceiveInv
<1>5. CASE Drain
  BY <1>5, DrainInv
<1>6. CASE Restart
  BY <1>6, RestartInv
<1>7. CASE UNCHANGED vars
  <2> USE DEF Inv
  <2>1. UNCHANGED bufferVars /\ UNCHANGED thread /\ UNCHANGED <<events, former, restarts>>
    BY <1>7 DEF vars, history
  <2>2. UNCHANGED <<chan, pending, forwarded>> /\ UNCHANGED <<chain, fed>>
    BY <2>1 DEF bufferVars, thread
  <2>3. \A k : HeightsOf(k)' = HeightsOf(k)
    BY <2>2, SameHeights
  <2>4. Received'
    BY <2>2, <2>3 DEF Received
  <2>5. Linked'
    BY <2>1, <2>2, LinkRests DEF Top
  <2>6. QED
    BY <2>1, <2>2, <2>4, <2>5, BuffersRest, ThreadKeeps, FormerRests
<1>8. QED
  BY <1>1, <1>2, <1>4, <1>5, <1>6, <1>7 DEF Next

LEMMA SpecInv == Spec => []Inv
  BY InitInv, NextInv, PTL DEF Spec
-----------------------------------------------------------------------------
\* The state of buffers, channel and thread stays in its types; in particular
\* every event is a cell of the matrix.
THEOREM TypeCorrect == Spec => []TypeOK
<1>1. Inv => TypeOK
  <2>1. SUFFICES ASSUME Inv PROVE TypeOK
    OBVIOUS
  <2>2. BufferTypeOK /\ T!TypeOK
    BY <2>1 DEF Inv, BufferInv, T!IInv
  <2>3. \A j \in 1 .. Len(events) : events[j] \in Cell
    BY <2>1, ElementOfSeq DEF Inv, Linked
  <2>4. QED
    BY <2>1, <2>2, <2>3 DEF Inv, Restarted, TypeOK
<1>2. QED
  BY <1>1, SpecInv, PTL

\* What each buffer sends is the heights 1, 2, 3, ..., whatever the order in
\* which blocks reach it, and again from 1 after a restart.
THEOREM HeightOrder == Spec => []ForwardedInHeightOrder
<1>1. Inv => ForwardedInHeightOrder
  BY DEF Inv, BufferInv
<1>2. QED
  BY <1>1, SpecInv, PTL

\* No buffer loses or repeats a block, or keeps one it could forward.
THEOREM NothingLost == Spec => []NothingWithheld
<1>1. Inv => NothingWithheld
  BY DEF Inv, BufferInv
<1>2. QED
  BY <1>1, SpecInv, PTL

\* Behind the buffers, and between restarts, the thread is the one module
\* GatlingThread specifies: the order of arrival which that module assumes is
\* what the buffers and the channel deliver.
THEOREM ThreadSpecified == Spec => ThreadAsSpecified
<1>1. Init => T!Init
  BY DEF Init
<1>2. ASSUME Inv, [Next]_vars
      PROVE  [T!Next \/ (T!Init)']_(T!vars)
  <2> USE <1>2
  <2>1. CASE Receive
    <3>1. \E i \in Inst : T!Receive(i)
      BY <2>1, TakesNext
    <3>2. T!Inst = Inst
      BY DEF T!Inst, Inst
    <3>3. QED
      BY <3>1, <3>2 DEF T!Next
  <2>2. CASE Drain
    BY <2>2 DEF Drain, T!Next
  <2>3. CASE Restart
    <3>1. T!Inst = Inst /\ chain \in T!Chains
      BY DEF T!Inst, Inst, Inv, T!IInv, T!TypeOK
    <3>2. (T!Init)'
      BY <2>3, <3>1 DEF Restart, T!Init, ThreadStarts, T!Chains
    <3>3. QED
      BY <3>2
  <2>4. CASE UNCHANGED thread
    BY <2>4 DEF thread, T!vars
  <2>5. CASE \/ \E i \in Inst : Buffer(i) \/ \E h \in 1 .. MaxHeight[i] : SendBlock(i, h)
             \/ UNCHANGED vars
    BY <2>4, <2>5 DEF Buffer, SendBlock, vars
  <2>6. QED
    BY <2>1, <2>2, <2>3, <2>5 DEF Next
<1>3. QED
  BY <1>1, <1>2, SpecInv, PTL DEF Spec, ThreadAsSpecified

\* A restarted validator writes the log it had written, as far as either goes.
THEOREM RewritesLog == Spec => []SameLogAgain
<1>1. Inv => SameLogAgain
  <2>1. SUFFICES ASSUME Inv PROVE SameLogAgain
    OBVIOUS
  <2>2. T!OrderedLog(T!Blocks(chain), cursor, log)
    BY <2>1, T!LogIsOrdered, InstancesAssumption, ViewsAssumption DEF Inv
  <2>3. PICK q : T!OrderedLog(T!Blocks(chain), q, former)
    BY <2>1 DEF Inv, FormerOrdered
  <2>4. \/ Len(log) <= Len(former) /\ SubSeq(log, 1, Len(log)) = SubSeq(former, 1, Len(log))
        \/ Len(former) <= Len(log) /\ SubSeq(former, 1, Len(former)) = SubSeq(log, 1, Len(former))
    BY <2>2, <2>3, T!SameLog, InstancesAssumption, ViewsAssumption
  <2>5. QED
    BY <2>4 DEF SameLogAgain, IsPrefix
<1>2. QED
  BY <1>1, SpecInv, PTL
=============================================================================
