------------------------ MODULE GatlingThreadProofs -------------------------
(***************************************************************************)
(* Proofs about GatlingThread, for every number of instances and every     *)
(* set of views.                                                           *)
(***************************************************************************)
EXTENDS GatlingThread, FiniteSetTheorems, TLAPS

\* Advance reaches the next cell of the lexicographic order: exactly the
\* cells before c, and c itself, are before Advance(c).
LEMMA AdvanceIsNext ==
  ASSUME NEW c \in (Nat \ {0}) \X Inst, NEW v \in Nat, NEW i \in Inst
  PROVE  /\ Advance(c) \in (Nat \ {0}) \X Inst
         /\ Before(<<v, i>>, Advance(c)) <=> Before(<<v, i>>, c) \/ <<v, i>> = c
<1>1. PICK w \in Nat \ {0}, k \in Inst : c = <<w, k>>
  OBVIOUS
<1>2. /\ k \in Nat /\ k < K /\ K \in Nat \ {0}
      /\ i \in Nat /\ i < K
  BY InstancesAssumption DEF Inst
<1>3. CASE k + 1 >= K
  <2>1. Advance(c) = <<w + 1, 0>>
    BY <1>1, <1>3 DEF Advance
  <2>2. k = K - 1
    BY <1>2, <1>3
  <2>3. QED
    BY <1>1, <1>2, <2>1, <2>2 DEF Before, Inst
<1>4. CASE ~(k + 1 >= K)
  <2>1. Advance(c) = <<w, k + 1>>
    BY <1>1, <1>4 DEF Advance
  <2>2. QED
    BY <1>1, <1>2, <1>4, <2>1 DEF Before, Inst
<1>5. QED
  BY <1>3, <1>4

\* A cell is the pair of its view and its instance.
LEMMA CellIsPair ==
  ASSUME NEW d \in Cell
  PROVE  d = <<d[1], d[2]>> /\ d[1] \in Views /\ d[1] \in Nat \ {0} /\ d[2] \in Inst
<1>1. d = <<d[1], d[2]>> /\ d[1] \in Views /\ d[2] \in Inst
  BY DEF Cell
<1>2. QED
  BY <1>1, ViewsAssumption

\* AdvanceIsNext for cells that are not written as a pair.
LEMMA AdvanceIsNextCell ==
  ASSUME NEW c \in (Nat \ {0}) \X Inst, NEW d \in Cell
  PROVE  Before(d, Advance(c)) <=> Before(d, c) \/ d = c
<1>1. d = <<d[1], d[2]>> /\ d[1] \in Nat /\ d[2] \in Inst
  BY CellIsPair
<1>2. Before(<<d[1], d[2]>>, Advance(c)) <=>
        Before(<<d[1], d[2]>>, c) \/ <<d[1], d[2]>> = c
  BY <1>1, AdvanceIsNext
<1>3. QED
  BY <1>1, <1>2

\* The highest view seen for an instance is the latest one delivered.
LEMMA HighestSeenIsFed ==
  ASSUME TypeOK, NEW i \in Inst, Window(i)
  PROVE  HighestSeen(i) = fed[i]
<1> DEFINE S == Keys(i) \cup {finalizedUpTo[i]}
<1>1. fed[i] \in S /\ \A v \in S : v \in Nat /\ v <= fed[i]
  BY ViewsAssumption DEF TypeOK, Window, Keys, Chains
<1>2. \A m \in S : (\A v \in S : m >= v) => m = fed[i]
  BY <1>1
<1>3. Max(S) = CHOOSE m \in S : \A v \in S : m >= v
  BY DEF Max
<1>4. QED
  BY <1>1, <1>2, <1>3 DEF HighestSeen

-----------------------------------------------------------------------------
\* The thread starts with empty queues and the cursor at the first cell.
THEOREM InitIInv == Init => IInv
<1> SUFFICES ASSUME Init PROVE IInv
  OBVIOUS
<1>1. 0 \in Inst /\ <<1, 0>> \in (Nat \ {0}) \X Inst
  BY InstancesAssumption DEF Inst
<1>2. TypeOK
  BY <1>1 DEF Init, TypeOK
<1>3. \A c \in Cell : ~Before(c, <<1, 0>>)
  <2> TAKE c \in Cell
  <2>1. c[1] \in Nat \ {0} /\ c[2] \in Nat
    BY CellIsPair DEF Inst
  <2>2. QED
    BY <2>1 DEF Before
<1>4. ASSUME NEW i \in Inst PROVE Window(i) /\ CursorInWindow(i)
  <2>1. \A v \in Nat \ {0} : ~Before(<<v, i>>, cursor)
    BY DEF Init, Before, Inst
  <2>2. \A v \in chain[i] : v \in Nat \ {0}
    BY <1>2, ViewsAssumption DEF TypeOK, Chains
  <2>3. QED
    BY <2>1, <2>2, <1>2 DEF Init, Window, CursorInWindow, TypeOK
<1>5. LogIsBlocksBelowCursor
  BY <1>3 DEF Init, LogIsBlocksBelowCursor, Logged, Blocks
<1>6. LogStrictlyOrdered
  BY DEF Init, LogStrictlyOrdered
<1>7. WaitsOnlyForLaggard
  BY <1>1 DEF Init, WaitsOnlyForLaggard
<1>8. QED
  BY <1>2, <1>4, <1>5, <1>6, <1>7 DEF IInv

\* A step that only moves the cursor on, past a view that holds no block and
\* that the instance has delivered beyond, keeps the cursor in every window
\* and leaves the log complete.
LEMMA PassingACell ==
  ASSUME IInv,
         cursor' = Advance(cursor),
         UNCHANGED <<chain, fed, blocks, finalizedUpTo, pc, log>>,
         pc = "drain",
         cursor[1] \notin blocks[cursor[2]],
         cursor[1] <= fed[cursor[2]]
  PROVE  /\ cursor' \in (Nat \ {0}) \X Inst
         /\ \A i \in Inst : CursorInWindow(i)'
         /\ LogIsBlocksBelowCursor'
         /\ LogStrictlyOrdered'
         /\ WaitsOnlyForLaggard'
<1> USE DEF IInv
<1>1. cursor' \in (Nat \ {0}) \X Inst
  BY AdvanceIsNext DEF TypeOK, Inst
<1>2. ASSUME NEW i \in Inst PROVE CursorInWindow(i)'
  <2>1. ASSUME NEW v \in Nat
        PROVE  Before(<<v, i>>, cursor') <=> Before(<<v, i>>, cursor) \/ <<v, i>> = cursor
    BY AdvanceIsNext DEF TypeOK
  <2>2. finalizedUpTo[i] \in Nat /\ \A v \in blocks[i] : v \in Nat
    BY ViewsAssumption DEF TypeOK
  <2>3. finalizedUpTo'[i] = 0 \/ Before(<<finalizedUpTo'[i], i>>, cursor')
    BY <2>1, <2>2 DEF CursorInWindow
  <2>4. \A v \in blocks'[i] : ~Before(<<v, i>>, cursor')
    <3> TAKE v \in blocks'[i]
    <3>1. <<v, i>> # cursor
      BY cursor = <<v, i>> => cursor[1] = v /\ cursor[2] = i
    <3>2. QED
      BY <2>1, <2>2, <3>1 DEF CursorInWindow
  <2>5. ASSUME NEW v \in 1 .. cursor'[1], Before(<<v, i>>, cursor')
        PROVE  v <= fed'[i]
    <3>1. CASE Before(<<v, i>>, cursor)
      <4>1. v \in 1 .. cursor[1]
        BY <3>1, <1>1 DEF Before, TypeOK
      <4>2. QED
        BY <3>1, <4>1 DEF CursorInWindow
    <3>2. CASE <<v, i>> = cursor
      BY <3>2
    <3>3. QED
      BY <2>1, <2>5, <3>1, <3>2, <1>1
  <2>6. QED
    BY <2>3, <2>4, <2>5 DEF CursorInWindow
<1>3. LogIsBlocksBelowCursor'
  <2>1. \A d \in Cell : Before(d, cursor') <=> Before(d, cursor) \/ d = cursor
    BY AdvanceIsNextCell DEF TypeOK
  <2>2. cursor \notin Blocks(chain)
    <3>1. cursor[2] \in Inst /\ fed[cursor[2]] \in Nat
      BY DEF TypeOK
    <3>2. ASSUME cursor \in Blocks(chain) PROVE FALSE
      <4>1. cursor[1] \in chain[cursor[2]] /\ cursor[1] \in Nat \ {0}
        BY <3>2, CellIsPair DEF Blocks
      <4>2. cursor[1] <= finalizedUpTo[cursor[2]]
        BY <3>1, <4>1 DEF Window, TypeOK
      <4>3. Before(<<finalizedUpTo[cursor[2]], cursor[2]>>, cursor)
        BY <3>1, <4>1, <4>2 DEF CursorInWindow, TypeOK
      <4>4. QED
        BY <3>1, <4>1, <4>2, <4>3 DEF Before, TypeOK, Inst
    <3>3. QED
      BY <3>2
  <2>3. QED
    BY <2>1, <2>2 DEF LogIsBlocksBelowCursor, Logged, Blocks
<1>4. QED
  BY <1>1, <1>2, <1>3 DEF LogStrictlyOrdered, WaitsOnlyForLaggard

\* Receive(i): the block is the next one of the instance's chain, so it falls
\* at or after the cursor, and the views skipped on the way hold no block.
LEMMA ReceiveIInv ==
  ASSUME IInv, NEW k \in Inst, Receive(k)
  PROVE  IInv'
<1> USE DEF IInv
<1>1. PICK v \in chain[k] :
        /\ NextToFeed(k, v)
        /\ fed' = [fed EXCEPT ![k] = v]
        /\ gaps' = [gaps EXCEPT ![k] =
             (@ \cup (IF v > HighestSeen(k) + 1 /\ HighestSeen(k) > 0
                      THEN (HighestSeen(k) + 1 .. v - 1) \ Keys(k) ELSE {})) \ {v}]
        /\ blocks' = [blocks EXCEPT ![k] = @ \cup {v}]
  BY DEF Receive, Enqueue
<1>2. HighestSeen(k) = fed[k]
  BY HighestSeenIsFed
<1>3. /\ pc' = "drain"
      /\ UNCHANGED <<chain, finalizedUpTo, cursor, log>>
  BY DEF Receive, Enqueue
<1>4. v \in Nat \ {0} /\ v \in Views /\ fed[k] < v /\ fed[k] \in Nat
  BY <1>1, ViewsAssumption DEF NextToFeed, TypeOK, Chains
<1>5. TypeOK'
  <2>1. (fed[k] + 1 .. v - 1) \subseteq Nat \ {0}
    BY <1>4
  <2>2. gaps' \in [Inst -> SUBSET (Nat \ {0})]
    BY <1>1, <1>2, <2>1 DEF TypeOK
  <2>3. QED
    BY <1>1, <1>3, <1>4, <2>2 DEF TypeOK
<1>6. ASSUME NEW i \in Inst PROVE Window(i)' /\ CursorInWindow(i)'
  <2>1. CASE i # k
    <3>1. /\ fed'[i] = fed[i] /\ gaps'[i] = gaps[i] /\ blocks'[i] = blocks[i]
      BY <1>1, <2>1 DEF TypeOK
    <3>2. QED
      BY <1>3, <3>1 DEF Window, CursorInWindow
  <2>2. CASE i = k
    <3>1. /\ fed'[k] = v
          /\ blocks'[k] = blocks[k] \cup {v}
          /\ \A w \in gaps'[k] : w \in gaps[k] \/ w \in fed[k] + 1 .. v - 1
      BY <1>1, <1>2 DEF TypeOK
    <3>2. \A w \in chain[k] : w \in Nat \ {0} /\ (fed[k] < w => v <= w)
      BY <1>1, ViewsAssumption DEF NextToFeed, TypeOK, Chains
    <3>3. finalizedUpTo[k] \in Nat /\ finalizedUpTo[k] <= fed[k]
      BY DEF TypeOK, Window
    <3>4. blocks'[k] = { w \in chain[k] : finalizedUpTo[k] < w /\ w <= v }
      BY <1>4, <3>1, <3>2, <3>3 DEF Window
    <3>5. \A w \in gaps'[k] : finalizedUpTo[k] < w /\ w <= v /\ w \notin chain[k]
      <4> TAKE w \in gaps'[k]
      <4>1. CASE w \in gaps[k]
        BY <4>1, <1>4, <3>3 DEF Window, TypeOK
      <4>2. CASE w \in fed[k] + 1 .. v - 1
        BY <4>2, <1>4, <3>2, <3>3
      <4>3. QED
        BY <3>1, <4>1, <4>2
    <3>6. Window(k)'
      BY <1>3, <1>4, <3>1, <3>3, <3>4, <3>5 DEF Window
    <3>7. ~Before(<<v, k>>, cursor)
      <4>1. CASE v \in 1 .. cursor[1]
        <5>1. Before(<<v, k>>, cursor) => v <= fed[k]
          BY <4>1 DEF CursorInWindow
        <5>2. ~(v <= fed[k])
          BY <1>4
        <5>3. QED
          BY <5>1, <5>2
      <4>2. CASE cursor[1] < v
        BY <4>2, <1>4 DEF Before, TypeOK
      <4>3. QED
        BY <1>4, <4>1, <4>2 DEF TypeOK
    <3>8. CursorInWindow(k)'
      <4>1. /\ \A w \in blocks'[k] : ~Before(<<w, k>>, cursor)
            /\ finalizedUpTo[k] = 0 \/ Before(<<finalizedUpTo[k], k>>, cursor)
        BY <3>1, <3>7 DEF CursorInWindow
      <4>2. \A w \in 1 .. cursor[1] : Before(<<w, k>>, cursor) => w <= fed'[k]
        <5> TAKE w \in 1 .. cursor[1]
        <5>1. Before(<<w, k>>, cursor) => w <= fed[k]
          BY DEF CursorInWindow
        <5>2. w \in Nat
          BY DEF TypeOK
        <5>3. QED
          BY <5>1, <5>2, <3>1, <1>4
      <4>3. QED
        BY <1>3, <4>1, <4>2 DEF CursorInWindow
    <3>9. QED
      BY <2>2, <3>6, <3>8
  <2>3. QED
    BY <2>1, <2>2
<1>7. LogIsBlocksBelowCursor' /\ LogStrictlyOrdered' /\ WaitsOnlyForLaggard'
  BY <1>3 DEF LogIsBlocksBelowCursor, LogStrictlyOrdered, WaitsOnlyForLaggard,
              Logged, Blocks
<1>8. QED
  BY <1>5, <1>6, <1>7

\* FinalizeCell logs the block under the cursor.
LEMMA FinalizeCellIInv ==
  ASSUME IInv, FinalizeCell
  PROVE  IInv'
<1> USE DEF IInv
<1>0. PICK v \in Nat \ {0}, k \in Inst : cursor = <<v, k>>
  BY DEF TypeOK
<1>1. /\ pc = "drain" /\ pc' = "drain"
      /\ finalizedUpTo[k] < v
      /\ v \in blocks[k]
      /\ log' = Append(log, cursor)
      /\ finalizedUpTo' = [finalizedUpTo EXCEPT ![k] = v]
      /\ blocks' = [blocks EXCEPT ![k] = { w \in @ : w > v }]
      /\ gaps' = [gaps EXCEPT ![k] = { w \in @ : w > v }]
      /\ cursor' = Advance(cursor)
      /\ UNCHANGED <<chain, fed>>
  BY <1>0 DEF FinalizeCell, FinalizeBlockAtView
<1>2. /\ k \in Inst /\ v \in Nat \ {0} /\ cursor = <<v, k>>
      /\ v \in chain[k] /\ v <= fed[k] /\ v \in Views /\ cursor \in Cell
  BY <1>0, <1>1, ViewsAssumption DEF TypeOK, Window, Cell, Chains
<1>3. cursor' \in (Nat \ {0}) \X Inst
  BY <1>1, <1>2, AdvanceIsNext
<1>4. TypeOK'
  BY <1>1, <1>2, <1>3 DEF TypeOK
<1>5. ASSUME NEW i \in Inst, NEW w \in Nat
      PROVE  Before(<<w, i>>, cursor') <=> Before(<<w, i>>, cursor) \/ <<w, i>> = cursor
  BY <1>1, AdvanceIsNext DEF TypeOK
<1>6. ASSUME NEW i \in Inst PROVE Window(i)' /\ CursorInWindow(i)'
  <2>1. /\ fed[i] \in Nat /\ finalizedUpTo[i] \in Nat
        /\ \A w \in chain[i] : w \in Nat \ {0}
        /\ \A w \in blocks[i] : w \in Nat
        /\ \A w \in gaps[i] : w \in Nat
    BY ViewsAssumption DEF TypeOK, Chains
  <2>2. ASSUME NEW w \in 1 .. cursor'[1], Before(<<w, i>>, cursor')
        PROVE  w <= fed[i]
    <3>1. CASE Before(<<w, i>>, cursor)
      <4>1. w \in 1 .. cursor[1]
        BY <3>1, <1>2, <1>3 DEF Before
      <4>2. QED
        BY <3>1, <4>1 DEF CursorInWindow
    <3>2. CASE <<w, i>> = cursor
      BY <3>2, <1>2
    <3>3. QED
      BY <1>3, <1>5, <2>2, <3>1, <3>2
  <2>3. CASE i # k
    <3>1. /\ finalizedUpTo'[i] = finalizedUpTo[i]
          /\ blocks'[i] = blocks[i] /\ gaps'[i] = gaps[i] /\ fed'[i] = fed[i]
      BY <1>1, <2>3 DEF TypeOK
    <3>2. Window(i)'
      BY <1>1, <3>1 DEF Window
    <3>3. \A w \in Nat : <<w, i>> # cursor
      BY <1>2, <2>3
    <3>4. CursorInWindow(i)'
      BY <1>5, <2>1, <2>2, <3>1, <3>3 DEF CursorInWindow
    <3>5. QED
      BY <3>2, <3>4
  <2>4. CASE i = k
    <3>1. /\ finalizedUpTo'[k] = v /\ fed'[k] = fed[k]
          /\ blocks'[k] = { w \in blocks[k] : w > v }
          /\ gaps'[k] = { w \in gaps[k] : w > v }
      BY <1>1, <1>2 DEF TypeOK
    <3>2. Window(k)'
      <4>1. blocks'[k] = { w \in chain[k] : v < w /\ w <= fed[k] }
        BY <3>1, <2>1, <2>4, <1>1, <1>2 DEF Window
      <4>2. fed[k] = v \/ fed[k] \in blocks'[k]
        BY <4>1, <1>2, <2>1, <2>4 DEF Window
      <4>3. \A w \in gaps'[k] : v < w /\ w <= fed[k] /\ w \notin chain[k]
        BY <3>1, <2>1, <2>4, <1>2 DEF Window
      <4>4. fed[k] \in chain[k] \cup {0}
        BY DEF Window
      <4>5. QED
        BY <1>1, <1>2, <3>1, <4>1, <4>2, <4>3, <4>4 DEF Window
    <3>3. Before(<<v, k>>, cursor')
      BY <1>2, <1>5
    <3>4. \A w \in blocks'[k] : ~Before(<<w, k>>, cursor')
      <4> TAKE w \in blocks'[k]
      <4>1. w \in blocks[k] /\ w > v /\ w \in Nat
        BY <3>1, <2>1, <2>4
      <4>2. <<w, k>> # cursor
        BY <4>1, <1>2
      <4>3. CursorInWindow(k)
        OBVIOUS
      <4>4. ~Before(<<w, k>>, cursor)
        BY <4>1, <4>3 DEF CursorInWindow
      <4>5. QED
        BY <4>1, <4>2, <4>4, <1>2, <1>5
    <3>5. CursorInWindow(k)'
      BY <1>1, <1>2, <2>2, <2>4, <3>1, <3>3, <3>4 DEF CursorInWindow
    <3>6. QED
      BY <2>4, <3>2, <3>5
  <2>5. QED
    BY <2>3, <2>4
<1>7. Logged' = Logged \cup {cursor}
  BY <1>1, <1>2 DEF Logged, TypeOK
<1>8. LogIsBlocksBelowCursor'
  <2>1. \A d \in Cell : Before(d, cursor') <=> Before(d, cursor) \/ d = cursor
    BY <1>1, AdvanceIsNextCell DEF TypeOK
  <2>2. cursor \in Blocks(chain)
    BY <1>2 DEF Blocks
  <2>3. Logged = { d \in Blocks(chain) : Before(d, cursor) }
    BY DEF LogIsBlocksBelowCursor
  <2>4. Blocks(chain)' = Blocks(chain) /\ Blocks(chain) \subseteq Cell
    BY <1>1 DEF Blocks
  <2>5. QED
    BY <1>7, <2>1, <2>2, <2>3, <2>4 DEF LogIsBlocksBelowCursor
<1>9. LogStrictlyOrdered'
  <2>1. ASSUME NEW j \in 1 .. Len(log) PROVE Before(log[j], cursor)
    <3>1. log[j] \in Logged
      BY DEF Logged
    <3>2. QED
      BY <3>1 DEF LogIsBlocksBelowCursor
  <2>2. /\ Len(log') = Len(log) + 1 /\ Len(log) \in Nat
        /\ \A j \in 1 .. Len(log) : log'[j] = log[j]
        /\ log'[Len(log) + 1] = cursor
    BY <1>1, <1>2 DEF TypeOK
  <2>3. ASSUME NEW j \in 1 .. Len(log'), NEW l \in 1 .. Len(log'), j < l
        PROVE  Before(log'[j], log'[l])
    <3>1. j \in 1 .. Len(log)
      BY <2>2, <2>3
    <3>2. CASE l \in 1 .. Len(log)
      BY <2>2, <2>3, <3>1, <3>2 DEF LogStrictlyOrdered
    <3>3. CASE l = Len(log) + 1
      BY <2>1, <2>2, <3>1, <3>3
    <3>4. QED
      BY <2>2, <3>2, <3>3
  <2>4. QED
    BY <2>3 DEF LogStrictlyOrdered
<1>10. QED
  BY <1>1, <1>4, <1>6, <1>8, <1>9 DEF WaitsOnlyForLaggard

\* PassSettledCell meets a None entry; the branch for cells at or below
\* finalizedUpTo is never taken.
LEMMA PassSettledCellIInv ==
  ASSUME IInv, PassSettledCell
  PROVE  IInv'
<1> USE DEF IInv
<1>0. PICK v \in Nat \ {0}, k \in Inst : cursor = <<v, k>>
  BY DEF TypeOK
<1>1. /\ pc = "drain" /\ cursor' = Advance(cursor)
      /\ Settled(v, k)
      /\ gaps' = IF v <= finalizedUpTo[k] THEN gaps
                 ELSE [gaps EXCEPT ![k] = @ \ {v}]
      /\ UNCHANGED <<chain, fed, blocks, finalizedUpTo, pc, log>>
  BY <1>0 DEF PassSettledCell
<1>2. ~(v <= finalizedUpTo[k])
  <2>1. /\ finalizedUpTo[k] = 0 \/ Before(<<finalizedUpTo[k], k>>, cursor)
        /\ finalizedUpTo[k] \in Nat /\ k \in Nat
    BY DEF CursorInWindow, TypeOK, Inst
  <2>2. QED
    BY <1>0, <2>1 DEF Before
<1>3. v \in gaps[k] /\ gaps' = [gaps EXCEPT ![k] = @ \ {v}]
  BY <1>1, <1>2 DEF Settled
<1>4. Window(k)
  OBVIOUS
<1>5. v <= fed[k] /\ v \notin chain[k] /\ v \notin blocks[k]
  BY <1>3, <1>4 DEF Window
<1>6. /\ cursor' \in (Nat \ {0}) \X Inst
      /\ \A i \in Inst : CursorInWindow(i)'
      /\ LogIsBlocksBelowCursor' /\ LogStrictlyOrdered' /\ WaitsOnlyForLaggard'
  BY <1>0, <1>1, <1>5, PassingACell
<1>7. TypeOK'
  BY <1>1, <1>3, <1>6 DEF TypeOK
<1>8. ASSUME NEW i \in Inst PROVE Window(i)'
  <2>1. \A w \in gaps'[i] : w \in gaps[i]
    BY <1>3 DEF TypeOK
  <2>2. Window(i)
    OBVIOUS
  <2>3. QED
    BY <1>1, <2>1, <2>2 DEF Window
<1>9. QED
  BY <1>6, <1>7, <1>8

\* PassSkippedCell: a later view of the instance is queued, and its blocks
\* arrive in view order, so the view under the cursor holds no block.
LEMMA PassSkippedCellIInv ==
  ASSUME IInv, PassSkippedCell
  PROVE  IInv'
<1> USE DEF IInv
<1>0. PICK v \in Nat \ {0}, k \in Inst : cursor = <<v, k>>
  BY DEF TypeOK
<1>1. /\ pc = "drain" /\ cursor' = Advance(cursor)
      /\ ~(v <= finalizedUpTo[k]) /\ v \notin gaps[k] /\ v \notin blocks[k]
      /\ gaps' = [gaps EXCEPT ![k] = @ \cup {v}]
      /\ UNCHANGED <<chain, fed, blocks, finalizedUpTo, pc, log>>
  BY <1>0 DEF PassSkippedCell, Unknown, Settled
<1>2. PICK h \in blocks[k] \cup gaps[k] : h > v
  BY <1>0 DEF PassSkippedCell, HasHigherView, Keys
<1>3. Window(k)
  OBVIOUS
<1>4. /\ fed[k] \in Nat /\ finalizedUpTo[k] \in Nat
      /\ \A w \in blocks[k] \cup gaps[k] : w \in Nat
  BY ViewsAssumption DEF TypeOK
<1>5. h <= fed[k]
  BY <1>2, <1>3, <1>4 DEF Window
<1>6. v <= fed[k] /\ finalizedUpTo[k] < v
  BY <1>1, <1>2, <1>4, <1>5
<1>7. v \notin chain[k]
  BY <1>1, <1>3, <1>6 DEF Window
<1>8. /\ cursor' \in (Nat \ {0}) \X Inst
      /\ \A i \in Inst : CursorInWindow(i)'
      /\ LogIsBlocksBelowCursor' /\ LogStrictlyOrdered' /\ WaitsOnlyForLaggard'
  BY <1>0, <1>1, <1>6, PassingACell
<1>9. TypeOK'
  BY <1>1, <1>8 DEF TypeOK
<1>10. ASSUME NEW i \in Inst PROVE Window(i)'
  <2>1. \A w \in gaps'[i] : w \in gaps[i] \/ (w = v /\ i = k)
    BY <1>1 DEF TypeOK
  <2>2. Window(i)
    OBVIOUS
  <2>3. \A w \in gaps'[i] : finalizedUpTo[i] < w /\ w <= fed[i] /\ w \notin chain[i]
    BY <1>6, <1>7, <2>1, <2>2 DEF Window
  <2>4. QED
    BY <1>1, <2>2, <2>3 DEF Window
<1>11. QED
  BY <1>8, <1>9, <1>10

\* Await: with nothing queued at or above the cursor, the latest block
\* delivered for the cursor's instance is below it.
LEMMA AwaitIInv ==
  ASSUME IInv, Await
  PROVE  IInv'
<1> USE DEF IInv
<1>0. PICK v \in Nat \ {0}, k \in Inst : cursor = <<v, k>>
  BY DEF TypeOK
<1>1. /\ ~(v <= finalizedUpTo[k]) /\ v \notin gaps[k] /\ v \notin blocks[k]
      /\ \A w \in blocks[k] \cup gaps[k] : ~(w > v)
      /\ pc' = "recv"
      /\ UNCHANGED <<chain, fed, blocks, gaps, finalizedUpTo, cursor, log>>
  BY <1>0 DEF Await, Unknown, Settled, HasHigherView, Keys
<1>2. fed[k] \in Nat /\ finalizedUpTo[k] \in Nat
  BY DEF TypeOK
<1>3. fed[k] = finalizedUpTo[k] \/ fed[k] \in blocks[k]
  BY DEF Window
<1>4. fed[k] < v
  BY <1>1, <1>2, <1>3
<1>5. WaitsOnlyForLaggard'
  BY <1>0, <1>1, <1>4 DEF WaitsOnlyForLaggard
<1>6. TypeOK'
  BY <1>1 DEF TypeOK
<1>7. \A i \in Inst : Window(i)' /\ CursorInWindow(i)'
  BY <1>1 DEF Window, CursorInWindow
<1>8. LogIsBlocksBelowCursor' /\ LogStrictlyOrdered'
  BY <1>1 DEF LogIsBlocksBelowCursor, LogStrictlyOrdered, Logged, Blocks
<1>9. QED
  BY <1>5, <1>6, <1>7, <1>8

\* Every step of the thread keeps the inductive invariant.
THEOREM NextIInv == IInv /\ [Next]_vars => IInv'
<1> SUFFICES ASSUME IInv, [Next]_vars PROVE IInv'
  OBVIOUS
<1>1. CASE \E i \in Inst : Receive(i)
  BY <1>1, ReceiveIInv
<1>2. CASE FinalizeCell
  BY <1>2, FinalizeCellIInv
<1>3. CASE PassSettledCell
  BY <1>3, PassSettledCellIInv
<1>4. CASE PassSkippedCell
  BY <1>4, PassSkippedCellIInv
<1>5. CASE Await
  BY <1>5, AwaitIInv
<1>6. CASE UNCHANGED vars
  BY <1>6 DEF vars, IInv, TypeOK, Window, CursorInWindow, LogIsBlocksBelowCursor,
              LogStrictlyOrdered, WaitsOnlyForLaggard, Logged, Blocks
<1>7. QED
  BY <1>1, <1>2, <1>3, <1>4, <1>5, <1>6 DEF Next, Drain

\* The inductive invariant holds of every behaviour.
THEOREM SpecIInv == Spec => []IInv
  BY InitIInv, NextIInv, PTL DEF Spec
-----------------------------------------------------------------------------
\* Every variable of the thread keeps its type.
THEOREM TypeCorrect == Spec => []TypeOK
<1>1. IInv => TypeOK
  BY DEF IInv
<1>2. QED
  BY <1>1, SpecIInv, PTL

\* The global log is exactly the set of finalized blocks the cursor has gone
\* past, none skipped and none invented, strictly ordered by (view, instance).
THEOREM LogComplete == Spec => []LogIsGlobalOrder
<1>1. IInv => LogIsGlobalOrder
  BY DEF IInv, LogIsGlobalOrder
<1>2. QED
  BY <1>1, SpecIInv, PTL

\* The thread waits only for an instance that is behind the cursor.
THEOREM WaitsForLaggard == Spec => []WaitsOnlyForLaggard
<1>1. IInv => WaitsOnlyForLaggard
  BY DEF IInv
<1>2. QED
  BY <1>1, SpecIInv, PTL

\* No queue entry survives at or below finalizedUpTo, none is ahead of the
\* latest delivered block.
THEOREM QueueBounded == Spec => []QueueWithinWindow
<1>1. IInv => QueueWithinWindow
  <2> SUFFICES ASSUME IInv, NEW i \in Inst, NEW v \in Keys(i)
               PROVE  finalizedUpTo[i] < v /\ v <= fed[i]
    BY DEF QueueWithinWindow
  <2>1. Window(i)
    BY DEF IInv
  <2>2. QED
    BY <2>1 DEF Window, Keys
<1>2. QED
  BY <1>1, SpecIInv, PTL

\* No block ever reaches the thread for a cell the cursor has gone past.
THEOREM NoLateBlock == Spec => NoBlockBehindCursor
<1>1. ASSUME IInv, [Next]_vars
      PROVE  [\A i \in Inst : fed'[i] # fed[i] => ~Before(<<fed'[i], i>>, cursor)]_vars
  <2> USE <1>1 DEF IInv
  <2>1. CASE \E k \in Inst : Receive(k)
    <3>1. PICK k \in Inst : Receive(k)
      BY <2>1
    <3>2. PICK v \in chain[k] :
            NextToFeed(k, v) /\ fed' = [fed EXCEPT ![k] = v]
      BY <3>1 DEF Receive, Enqueue
    <3>3. /\ v \in Nat \ {0} /\ fed[k] \in Nat /\ fed[k] < v
          /\ CursorInWindow(k) /\ cursor \in (Nat \ {0}) \X Inst
      BY <3>2, ViewsAssumption DEF NextToFeed, TypeOK, Chains
    <3>4. ~Before(<<v, k>>, cursor)
      <4>1. CASE v \in 1 .. cursor[1]
        <5>1. Before(<<v, k>>, cursor) => v <= fed[k]
          BY <3>3, <4>1 DEF CursorInWindow
        <5>2. QED
          BY <5>1, <3>3
      <4>2. CASE cursor[1] < v
        BY <4>2, <3>3 DEF Before
      <4>3. QED
        BY <3>3, <4>1, <4>2
    <3>5. ASSUME NEW i \in Inst, fed'[i] # fed[i]
          PROVE  ~Before(<<fed'[i], i>>, cursor)
      BY <3>2, <3>4, <3>5 DEF TypeOK
    <3>6. QED
      BY <3>5
  <2>2. CASE Drain \/ UNCHANGED vars
    BY <2>2 DEF Drain, FinalizeCell, FinalizeBlockAtView, PassSettledCell, PassSkippedCell, Await, vars
  <2>3. QED
    BY <1>1, <2>1, <2>2 DEF Next
<1>2. QED
  BY <1>1, SpecIInv, PTL DEF Spec, NoBlockBehindCursor

\* The thread implements GlobalOrder: FinalizeCell appends the least block
\* not yet in the log, every other step leaves the log alone.
THEOREM Refinement == Spec => ImplementsGlobalOrder
<1> USE DEF Abstract!Cell, Abstract!Before, Abstract!Blocks, Abstract!Logged,
            Abstract!Chains, Abstract!Inst, Cell, Blocks, Logged, Chains, Inst
<1>1. Init => Abstract!Init
  BY DEF Init, Abstract!Init
<1>2. ASSUME IInv, [Next]_vars
      PROVE  [Abstract!Next]_Abstract!vars
  <2> USE <1>2
  <2>1. CASE FinalizeCell
    <3>1. PICK v \in Nat \ {0}, k \in Inst : cursor = <<v, k>>
      BY DEF IInv, TypeOK
    <3>2. v \in blocks[k] /\ log' = Append(log, cursor) /\ UNCHANGED chain
      BY <2>1, <3>1 DEF FinalizeCell, FinalizeBlockAtView
    <3>3. v \in chain[k] /\ v \in Views
      BY <3>2 DEF IInv, Window, TypeOK
    <3>4. cursor \in Cell /\ cursor \in Blocks(chain)
      BY <3>1, <3>3
    <3>5. Logged = { c \in Blocks(chain) : Before(c, cursor) }
      BY DEF IInv, LogIsBlocksBelowCursor
    <3>6. ~Before(cursor, cursor)
      BY <3>1 DEF Before
    <3>7. Abstract!Append1(cursor)
      <4>1. cursor \in Abstract!Blocks(chain) /\ cursor \notin Abstract!Logged
        BY <3>4, <3>5, <3>6
      <4>2. \A d \in Abstract!Blocks(chain) :
              Abstract!Before(d, cursor) => d \in Abstract!Logged
        BY <3>5 DEF Before
      <4>3. QED
        BY <3>2, <4>1, <4>2 DEF Abstract!Append1
    <3>8. QED
      BY <3>4, <3>7 DEF Abstract!Next
  <2>2. CASE ~FinalizeCell
    BY <1>2, <2>2 DEF Next, Drain, Receive, Enqueue, PassSettledCell, PassSkippedCell,
                      Await, vars, Abstract!vars
  <2>3. QED
    BY <2>1, <2>2
<1>3. QED
  BY <1>1, <1>2, SpecIInv, PTL DEF Spec, ImplementsGlobalOrder, Abstract!Spec
-----------------------------------------------------------------------------
\* Two logs of the same chains agree, by counting: a strictly ordered log that
\* holds exactly the blocks below a cursor has at position j the block with
\* j - 1 blocks before it, and that number depends on the chains only.
CellBefore(S, c) == { d \in S : Before(d, c) }

\* A log that holds exactly the blocks of S below `cur`, strictly ordered.
OrderedLog(S, cur, l) ==
  /\ S \subseteq Cell
  /\ cur[1] \in Nat /\ cur[2] \in Nat
  /\ l \in Seq(Cell)
  /\ { l[j] : j \in 1 .. Len(l) } = CellBefore(S, cur)
  /\ \A j, k \in 1 .. Len(l) : j < k => Before(l[j], l[k])

\* A cell is a pair of numbers.
LEMMA CellIsTwoNumbers ==
  ASSUME NEW d \in Cell
  PROVE  d = <<d[1], d[2]>> /\ d[1] \in Nat /\ d[2] \in Nat
  BY CellIsPair, InstancesAssumption DEF Inst

\* Before is a strict total order on cells.
LEMMA BeforeIsTotalOrder ==
  ASSUME NEW c, NEW d, NEW e,
         c[1] \in Nat, c[2] \in Nat, d[1] \in Nat, d[2] \in Nat,
         e[1] \in Nat, e[2] \in Nat
  PROVE  /\ ~Before(c, c)
         /\ Before(c, d) => ~Before(d, c)
         /\ Before(c, d) /\ Before(d, e) => Before(c, e)
         /\ Before(c, d) \/ Before(d, c) \/ (c[1] = d[1] /\ c[2] = d[2])
  BY DEF Before

\* Such a log has at position j the block that j - 1 blocks of S come before.
LEMMA Position ==
  ASSUME NEW S, NEW cur, NEW l, OrderedLog(S, cur, l), NEW j \in 1 .. Len(l)
  PROVE  /\ IsFiniteSet(CellBefore(S, l[j]))
         /\ Cardinality(CellBefore(S, l[j])) = j - 1
<1> USE DEF OrderedLog
<1> DEFINE T == CellBefore(S, l[j])
           f == [k \in 1 .. j - 1 |-> l[k]]
<1>1. Len(l) \in Nat /\ j \in Nat /\ j - 1 \in Int /\ 1 .. j - 1 \subseteq 1 .. Len(l)
  OBVIOUS
<1>2. ASSUME NEW k \in 1 .. Len(l)
      PROVE  /\ l[k] \in S /\ Before(l[k], cur)
             /\ l[k] = <<l[k][1], l[k][2]>> /\ l[k][1] \in Nat /\ l[k][2] \in Nat
  <2>1. l[k] \in CellBefore(S, cur)
    OBVIOUS
  <2>2. QED
    BY <2>1, CellIsTwoNumbers DEF CellBefore
<1>3. ASSUME NEW k \in 1 .. j - 1 PROVE l[k] \in T
  BY <1>1, <1>2 DEF CellBefore
<1>4. ASSUME NEW d \in T PROVE \E k \in 1 .. j - 1 : l[k] = d
  <2>1. d \in S /\ Before(d, l[j]) /\ d[1] \in Nat /\ d[2] \in Nat
    BY CellIsTwoNumbers DEF CellBefore
  <2>2. Before(d, cur)
    BY <1>2, <2>1, BeforeIsTotalOrder
  <2>3. d \in CellBefore(S, cur)
    BY <2>1, <2>2 DEF CellBefore
  <2>4. PICK k \in 1 .. Len(l) : l[k] = d
    BY <2>3
  <2>5. ~Before(l[j], l[k])
    BY <1>2, <2>1, <2>4, BeforeIsTotalOrder
  <2>6. k # j
    BY <1>2, <2>1, <2>4, BeforeIsTotalOrder
  <2>7. k < j
    BY <1>1, <2>5, <2>6
  <2>8. QED
    BY <1>1, <2>4, <2>7
<1>5. f \in Bijection(1 .. j - 1, T)
  <2>1. f \in [1 .. j - 1 -> T]
    BY <1>3
  <2>2. ASSUME NEW k \in 1 .. j - 1, NEW m \in 1 .. j - 1, f[k] = f[m]
        PROVE  k = m
    <3>1. l[k] = l[m]
      BY <2>2
    <3>2. ~(k < m) /\ ~(m < k)
      BY <1>1, <1>2, <3>1, BeforeIsTotalOrder
    <3>3. QED
      BY <3>2
  <2>3. \A d \in T : \E k \in 1 .. j - 1 : f[k] = d
    BY <1>4
  <2>4. QED
    BY <2>1, <2>2, <2>3 DEF Bijection, Injection, Surjection, IsInjective
<1>6. IsFiniteSet(1 .. j - 1) /\ Cardinality(1 .. j - 1) = j - 1
  <2>1. /\ IsFiniteSet(1 .. j - 1)
        /\ Cardinality(1 .. j - 1) = IF 1 > j - 1 THEN 0 ELSE j - 1 - 1 + 1
    BY <1>1, 1 \in Int, FS_Interval
  <2>2. (IF 1 > j - 1 THEN 0 ELSE j - 1 - 1 + 1) = j - 1
    BY <1>1
  <2>3. QED
    BY <2>1, <2>2
<1>7. ExistsBijection(1 .. j - 1, T)
  BY <1>5 DEF ExistsBijection
<1>8. QED
  BY <1>6, <1>7, FS_Bijection

\* Of two blocks, the later one has more blocks before it.
LEMMA MoreBeforeLater ==
  ASSUME NEW S \in SUBSET Cell, NEW c \in S, NEW d \in S, Before(c, d),
         IsFiniteSet(CellBefore(S, c)), IsFiniteSet(CellBefore(S, d))
  PROVE  Cardinality(CellBefore(S, c)) # Cardinality(CellBefore(S, d))
<1> DEFINE X == CellBefore(S, c)
           Y == CellBefore(S, d)
<1>1. /\ c[1] \in Nat /\ c[2] \in Nat /\ d[1] \in Nat /\ d[2] \in Nat
  BY CellIsTwoNumbers
<1>2. ASSUME NEW e \in X PROVE e \in Y
  <2>1. e \in S /\ Before(e, c) /\ e[1] \in Nat /\ e[2] \in Nat
    BY CellIsTwoNumbers DEF CellBefore
  <2>2. Before(e, d)
    BY <1>1, <2>1, BeforeIsTotalOrder
  <2>3. QED
    BY <2>1, <2>2 DEF CellBefore
<1>3. c \in Y /\ c \notin X
  BY <1>1, BeforeIsTotalOrder DEF CellBefore
<1>4. X \in SUBSET Y /\ X # Y
  BY <1>2, <1>3
<1>5. QED
  BY <1>4, FS_Subset

\* Two such logs over the same blocks agree wherever both are defined.
LEMMA SamePosition ==
  ASSUME NEW S, NEW p, NEW q, NEW l, NEW m,
         OrderedLog(S, p, l), OrderedLog(S, q, m),
         NEW j \in 1 .. Len(l), j \in 1 .. Len(m)
  PROVE  l[j] = m[j]
<1> DEFINE X == CellBefore(S, l[j])
           Y == CellBefore(S, m[j])
<1>1. IsFiniteSet(X) /\ Cardinality(X) = j - 1
  BY Position
<1>2. IsFiniteSet(Y) /\ Cardinality(Y) = j - 1
  BY Position
<1>3. l[j] \in S /\ m[j] \in S /\ S \subseteq Cell
  BY DEF OrderedLog, CellBefore
<1>4. /\ l[j] = <<l[j][1], l[j][2]>> /\ l[j][1] \in Nat /\ l[j][2] \in Nat
      /\ m[j] = <<m[j][1], m[j][2]>> /\ m[j][1] \in Nat /\ m[j][2] \in Nat
  BY <1>3, CellIsTwoNumbers
<1>5. ~Before(l[j], m[j]) /\ ~Before(m[j], l[j])
  BY <1>1, <1>2, <1>3, MoreBeforeLater
<1>6. QED
  BY <1>4, <1>5, BeforeIsTotalOrder

\* One of two such logs is a prefix of the other (IsPrefix of SequencesExt,
\* written out).
LEMMA SameLog ==
  ASSUME NEW S, NEW p, NEW q, NEW l, NEW m,
         OrderedLog(S, p, l), OrderedLog(S, q, m)
  PROVE  \/ Len(l) <= Len(m) /\ SubSeq(l, 1, Len(l)) = SubSeq(m, 1, Len(l))
         \/ Len(m) <= Len(l) /\ SubSeq(m, 1, Len(m)) = SubSeq(l, 1, Len(m))
<1>1. l \in Seq(Cell) /\ m \in Seq(Cell)
  BY DEF OrderedLog
<1>2. ASSUME NEW j \in 1 .. Len(l), j \in 1 .. Len(m)
      PROVE  l[j] = m[j]
  BY <1>2, SamePosition
<1>3. Len(l) \in Nat /\ Len(m) \in Nat
  BY <1>1
<1>4. CASE Len(l) <= Len(m)
  <2>1. SubSeq(l, 1, Len(l)) = SubSeq(m, 1, Len(l))
    BY <1>1, <1>2, <1>3, <1>4
  <2>2. QED
    BY <1>4, <2>1
<1>5. CASE Len(m) <= Len(l)
  <2>1. SubSeq(m, 1, Len(m)) = SubSeq(l, 1, Len(m))
    BY <1>1, <1>2, <1>3, <1>5
  <2>2. QED
    BY <1>5, <2>1
<1>6. QED
  BY <1>3, <1>4, <1>5

\* The log of the thread is such a log.
LEMMA LogIsOrdered == IInv => OrderedLog(Blocks(chain), cursor, log)
<1> SUFFICES ASSUME IInv PROVE OrderedLog(Blocks(chain), cursor, log)
  OBVIOUS
<1>1. cursor[1] \in Nat /\ cursor[2] \in Nat /\ log \in Seq(Cell)
  BY InstancesAssumption DEF IInv, TypeOK, Inst
<1>2. Blocks(chain) \subseteq Cell
  BY DEF Blocks
<1>3. { log[j] : j \in 1 .. Len(log) } = CellBefore(Blocks(chain), cursor)
  BY DEF IInv, LogIsBlocksBelowCursor, Logged, CellBefore
<1>4. \A j, k \in 1 .. Len(log) : j < k => Before(log[j], log[k])
  BY DEF IInv, LogStrictlyOrdered
<1>5. QED
  BY <1>1, <1>2, <1>3, <1>4 DEF OrderedLog
=============================================================================
