----------------------- MODULE GatlingAgreementProofs -----------------------
(***************************************************************************)
(* Two validators never disagree on the global order: each thread keeps    *)
(* its own invariant, and two logs of the same chains agree (SameLog).     *)
(***************************************************************************)
EXTENDS GatlingAgreement, TLAPS

BothIInv == A!IInv /\ B!IInv

\* The invariant of the two validators holds at start-up.
LEMMA BothInit == Init => BothIInv
  BY A!InitIInv, B!InitIInv, InstancesAssumption, ViewsAssumption DEF Init, BothIInv

\* A step of one thread is a step of that thread's specification and a
\* stuttering step of the other's.
LEMMA StepOfBoth == [Next]_vars => [A!Next]_A!vars /\ [B!Next]_B!vars
<1>1. B!Next /\ UNCHANGED varsA => UNCHANGED A!vars
  BY DEF B!Next, B!Receive, B!Enqueue, B!Drain, B!FinalizeCell, B!PassSettledCell,
         B!FinalizeBlockAtView, B!PassSkippedCell, B!Await, varsA, A!vars
<1>2. A!Next /\ UNCHANGED varsB => UNCHANGED B!vars
  BY DEF A!Next, A!Receive, A!Enqueue, A!Drain, A!FinalizeCell, A!PassSettledCell,
         A!FinalizeBlockAtView, A!PassSkippedCell, A!Await, varsB, B!vars
<1>3. UNCHANGED vars => UNCHANGED A!vars /\ UNCHANGED B!vars
  BY DEF vars, varsA, varsB, A!vars, B!vars
<1>4. QED
  BY <1>1, <1>2, <1>3 DEF Next

\* The invariant of the two validators is inductive.
LEMMA BothNext == BothIInv /\ [Next]_vars => BothIInv'
<1>1. A!IInv /\ [A!Next]_A!vars => A!IInv'
  BY A!NextIInv, InstancesAssumption, ViewsAssumption
<1>2. B!IInv /\ [B!Next]_B!vars => B!IInv'
  BY B!NextIInv, InstancesAssumption, ViewsAssumption
<1>3. QED
  BY <1>1, <1>2, StepOfBoth DEF BothIInv

\* The two threads mean the same by an ordered log of the decided chains.
LEMMA SameNotion ==
  ASSUME NEW S, NEW p, NEW l
  PROVE  /\ A!Blocks(chain) = B!Blocks(chain)
         /\ B!OrderedLog(S, p, l) => A!OrderedLog(S, p, l)
<1>1. A!Cell = B!Cell
  BY DEF A!Cell, A!Inst, B!Cell, B!Inst
<1>2. \A c, d : A!Before(c, d) <=> B!Before(c, d)
  BY DEF A!Before, B!Before
<1>3. A!Blocks(chain) = B!Blocks(chain)
  BY <1>1 DEF A!Blocks, B!Blocks
<1>4. A!CellBefore(S, p) = B!CellBefore(S, p)
  BY <1>2 DEF A!CellBefore, B!CellBefore
<1>5. QED
  BY <1>1, <1>2, <1>3, <1>4 DEF A!OrderedLog, B!OrderedLog

\* The invariant of the two validators gives agreement.
LEMMA BothAgree == BothIInv => Agreement
<1> SUFFICES ASSUME BothIInv PROVE Agreement
  OBVIOUS
<1>1. A!OrderedLog(A!Blocks(chain), cursorA, logA)
  BY A!LogIsOrdered, InstancesAssumption, ViewsAssumption DEF BothIInv
<1>2. B!OrderedLog(B!Blocks(chain), cursorB, logB)
  BY B!LogIsOrdered, InstancesAssumption, ViewsAssumption DEF BothIInv
<1>3. A!OrderedLog(A!Blocks(chain), cursorB, logB)
  BY <1>2, SameNotion
<1>4. \/ Len(logA) <= Len(logB) /\ SubSeq(logA, 1, Len(logA)) = SubSeq(logB, 1, Len(logA))
      \/ Len(logB) <= Len(logA) /\ SubSeq(logB, 1, Len(logB)) = SubSeq(logA, 1, Len(logB))
  BY <1>1, <1>3, A!SameLog, InstancesAssumption, ViewsAssumption
<1>5. QED
  BY <1>4 DEF Agreement, IsPrefix

\* The global logs of two validators are prefixes of one another, for every
\* number of instances and every set of views.
THEOREM AgreementHolds == Spec => []Agreement
  BY BothInit, BothNext, BothAgree, PTL DEF Spec

\* The variables of both threads keep their types.
THEOREM TypesOfBoth == Spec => []TypeOK
<1>1. BothIInv => TypeOK
  BY DEF BothIInv, A!IInv, B!IInv, TypeOK
<1>2. QED
  BY BothInit, BothNext, <1>1, PTL DEF Spec
=============================================================================
