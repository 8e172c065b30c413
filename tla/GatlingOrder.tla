---------------------------- MODULE GatlingOrder ----------------------------
(***************************************************************************)
(* The matrix of Gatling: K consensus instances (rows) by views (columns). *)
(* The global order is lexicographic in (view, instance).  Instances are   *)
(* 0-based as in gatling_thread (`instance_idx = event.instance_id - 1`).  *)
(***************************************************************************)
EXTENDS Naturals

CONSTANTS
  K,        \* number of consensus instances (num_instances)
  Views     \* the views the consensus instances may reach

ASSUME InstancesAssumption == K \in Nat \ {0}
ASSUME ViewsAssumption == Views \subseteq Nat \ {0}

Inst == 0 .. K - 1

\* A cell of the matrix; a block finalized by instance i at view v sits at
\* the cell <<v, i>>.
Cell == Views \X Inst

Before(c, d) ==
  \/ c[1] < d[1]
  \/ c[1] = d[1] /\ c[2] < d[2]

\* What consensus decides: for each instance the set of views at which one
\* of its blocks is finalized.  The set is the same on every validator.
Chains == [Inst -> SUBSET Views]

Blocks(views) == { c \in Cell : c[1] \in views[c[2]] }

\* Mutant of Advance: the last instance is not recognised as the last.
AdvancePastLast(c) ==
  IF c[2] + 1 > K THEN <<c[1] + 1, 0>> ELSE <<c[1], c[2] + 1>>

\* advance_cursor: next instance, and the next view after the last instance.
Advance(c) ==
  IF c[2] + 1 >= K THEN <<c[1] + 1, 0>> ELSE <<c[1], c[2] + 1>>
=============================================================================
