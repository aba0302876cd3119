----------------------------- MODULE MCBarrier -----------------------------
(***************************************************************************)
(* The instances of Barrier that TLC checks.                               *)
(***************************************************************************)
EXTENDS Barrier, TLC

CONSTANTS pA, pB, pX,       \* two declared (actor, checkpoint) pairs, one not
          c1, c2, c3, c4, c5

\* A pair declared twice, with the other pair around it: occurrences matter.
MCSteps == <<pB, pA, pA, pB>>
MCShortSteps == <<pA, pB, pA>>
MCArrivable == {pA, pB, pX}

MCSymmetry == Permutations(Calls)
=============================================================================
