--------------------------- MODULE MCCoordinator ---------------------------
(***************************************************************************)
(* The instances of Coordinator that TLC checks.                           *)
(***************************************************************************)
EXTENDS Coordinator, TLC

CONSTANTS A, B, X,      \* two actors of the schedule and a stranger
          cp, s1, s2,
          q1, q2, q3, o1, o2, o3

\* B's checkpoint loses its acknowledgement in
\* the first run only.
MCSteps == <<<<A, cp>>, <<B, cp>>>>
MCArrivable == {<<A, cp>>, <<B, cp>>, <<X, cp>>}
MCIdOf == [g \in Runs |-> IF g = 2 THEN s2 ELSE s1]
MCFaultsOf == [g \in Runs |-> IF g = 1 THEN {<<<<B, cp>>, 0>>} ELSE {}]

\* Two requests meet two operations, and one request meets three.
Taken == {q \in Requests : pc[q] # "idle"} \cup {o \in Ops : opPc[o] # "idle"}
AtMostFour == Cardinality(Taken) <= 4

MCSymmetry == Permutations(Requests) \cup Permutations(Ops)
=============================================================================
