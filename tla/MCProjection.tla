---------------------------- MODULE MCProjection ----------------------------
(***************************************************************************)
(* The instance of Projection that TLC checks.                             *)
(***************************************************************************)
EXTENDS Projection, TLC

CONSTANTS billing, ledger, p1, p2, r1, r2, kA, kB, cA, cB

\* Every service, as /project goes through them, or one that a schedule named.
MCOrders == {<<billing, ledger>>, <<ledger>>}

\* Neither the temporal property nor the fairness names a request or a key.
MCSymmetry == Permutations(Requests) \cup Permutations(Keys)
=============================================================================
