-------------------------- MODULE MCReconciliation --------------------------
(***************************************************************************)
(* The instance of Reconciliation that TLC checks.                         *)
(***************************************************************************)
EXTENDS Reconciliation, TLC

CONSTANTS billing, ledger, r1, r2, kA, kB, case1

MCServiceOrder == <<billing, ledger>>
=============================================================================
