--------------------------- MODULE MCEffectStore ---------------------------
(***************************************************************************)
(* The instance of EffectStore that TLC checks.                            *)
(***************************************************************************)
EXTENDS EffectStore

CONSTANTS r1, r2, r3, kA, kB, cA, cB
=============================================================================
