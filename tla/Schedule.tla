------------------------------ MODULE Schedule ------------------------------
(***************************************************************************)
(* The declared interleaving of a run (apps/coordinator/schedule.py): a    *)
(* sequence of steps, a step being an (actor, checkpoint) pair.  The same  *)
(* pair may be declared several times, so a step of the sequence is        *)
(* identified by its key: the pair and the occurrence it is of that pair.  *)
(* This module is the immutable part of class Schedule; its pointer and    *)
(* arrival counters are variables of Barrier.                              *)
(***************************************************************************)
EXTENDS Integers, Sequences, FiniteSets

CONSTANTS
    Steps,      \* the declared sequence of (actor, checkpoint) pairs
    Arrivable   \* every pair a request may name, declared or not

ASSUME StepsAssumption == Steps \in Seq(Arrivable)

(***************************************************************************)
(* _step_occurrence: how many times the pair of step i was declared before *)
(***************************************************************************)
StepOccurrence ==
    [i \in 1..Len(Steps) |-> Cardinality({j \in 1..(i-1) : Steps[j] = Steps[i]})]

\* The key of the i-th step, and the keys a request may legally arrive with.
KeyAt(i) == <<Steps[i], StepOccurrence[i]>>
DeclaredOrder == [i \in 1..Len(Steps) |-> KeyAt(i)]
Declared == {KeyAt(i) : i \in 1..Len(Steps)}

\* The position of a declared key in the sequence.
IndexOf(k) == CHOOSE i \in 1..Len(Steps) : KeyAt(i) = k
=============================================================================
