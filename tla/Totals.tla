------------------------------- MODULE Totals -------------------------------
(***************************************************************************)
(* SELECT sum(amount): the total of some amounts, in whole units of money. *)
(* A total is how many units there are, counted one by one, and not a fold *)
(* over the rows: that lets theorems about cardinalities speak of money.   *)
(***************************************************************************)
EXTENDS Integers, FiniteSets

\* Each unit of each amount, amount being a function of what is summed over.
UnitsOf(amount, S) == UNION {{x} \X (1..amount[x]) : x \in S}

Total(amount, S) == Cardinality(UnitsOf(amount, S))
=============================================================================
