---------------------------- MODULE Reservations ----------------------------
(***************************************************************************)
(* What the control service promises clients that ask for one thing at a   *)
(* time under each key and give no ttl: a reservation is granted in one    *)
(* step, against all the budget of its case that is held or committed at   *)
(* that moment, and is settled once.  No transactions, locks or failures.  *)
(***************************************************************************)
EXTENDS Totals

CONSTANTS Keys, Cases, Amounts, Authorized

VARIABLE holds      \* the reservations there are, each under a key of its own

Row(k, c, n, state) == [key |-> k, case |-> c, amount |-> n, state |-> state]

ReservationsInit == holds = {}

IsNew(k) == \A h \in holds : h.key # k

Budgeted(c) == {h \in holds : h.case = c /\ h.state \in {"HELD", "COMMITTED"}}
Fits(c, n) == Total([h \in Budgeted(c) |-> h.amount], Budgeted(c)) + n <= Authorized

Take(k, c, n) ==
    /\ IsNew(k) /\ Fits(c, n)
    /\ holds' = holds \cup {Row(k, c, n, "HELD")}

Settle(h, state) == holds' = (holds \ {h}) \cup {[h EXCEPT !.state = state]}

Release(h) == h.state = "HELD" /\ Settle(h, "RELEASED")
Commit(h) == h.state # "RELEASED" /\ Settle(h, "COMMITTED")

ReservationsNext ==
    \/ \E k \in Keys, c \in Cases, n \in Amounts : Take(k, c, n)
    \/ \E h \in holds : Release(h) \/ Commit(h)

ReservationsSpec == ReservationsInit /\ [][ReservationsNext]_holds
=============================================================================
