------------------------------ MODULE Effects ------------------------------
(***************************************************************************)
(* What Billing and Ledger promise, each with a database of its own: an    *)
(* effect appears together with the event that announces it, under an      *)
(* idempotency key no other effect has, is never forgotten and at most     *)
(* voided; its event stays on the outbox, where it is marked as applied    *)
(* and may be offered again.  No transactions, no logs, no failures.       *)
(***************************************************************************)
EXTENDS Integers

CONSTANTS
    Services,   \* the services that own effects
    Requests,   \* requests to create one; they also name the effects
    Cases, Keys,
    EventIds    \* what a service may number its events with

VARIABLES
    effects,    \* per service: rows of refunds or credits
    outbox      \* per service: published events

effectVars == <<effects, outbox>>

Rows == [id : Requests, key : Keys, case : Cases, state : {"COMMITTED", "VOIDED"}]
Events == [id : EventIds, entity : Requests, case : Cases, applied : BOOLEAN]

EffectsInit ==
    /\ effects = [s \in Services |-> {}]
    /\ outbox = [s \in Services |-> {}]

\* An effect and its event, in one transaction.
CreateEffect(s, r, k, c, i) ==
    /\ \A e \in effects[s] : e.id # r /\ e.key # k
    /\ \A v \in outbox[s] : v.id # i
    /\ effects' = [effects EXCEPT ![s] = @ \cup
            {[id |-> r, key |-> k, case |-> c, state |-> "COMMITTED"]}]
    /\ outbox' = [outbox EXCEPT ![s] = @ \cup
            {[id |-> i, entity |-> r, case |-> c, applied |-> FALSE]}]

\* Voiding publishes nothing.
VoidEffect(s, e) ==
    /\ e \in effects[s]
    /\ effects' = [effects EXCEPT ![s] = (@ \ {e}) \cup {[e EXCEPT !.state = "VOIDED"]}]
    /\ UNCHANGED outbox

MarkApplied(s, v) ==
    /\ v \in outbox[s]
    /\ outbox' = [outbox EXCEPT ![s] = (@ \ {v}) \cup {[v EXCEPT !.applied = TRUE]}]
    /\ UNCHANGED effects

\* Every event of the case is offered again.
Redeliver(s, c) ==
    /\ outbox' = [outbox EXCEPT ![s] =
            {IF v.case = c THEN [v EXCEPT !.applied = FALSE] ELSE v : v \in @}]
    /\ UNCHANGED effects

StoreNext(s) ==
    \/ \E r \in Requests, k \in Keys, c \in Cases, i \in EventIds : CreateEffect(s, r, k, c, i)
    \/ \E e \in effects[s] : VoidEffect(s, e)
    \/ \E v \in outbox[s] : MarkApplied(s, v)
    \/ \E c \in Cases : Redeliver(s, c)

EffectsNext == \E s \in Services : StoreNext(s)

EffectsSpec == EffectsInit /\ [][EffectsNext]_effectVars
=============================================================================
