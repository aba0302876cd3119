----------------------------- MODULE Projection -----------------------------
(***************************************************************************)
(* The CRM's view of compensation (apps/crm/projector.py and the event     *)
(* source of apps/crm/main.py), fed from the outboxes of the services that *)
(* module Effects describes.  Each run of apply_pending is a projector; it *)
(* may be one of several at a time, it may die anywhere, and the services  *)
(* may offer again what was applied.  A step is one HTTP request to a      *)
(* service or one statement against the CRM's database.  The amount of an  *)
(* event is fixed, so a total is kept as how often each event is in it.    *)
(***************************************************************************)
EXTENDS Effects, Sequences

CONSTANTS
    Projectors, \* runs of apply_pending that may go on at a time
    Orders,     \* services to go through: all of them, or what projection_order says
    NoService, NoEvent

ASSUME ProjectionAssumption ==
    /\ EventIds \subseteq Nat
    /\ Orders \subseteq Seq(Services)
    /\ NoService \notin Services

VARIABLES
    appliedEvents,  \* primary keys of the table applied_events
    total,          \* compensation_projection: how often each event was added
    pc,             \* where each projector is
    case,           \* the case it is for
    todo,           \* the services it has yet to poll
    service,        \* the service whose events it applies
    batch,          \* the events of it that are left, which go in the order of their ids
    event,          \* the event at hand
    polled          \* history: everything it was handed in this run

crmVars == <<appliedEvents, total>>
projectorVars == <<pc, case, todo, service, batch, event, polled>>
vars == <<effectVars, crmVars, projectorVars>>

\* An event id is unique within its service only.
Refs == Services \X EventIds

Init ==
    /\ EffectsInit
    /\ appliedEvents = {}
    /\ total = [e \in Refs |-> 0]
    /\ pc = [p \in Projectors |-> "idle"]
    /\ case \in [Projectors -> Cases]
    /\ todo = [p \in Projectors |-> <<>>]
    /\ service = [p \in Projectors |-> NoService]
    /\ batch = [p \in Projectors |-> {}]
    /\ event = [p \in Projectors |-> NoEvent]
    /\ polled = [p \in Projectors |-> {}]

Goto(p, place) == pc' = [pc EXCEPT ![p] = place]

\* A run ends, well or with an exception; what it had in hand is gone.
End(p, outcome) ==
    /\ Goto(p, outcome)
    /\ todo' = [todo EXCEPT ![p] = <<>>]
    /\ service' = [service EXCEPT ![p] = NoService]
    /\ batch' = [batch EXCEPT ![p] = {}]
    /\ event' = [event EXCEPT ![p] = NoEvent]
    /\ UNCHANGED <<effectVars, crmVars, case, polled>>
-----------------------------------------------------------------------------
(***************************************************************************)
(* apply_pending.                                                          *)
(***************************************************************************)
Start(p, c, order) ==
    /\ pc[p] \in {"idle", "finished", "failed"}
    /\ case' = [case EXCEPT ![p] = c]
    /\ todo' = [todo EXCEPT ![p] = order]
    /\ polled' = [polled EXCEPT ![p] = {}]
    /\ Goto(p, "polling")
    /\ UNCHANGED <<effectVars, crmVars, service, batch, event>>

\* GET /events: the unapplied events of the case, by id.
Unapplied(s, c) == {v.id : v \in {w \in outbox[s] : ~w.applied /\ w.case = c}}

Poll(p) ==
    /\ pc[p] = "polling" /\ todo[p] # <<>>
    /\ LET s == Head(todo[p])
           ids == Unapplied(s, case[p]) IN
       /\ service' = [service EXCEPT ![p] = s]
       /\ batch' = [batch EXCEPT ![p] = ids]
       /\ polled' = [polled EXCEPT ![p] = @ \cup ({s} \X ids)]
    /\ todo' = [todo EXCEPT ![p] = Tail(@)]
    /\ Goto(p, "applying")
    /\ UNCHANGED <<effectVars, crmVars, case, event>>

\* The event at hand, by its primary key.
Current(p) == <<service[p], event[p]>>

\* SELECT FROM applied_events, for the next event in the order of their ids.  Keyed
\* by the id alone, one service's event would hide another's.
IdApplied(p, i) == \E e \in appliedEvents : e[2] = i
AlreadyApplied(p, i) == <<service[p], i>> \in appliedEvents

CheckApplied(p) ==
    /\ pc[p] = "applying"
    /\ \E i \in batch[p] :
        /\ \A j \in batch[p] : i <= j
        /\ event' = [event EXCEPT ![p] = i]
        /\ Goto(p, IF AlreadyApplied(p, i) THEN "marking" ELSE "inserting")
    /\ UNCHANGED <<effectVars, crmVars, case, todo, service, batch, polled>>

\* INSERT INTO applied_events: it waits for a transaction that inserts the same
\* key, and fails, and the whole run with it, if that key is there by now.
BeingInserted(p) ==
    \E q \in Projectors \ {p} : pc[q] = "folding" /\ Current(q) = Current(p)

NoPrimaryKey(p) == TRUE
KeyFree(p) == Current(p) \notin appliedEvents /\ ~BeingInserted(p)

InsertApplied(p) ==
    /\ pc[p] = "inserting" /\ KeyFree(p)
    /\ Goto(p, "folding")
    /\ UNCHANGED <<effectVars, crmVars, case, todo, service, batch, event, polled>>

InsertFails(p) ==
    /\ pc[p] = "inserting" /\ Current(p) \in appliedEvents
    /\ End(p, "failed")

\* The upsert adds to the total there is, and the transaction commits.
Fold(p) ==
    /\ pc[p] = "folding"
    /\ total' = [total EXCEPT ![Current(p)] = @ + 1]
    /\ appliedEvents' = appliedEvents \cup {Current(p)}
    /\ Goto(p, "marking")
    /\ UNCHANGED <<effectVars, case, todo, service, batch, event, polled>>

\* POST /events/{id}/applied, then the next event.
MarkedFirst == {"inserting", "folding", "marking"}
MarkedLast == {"marking"}

NothingLeftOut(p) == batch[p]
RestOf(p) == batch[p] \ {event[p]}

Mark(p) ==
    /\ pc[p] \in MarkedLast
    /\ \E v \in outbox[service[p]] :
        v.id = event[p] /\ MarkApplied(service[p], v)
    /\ batch' = [batch EXCEPT ![p] = RestOf(p)]
    /\ event' = [event EXCEPT ![p] = NoEvent]
    /\ Goto(p, "applying")
    /\ UNCHANGED <<crmVars, case, todo, service, polled>>

\* A service is done with; so is the run, after the last.
NextService(p) ==
    /\ pc[p] = "applying" /\ batch[p] = {}
    /\ Goto(p, "polling")
    /\ UNCHANGED <<effectVars, crmVars, case, todo, service, batch, event, polled>>

Finish(p) ==
    /\ pc[p] = "polling" /\ todo[p] = <<>>
    /\ End(p, "finished")

Underway(p) == pc[p] \in {"polling", "applying", "inserting", "folding", "marking"}

\* The projector dies, or a service or a checkpoint lets it down: its open
\* transaction is rolled back.
Fail(p) ==
    /\ Underway(p)
    /\ End(p, "failed")
-----------------------------------------------------------------------------
\* What the services do besides, a request being made to one of them; voids publish
\* nothing, so they are left out.
Unmade(r) == \A s \in Services : \A e \in effects[s] : e.id # r

Publishing(s) ==
    /\ \/ \E r \in Requests, k \in Keys, c \in Cases, i \in EventIds :
            Unmade(r) /\ CreateEffect(s, r, k, c, i)
       \/ \E c \in Cases : Redeliver(s, c)
    /\ UNCHANGED <<crmVars, projectorVars>>

Proceed(p) ==
    \/ Poll(p) \/ CheckApplied(p) \/ InsertApplied(p) \/ InsertFails(p) \/ Fold(p)
    \/ Mark(p) \/ NextService(p) \/ Finish(p)

Next ==
    \/ \E p \in Projectors :
        \/ \E c \in Cases, order \in Orders : Start(p, c, order)
        \/ Proceed(p)
        \/ Fail(p)
    \/ \E s \in Services : Publishing(s)

Spec == Init /\ [][Next]_vars

\* A projector that runs goes on running; nothing starts one, nothing publishes.
\* PostgreSQL queues those who wait for a key, so one that dies and comes back does
\* not overtake another for ever.
FairSpec ==
    Spec /\ \A p \in Projectors : WF_vars(Proceed(p)) /\ SF_vars(InsertApplied(p))
-----------------------------------------------------------------------------
(***************************************************************************)
(* Correctness.                                                            *)
(***************************************************************************)
\* The state has its type.
TypeOK ==
    /\ effects \in [Services -> SUBSET Rows]
    /\ outbox \in [Services -> SUBSET Events]
    /\ appliedEvents \subseteq Refs
    /\ total \in [Refs -> Nat]
    /\ pc \in [Projectors -> {"idle", "polling", "applying", "inserting", "folding",
                              "marking", "finished", "failed"}]
    /\ case \in [Projectors -> Cases]
    /\ todo \in [Projectors -> Seq(Services)]
    /\ service \in [Projectors -> Services \cup {NoService}]
    /\ batch \in [Projectors -> SUBSET EventIds]
    /\ event \in [Projectors -> EventIds \cup {NoEvent}]
    /\ polled \in [Projectors -> SUBSET Refs]

Published(e) == \E v \in outbox[e[1]] : v.id = e[2]

\* INVARIANT-CATALOG P1 and P3: whatever is redelivered, and however projectors race
\* or die, the total is the sum of the applied events, each of them once, and no
\* event is in it that a service has not committed.
TotalIsExact ==
    \A e \in Refs :
        /\ total[e] = IF e \in appliedEvents THEN 1 ELSE 0
        /\ total[e] > 0 => Published(e)

\* No event is lost: what its service believes applied is in the total, so a projector
\* that dies between the two commits leaves the event to be offered again.
NothingIsLost ==
    \A s \in Services : \A v \in outbox[s] : v.applied => <<s, v.id>> \in appliedEvents

\* A run that ends well has caught up with everything it was handed.
FinishedRunsCaughtUp ==
    [][\A p \in Projectors :
        pc[p] # "finished" /\ pc'[p] = "finished" => polled[p] \subseteq appliedEvents]_vars

\* However much is redelivered meanwhile, and whoever it races, a run ends.
EveryRunEnds == \A p \in Projectors : Underway(p) ~> ~Underway(p)
-----------------------------------------------------------------------------
(***************************************************************************)
(* The inductive invariant behind the safety properties.                   *)
(***************************************************************************)
\* What a projector has in hand was published by the service it is at.
HandedEventsArePublished ==
    \A p \in Projectors :
        /\ pc[p] \in {"applying", "inserting", "folding", "marking"} =>
            service[p] \in Services /\ \A i \in batch[p] : Published(<<service[p], i>>)
        /\ pc[p] \in {"inserting", "folding", "marking"} => event[p] \in batch[p]

\* An open transaction owns the key it has inserted.
FoldsAreExclusive ==
    \A p \in Projectors : pc[p] = "folding" =>
        /\ Current(p) \notin appliedEvents
        /\ \A q \in Projectors \ {p} : pc[q] = "folding" => Current(q) # Current(p)

MarkedIsFolded ==
    \A p \in Projectors : pc[p] = "marking" => Current(p) \in appliedEvents

\* What was handed over and not folded yet is still in hand.
LeftIsInHand ==
    \A p \in Projectors :
        /\ pc[p] = "polling" => polled[p] \subseteq appliedEvents
        /\ pc[p] \in {"applying", "inserting", "folding", "marking"} =>
            polled[p] \subseteq appliedEvents \cup ({service[p]} \X batch[p])

ProjectionInv ==
    /\ TotalIsExact
    /\ NothingIsLost
    /\ HandedEventsArePublished
    /\ FoldsAreExclusive
    /\ MarkedIsFolded
    /\ LeftIsInHand
=============================================================================
