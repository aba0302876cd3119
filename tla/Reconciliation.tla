--------------------------- MODULE Reconciliation ---------------------------
(***************************************************************************)
(* The reconciler of a case (apps/reconciliation/worker.py): one query     *)
(* after another, each on a connection of its own, against the databases   *)
(* of Billing, Ledger, the CRM and the control service, while they move.   *)
(* The services are those of module Effects; a fold of the CRM is one      *)
(* transaction (module Projection), as is the expiry of a hold (Control).  *)
(***************************************************************************)
EXTENDS Effects, Sequences, FiniteSets, FiniteSetsExt

CONSTANTS
    Case,
    ServiceOrder    \* SOURCES, in the order of the dict

ASSUME ReconciliationAssumption ==
    /\ ServiceOrder \in Seq(Services) /\ ServiceOrder # <<>>
    /\ Services = {ServiceOrder[i] : i \in DOMAIN ServiceOrder}
    /\ Cases = {Case}

VARIABLES
    appliedEvents,  \* the CRM: primary keys of applied_events
    eventsApplied,  \* the CRM: events_applied of the projection's row, if there is one
    holds,          \* the control service: the state of the reservation under each key
    at,             \* the query that is next
    todo,           \* the services it has yet to be put to
    rows,           \* what an earlier query returned and is still being gone through
    total,          \* the events_applied read by _check_drift
    report,         \* findings: their type and what they are about
    torn,           \* history: a fold came between the two reads of _check_drift
    settled,        \* history: holds settled since _check_spent_expired_holds read them
    unapplied,      \* history: events unapplied from the start of the run on
    spent           \* history: effects whose hold had expired by the start of the run

crmVars == <<appliedEvents, eventsApplied>>
systemVars == <<effectVars, crmVars, holds>>
runVars == <<at, todo, rows, total, report>>
history == <<torn, settled, unapplied, spent>>
vars == <<systemVars, runVars, history>>

Refs == Services \X EventIds
FirstSource == <<ServiceOrder[1]>>
Sources == ServiceOrder

Init ==
    /\ EffectsInit
    /\ appliedEvents = {} /\ eventsApplied = 0 /\ holds = [k \in Keys |-> "HELD"]
    /\ at = "idle" /\ todo = <<>> /\ rows = {} /\ total = 0 /\ report = {}
    /\ torn = FALSE /\ settled = {} /\ unapplied = {} /\ spent = {}
-----------------------------------------------------------------------------
(***************************************************************************)
(* What the queries find.                                                  *)
(***************************************************************************)
Published(s) == {<<s, v.id>> : v \in outbox[s]}
Pending(s) == {<<s, v.id>> : v \in {w \in outbox[s] : ~w.applied}}
AllPending == UNION {Pending(s) : s \in Services}

DuplicatedIn(s) ==
    {k \in Keys : Cardinality({e \in effects[s] : e.key = k}) > 1}
LandedIn(s, k) == \E e \in effects[s] : e.key = k /\ e.state = "COMMITTED"
NoLongerHeld == {k \in Keys : holds[k] # "HELD"}
Expired == {k \in Keys : holds[k] = "EXPIRED"}
SpentNow == {x \in Services \X Expired : LandedIn(x[1], x[2])}

DriftsFromOutbox(n) == n # Cardinality(UNION {Published(s) : s \in Services})
Drifts(n) == n # Cardinality(appliedEvents)
-----------------------------------------------------------------------------
(***************************************************************************)
(* The run: _check_lag, _check_drift, _check_duplicate_keys,               *)
(* _check_orphans and _check_spent_expired_holds, in this order.           *)
(***************************************************************************)
Findings(type, about, found) == IF found THEN {<<type, about>>} ELSE {}

Begin ==
    /\ at \in {"idle", "done"}
    /\ at' = "lag" /\ todo' = Sources /\ report' = {}
    /\ unapplied' = AllPending /\ spent' = SpentNow
    /\ torn' = FALSE /\ settled' = {}
    /\ UNCHANGED <<systemVars, rows, total>>

\* One query per service, of the table or outbox the check is about.
AskEach(query, type, found, next) ==
    /\ at = query
    /\ report' = report \cup Findings(type, Head(todo), found)
    /\ IF Len(todo) = 1 THEN at' = next /\ todo' = Sources ELSE at' = at /\ todo' = Tail(todo)
    /\ UNCHANGED <<systemVars, rows, total, history>>

CheckLag == AskEach("lag", "PROJECTION_LAG", Pending(Head(todo)) # {}, "total")

\* A projection without a row has nothing to drift from.
ReadTotal ==
    /\ at = "total"
    /\ total' = eventsApplied
    /\ at' = IF eventsApplied = 0 THEN "duplicates" ELSE "applied"
    /\ torn' = FALSE
    /\ UNCHANGED <<systemVars, todo, rows, report, settled, unapplied, spent>>

ReadApplied ==
    /\ at = "applied"
    /\ report' = report \cup Findings("PROJECTION_DRIFT", "crm", Drifts(total))
    /\ at' = "duplicates"
    /\ UNCHANGED <<systemVars, todo, rows, total, history>>

CheckDuplicateKeys ==
    AskEach("duplicates", "DUPLICATE_IDEMPOTENCY_KEY", DuplicatedIn(Head(todo)) # {},
            "orphans")

\* First what there is to look up, then one lookup after another.
ReadApplieds ==
    /\ at = "orphans"
    /\ rows' = appliedEvents
    /\ at' = "sources"
    /\ UNCHANGED <<systemVars, todo, total, report, history>>

LookUpSource(e) ==
    /\ at = "sources" /\ e \in rows
    /\ report' = report \cup
            Findings("ORPHANED_APPLIED_EVENT", e, e \notin Published(e[1]))
    /\ rows' = rows \ {e}
    /\ UNCHANGED <<systemVars, at, todo, total, history>>

ReadExpired ==
    /\ at = "sources" /\ rows = {}
    /\ rows' = {Sources[i] : i \in DOMAIN Sources} \X Expired
    /\ at' = "landed"
    /\ settled' = {}
    /\ UNCHANGED <<systemVars, todo, total, report, torn, unapplied, spent>>

LookUpEffect(x) ==
    /\ at = "landed" /\ x \in rows
    /\ report' = report \cup Findings("SPENT_EXPIRED_HOLD", x, LandedIn(x[1], x[2]))
    /\ rows' = rows \ {x}
    /\ UNCHANGED <<systemVars, at, todo, total, history>>

Done ==
    /\ at = "landed" /\ rows = {}
    /\ at' = "done"
    /\ UNCHANGED <<systemVars, todo, rows, total, report, history>>

Reconcile ==
    \/ Begin \/ CheckLag \/ ReadTotal \/ ReadApplied \/ CheckDuplicateKeys \/ ReadApplieds
    \/ (\E x \in rows : LookUpSource(x) \/ LookUpEffect(x)) \/ ReadExpired \/ Done
-----------------------------------------------------------------------------
(***************************************************************************)
(* What the systems do meanwhile.                                          *)
(***************************************************************************)
FoldEvent(e) ==
    /\ e \in Pending(e[1]) \ appliedEvents
    /\ appliedEvents' = appliedEvents \cup {e}
    /\ eventsApplied' = eventsApplied + 1
    /\ torn' = TRUE
    /\ UNCHANGED <<effectVars, holds, runVars, settled, unapplied, spent>>

\* The history keeps what is still pending, and what is still spent.
StillPending == unapplied' = unapplied \cap AllPending'
StillSpent == spent' = spent \cap SpentNow'

Marks(e) ==
    /\ e \in appliedEvents
    /\ \E v \in outbox[e[1]] : v.id = e[2] /\ MarkApplied(e[1], v)

ServiceMoves ==
    /\ \/ \E s \in Services, r \in Requests, k \in Keys :
            /\ \A t \in Services : \A e \in effects[t] : e.id # r
            /\ Cardinality(outbox[s]) + 1 \in EventIds
            /\ CreateEffect(s, r, k, Case, Cardinality(outbox[s]) + 1)
       \/ \E s \in Services : \E e \in effects[s] : e.state = "COMMITTED" /\ VoidEffect(s, e)
       \/ \E e \in appliedEvents : Marks(e)
       \/ \E s \in Services : Redeliver(s, Case)
    /\ UNCHANGED <<crmVars, holds, runVars, torn, settled>>
    /\ StillPending /\ StillSpent

ExpireHold(k) ==
    /\ holds[k] = "HELD"
    /\ holds' = [holds EXCEPT ![k] = "EXPIRED"]
    /\ UNCHANGED <<effectVars, crmVars, runVars, history>>

\* A release or a commit, for which it is never too late.
SettleHold(k) ==
    /\ holds[k] # "SETTLED"
    /\ holds' = [holds EXCEPT ![k] = "SETTLED"]
    /\ settled' = settled \cup (IF at = "landed" THEN {k} ELSE {})
    /\ UNCHANGED <<effectVars, crmVars, runVars, torn, unapplied>>
    /\ StillSpent

Next ==
    \/ Reconcile
    \/ \E e \in Refs : FoldEvent(e)
    \/ \E k \in Keys : ExpireHold(k) \/ SettleHold(k)
    \/ ServiceMoves

Spec == Init /\ [][Next]_vars
-----------------------------------------------------------------------------
(***************************************************************************)
(* Correctness.                                                            *)
(***************************************************************************)
\* A finding is true when it is made, though the two databases it comes from were read at
\* different times, but for two artefacts: the drift, which the catalog calls corruption
\* (P1), is always a fold between two reads, and the hold of a spent one, EXPIRED when it
\* was read, may have been settled before its effect was looked up.  An event that lags is
\* not marked, though the CRM may have folded it; an effect may have landed after its hold
\* lapsed, where FindingType says before, as the rows keep no order.
AlarmsAreTrue ==
    [][\A f \in report' \ report :
        /\ f[1] \notin {"DUPLICATE_IDEMPOTENCY_KEY", "ORPHANED_APPLIED_EVENT"}
        /\ f[1] = "PROJECTION_LAG" => Pending(f[2]) # {}
        /\ f[1] = "PROJECTION_DRIFT" => torn
        /\ f[1] = "SPENT_EXPIRED_HOLD" =>
            /\ LandedIn(f[2][1], f[2][2])
            /\ holds[f[2][2]] = "EXPIRED" \/ f[2][2] \in settled]_vars

\* A run misses nothing that was wrong when it began and still is when it ends.
NothingOldIsMissed ==
    at = "done" =>
        /\ \A e \in unapplied : <<"PROJECTION_LAG", e[1]>> \in report
        /\ \A x \in spent : <<"SPENT_EXPIRED_HOLD", x>> \in report

\* The state has its type: there is a query to come, or the run is over.
TypeOK ==
    /\ effects \in [Services -> SUBSET Rows]
    /\ outbox \in [Services -> SUBSET Events]
    /\ appliedEvents \subseteq Refs
    /\ holds \in [Keys -> {"HELD", "EXPIRED", "SETTLED"}]
    /\ at \in {"idle", "lag", "total", "applied", "duplicates", "orphans", "sources",
               "landed", "done"}
    /\ todo \in Seq(Services)
=============================================================================
