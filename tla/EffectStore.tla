---------------------------- MODULE EffectStore ----------------------------
(***************************************************************************)
(* A service that owns effects: Billing with its refunds or Ledger with    *)
(* its credits, which differ in names only (apps/billing/main.py,          *)
(* apps/ledger/main.py, libs/service_common.py, libs/outbox.py).           *)
(* Requests run concurrently, each in one READ COMMITTED transaction, and  *)
(* a step is one statement of such a transaction.  The variables hold what *)
(* is committed; what a transaction has written and not committed follows  *)
(* from how far its request is.                                            *)
(***************************************************************************)
EXTENDS Integers, FiniteSets, FiniteSetsExt

CONSTANTS
    Service,    \* the name of the service
    Requests,   \* requests it handles, each once; a request names its row
    Cases, Keys,
    MaxId,      \* where the id sequence of the outbox ends
    NoInput

VARIABLES
    refunds,    \* the table of effects
    decisionLog,\* the table decision_log
    events,     \* the table outbox
    nextId,     \* its id sequence, which no rollback winds back
    pc,         \* where each request is
    input,      \* what it asked for: an effect, or the effect to void
    seq,        \* the log sequence it computed
    eventId     \* the id its event was inserted with

vars == <<refunds, decisionLog, events, nextId, pc, input, seq, eventId>>

Inputs == [key : Keys, case : Cases]

ASSUME EffectStoreAssumption ==
    /\ IsFiniteSet(Requests)
    /\ MaxId \in Nat
    /\ NoInput \notin Inputs \cup Requests
    /\ Inputs \cap Requests = {}

Init ==
    /\ refunds = {}
    /\ decisionLog = {}
    /\ events = {}
    /\ nextId = 1
    /\ pc = [r \in Requests |-> "idle"]
    /\ input = [r \in Requests |-> NoInput]
    /\ seq = [r \in Requests |-> 0]
    /\ eventId = [r \in Requests |-> 0]
-----------------------------------------------------------------------------
(***************************************************************************)
(* What is committed, and what open transactions keep others from writing. *)
(***************************************************************************)
Creates(r) == input[r] \in Inputs
CaseOf(r) ==
    IF Creates(r) THEN input[r].case
                  ELSE (CHOOSE e \in refunds : e.id = input[r]).case

KeyTaken(k) == \E e \in refunds : e.key = k
SequenceTaken(c, n) == \E l \in decisionLog : l.case = c /\ l.sequence = n

\* The row, and the log entry, that a request has written but not committed.
TransactionLeaks(r) ==
    pc[r] \in {"numbering", "logging", "publishing", "committing", "failed"}
HasWritten(r) == pc[r] \in {"numbering", "logging", "publishing", "committing"}
HasLogged(r) == pc[r] \in {"publishing", "committing"}

\* An INSERT or UPDATE waits for another transaction's write of the same row.
KeyPending(r) ==
    \E s \in Requests \ {r} :
        HasWritten(s) /\ Creates(s) /\ input[s].key = input[r].key
RowPending(r) ==
    \E s \in Requests \ {r} : HasWritten(s) /\ input[s] = input[r]
SequencePending(r) ==
    \E s \in Requests \ {r} :
        HasLogged(s) /\ CaseOf(s) = CaseOf(r) /\ seq[s] = seq[r]

Goto(r, place) == pc' = [pc EXCEPT ![r] = place]
tables == <<refunds, decisionLog, events>>
-----------------------------------------------------------------------------
(***************************************************************************)
(* create_refund, create_credit.                                           *)
(***************************************************************************)
Create(r, in) ==
    /\ pc[r] = "idle"
    /\ input' = [input EXCEPT ![r] = in]
    /\ Goto(r, "looking")
    /\ UNCHANGED <<tables, nextId, seq, eventId>>

\* SELECT by idempotency key; a replay is answered with the row there is.
FoundDirty(r) == KeyTaken(input[r].key) \/ KeyPending(r)
Found(r) == KeyTaken(input[r].key)

Look(r) ==
    /\ pc[r] = "looking"
    /\ Goto(r, IF Found(r) THEN "replayed" ELSE "inserting")
    /\ UNCHANGED <<tables, nextId, input, seq, eventId>>

\* INSERT, against the UNIQUE constraint on the key.
KeyUnchecked(r) == TRUE
KeyFree(r) == ~KeyTaken(input[r].key) /\ ~KeyPending(r)

Insert(r) ==
    /\ pc[r] = "inserting" /\ KeyFree(r)
    /\ Goto(r, "numbering")
    /\ UNCHANGED <<tables, nextId, input, seq, eventId>>

InsertFails(r) ==
    /\ pc[r] = "inserting" /\ KeyTaken(input[r].key)
    /\ Goto(r, "failed")
    /\ UNCHANGED <<tables, nextId, input, seq, eventId>>

(***************************************************************************)
(* void_refund, void_credit: UPDATE by id, whatever the state.             *)
(***************************************************************************)
Void(r, id) ==
    /\ pc[r] = "idle"
    /\ input' = [input EXCEPT ![r] = id]
    /\ Goto(r, "updating")
    /\ UNCHANGED <<tables, nextId, seq, eventId>>

Update(r) ==
    /\ pc[r] = "updating"
    /\ IF \E e \in refunds : e.id = input[r]
       THEN ~RowPending(r) /\ Goto(r, "numbering")
       ELSE Goto(r, "missing")
    /\ UNCHANGED <<tables, nextId, input, seq, eventId>>

(***************************************************************************)
(* append_decision: next_sequence is a statement of its own.               *)
(***************************************************************************)
Entries(c) == {l \in decisionLog : l.case = c}
LastSequence(c) == Max({l.sequence : l \in Entries(c)} \cup {0})

NumberDecision(r) ==
    /\ pc[r] = "numbering"
    /\ seq' = [seq EXCEPT ![r] = LastSequence(CaseOf(r)) + 1]
    /\ Goto(r, "logging")
    /\ UNCHANGED <<tables, nextId, input, eventId>>

SequenceUnchecked(r) == TRUE
SequenceFree(r) == ~SequenceTaken(CaseOf(r), seq[r]) /\ ~SequencePending(r)

AppendDecision(r) ==
    /\ pc[r] = "logging" /\ SequenceFree(r)
    /\ Goto(r, IF Creates(r) THEN "publishing" ELSE "committing")
    /\ UNCHANGED <<tables, nextId, input, seq, eventId>>

\* Two transactions of a case took the same number: the later one loses its effect.
AppendFails(r) ==
    /\ pc[r] = "logging" /\ SequenceTaken(CaseOf(r), seq[r])
    /\ Goto(r, "failed")
    /\ UNCHANGED <<tables, nextId, input, seq, eventId>>

(***************************************************************************)
(* publish.                                                                *)
(***************************************************************************)
NewEvent(r, i) == [id |-> i, entity |-> r, case |-> input[r].case, applied |-> FALSE]

\* An event on a connection of its own would be visible at once.
PublishedAtOnce(r) == events \cup {NewEvent(r, nextId)}
PublishedLater(r) == events

Publish(r) ==
    /\ pc[r] = "publishing" /\ nextId <= MaxId
    /\ eventId' = [eventId EXCEPT ![r] = nextId]
    /\ nextId' = nextId + 1
    /\ events' = PublishedLater(r)
    /\ Goto(r, "committing")
    /\ UNCHANGED <<refunds, decisionLog, input, seq>>

(***************************************************************************)
(* COMMIT, and the answer after it.                                        *)
(***************************************************************************)
Entry(r, entity, to) ==
    [case |-> CaseOf(r), sequence |-> seq[r], entity |-> entity, to |-> to]

CommitCreate(r) ==
    /\ pc[r] = "committing" /\ Creates(r)
    /\ refunds' = refunds \cup
            {[id |-> r, key |-> input[r].key, case |-> input[r].case, state |-> "COMMITTED"]}
    /\ decisionLog' = decisionLog \cup {Entry(r, r, "COMMITTED")}
    /\ events' = events \cup {NewEvent(r, eventId[r])}
    /\ Goto(r, "committed")
    /\ UNCHANGED <<nextId, input, seq, eventId>>

VoidedUnlogged(r) == decisionLog
VoidLogged(r) == decisionLog \cup {Entry(r, input[r], "VOIDED")}

CommitVoid(r) ==
    /\ pc[r] = "committing" /\ ~Creates(r)
    /\ refunds' = {IF e.id = input[r] THEN [e EXCEPT !.state = "VOIDED"] ELSE e : e \in refunds}
    /\ decisionLog' = VoidLogged(r)
    /\ Goto(r, "committed")
    /\ UNCHANGED <<events, nextId, input, seq, eventId>>

Acknowledge(r) ==
    /\ pc[r] = "committed"
    /\ Goto(r, "acknowledged")
    /\ UNCHANGED <<tables, nextId, input, seq, eventId>>

\* The service or the connection dies: before COMMIT nothing was done, after it
\* only the caller does not know.
Crash(r) ==
    /\ \/ pc[r] \in {"looking", "inserting", "updating"} \/ HasWritten(r)
       \/ pc[r] = "committed"
    /\ Goto(r, IF pc[r] = "committed" THEN "unacknowledged" ELSE "failed")
    /\ UNCHANGED <<tables, nextId, input, seq, eventId>>
-----------------------------------------------------------------------------
(***************************************************************************)
(* mark_event_applied and redeliver_events, which the projectors call.     *)
(***************************************************************************)
MarkEventApplied(v) ==
    /\ events' = (events \ {v}) \cup {[v EXCEPT !.applied = TRUE]}
    /\ UNCHANGED <<refunds, decisionLog, nextId, pc, input, seq, eventId>>

RedeliverEvents(c) ==
    /\ events' = {IF v.case = c THEN [v EXCEPT !.applied = FALSE] ELSE v : v \in events}
    /\ UNCHANGED <<refunds, decisionLog, nextId, pc, input, seq, eventId>>
-----------------------------------------------------------------------------
Arrive(r) ==
    \/ \E in \in Inputs : Create(r, in)
    \/ \E id \in Requests : Void(r, id)

Proceed(r) ==
    \/ Look(r) \/ Insert(r) \/ InsertFails(r) \/ Update(r)
    \/ NumberDecision(r) \/ AppendDecision(r) \/ AppendFails(r) \/ Publish(r)
    \/ CommitCreate(r) \/ CommitVoid(r) \/ Acknowledge(r)

Next ==
    \/ \E r \in Requests : Arrive(r) \/ Proceed(r) \/ Crash(r)
    \/ \E v \in events : MarkEventApplied(v)
    \/ \E c \in Cases : RedeliverEvents(c)

Spec == Init /\ [][Next]_vars

\* A request being handled is handled on; none need arrive, and none crash.
FairSpec == Spec /\ \A r \in Requests : WF_vars(Proceed(r))
-----------------------------------------------------------------------------
(***************************************************************************)
(* Correctness.                                                            *)
(***************************************************************************)
Answers == {"replayed", "failed", "missing", "acknowledged", "unacknowledged"}
Underway(r) == pc[r] \notin Answers \cup {"idle"}

Refunds == [id : Requests, key : Keys, case : Cases, state : {"COMMITTED", "VOIDED"}]
Decisions == [case : Cases, sequence : Nat \ {0}, entity : Requests,
              to : {"COMMITTED", "VOIDED"}]
Events == [id : 1..MaxId, entity : Requests, case : Cases, applied : BOOLEAN]

\* The state has its type.
TypeOK ==
    /\ refunds \subseteq Refunds
    /\ decisionLog \subseteq Decisions
    /\ events \subseteq Events
    /\ nextId \in 1..(MaxId + 1)
    /\ pc \in [Requests -> Answers \cup
            {"idle", "looking", "inserting", "updating", "numbering", "logging",
             "publishing", "committing", "committed"}]
    /\ input \in [Requests -> Inputs \cup Requests \cup {NoInput}]
    /\ seq \in [Requests -> Nat]
    /\ eventId \in [Requests -> 0..MaxId]

\* Effect, log and outbox tell the same story at every moment, also when requests
\* collide or die half way: each effect was announced once and logged once, was
\* voided only if that was logged, and nothing is announced or logged without it.
TablesAgree ==
    /\ \A v \in events : \E e \in refunds : e.id = v.entity /\ e.case = v.case
    /\ \A l \in decisionLog : \E e \in refunds : e.id = l.entity /\ e.case = l.case
    /\ \A e \in refunds :
        /\ Cardinality({v \in events : v.entity = e.id}) = 1
        /\ Cardinality({l \in decisionLog : l.entity = e.id /\ l.to = "COMMITTED"}) = 1
        /\ e.state = "VOIDED" <=> \E l \in decisionLog : l.entity = e.id /\ l.to = "VOIDED"

\* The history of a case can be replayed: its decisions are numbered 1, 2, ... with
\* no gap and no number twice, and an effect is created before it is voided.
HistoryIsReplayable ==
    /\ \A c \in Cases :
        {l.sequence : l \in Entries(c)} = 1..Cardinality(Entries(c))
    /\ \A l, m \in decisionLog :
        l.entity = m.entity /\ l.to = "COMMITTED" /\ m.to = "VOIDED" =>
            l.sequence < m.sequence

\* INVARIANT-CATALOG F3, one decision, one effect, and the caller can rely on it: a
\* retry that is answered with an earlier effect names one that is there to stay, and
\* a request that was answered with an error before it committed has left nothing.
AnswersAreTrue ==
    /\ \A d, e \in refunds : d # e => d.id # e.id /\ d.key # e.key
    /\ \A r \in Requests :
        /\ pc[r] = "replayed" => KeyTaken(input[r].key)
        /\ pc[r] = "failed" =>
            ~\E e \in refunds, v \in events : e.id = r \/ v.entity = r
        /\ pc[r] \in {"acknowledged", "unacknowledged"} /\ Creates(r) =>
            \E e \in refunds : e.id = r /\ e.key = input[r].key

\* What the service promises to the rest of the system.
Promise == INSTANCE Effects WITH
    Services <- {Service},
    EventIds <- 1..MaxId,
    effects <- [s \in {Service} |-> refunds],
    outbox <- [s \in {Service} |-> events]

ImplementsEffects == Promise!EffectsSpec

\* Waiting for keys, rows and numbers never becomes waiting for each other: every
\* request is answered.
EveryRequestIsAnswered == \A r \in Requests : Underway(r) ~> ~Underway(r)
=============================================================================
