------------------------------ MODULE Control ------------------------------
(***************************************************************************)
(* The control service: reservations against the compensation budget of a  *)
(* case (apps/control/main.py, apps/control/expiry.py and its migrations). *)
(* Requests run concurrently, each in one READ COMMITTED transaction, and  *)
(* a step of this module is one statement of such a transaction together   *)
(* with the computation up to the next.  row holds what is committed; a    *)
(* reservation's own uncommitted expiries are kept beside it, with the row *)
(* locks they imply.  The UPDATE of expire_due takes several steps, one    *)
(* for each row, as it locks them one by one.  A last write and the COMMIT *)
(* behind it are one step: nobody sees the write in between, and who wants *)
(* the row waits.                                                          *)
(***************************************************************************)
EXTENDS Integers, FiniteSets, Totals

CONSTANTS
    Requests,   \* requests the service handles, each of them once
    Cases,      \* case_id
    Keys,       \* idempotency_key; UNIQUE, so it also names the row
    Amounts,    \* amounts asked for
    Ttls,       \* ttl_seconds given with a reservation, NoTtl among them
    Authorized, \* the ceiling of every case, sent along by every caller
    MaxTime,    \* bound on the clock
    NoTtl, NoDeadline, NoRow, NoRequest, NoInput

ASSUME ControlAssumption ==
    /\ IsFiniteSet(Keys)
    /\ Amounts \subseteq Nat \ {0}
    /\ Ttls \subseteq Nat \cup {NoTtl}
    /\ Authorized \in Nat
    /\ MaxTime \in Nat
    /\ NoTtl \notin Nat
    /\ NoDeadline \notin Nat
    /\ NoRequest \notin Requests

States == {"HELD", "COMMITTED", "RELEASED", "EXPIRED"}
Rows == [case : Cases, amount : Amounts, state : States,
         deadline : Nat \cup {NoDeadline}]
Inputs == [case : Cases, key : Keys, amount : Amounts, ttl : Ttls]

ASSUME SentinelAssumption == NoRow \notin Rows /\ NoInput \notin Inputs \cup Keys

VARIABLES
    row,        \* the reservations table: the committed row of each key
    caseLock,   \* who holds the advisory lock of each case
    expiring,   \* rows a request has expired in its open transaction
    todo,       \* rows the UPDATE of its expire_due has yet to visit
    at,         \* the one it is at, NoInput when at none
    pc,         \* where each request is
    input,      \* what it asked for: a reservation, or the row to settle
    clock,      \* what it last read from the clock
    now,        \* the clock
    lapsed      \* history: rows that were RELEASED or EXPIRED at some time

update == <<expiring, todo, at>>
vars == <<row, caseLock, update, pc, input, clock, now, lapsed>>

Init ==
    /\ row = [k \in Keys |-> NoRow]
    /\ caseLock = [c \in Cases |-> NoRequest]
    /\ expiring = [r \in Requests |-> {}]
    /\ todo = [r \in Requests |-> {}]
    /\ at = [r \in Requests |-> NoInput]
    /\ pc = [r \in Requests |-> "idle"]
    /\ input = [r \in Requests |-> NoInput]
    /\ clock = [r \in Requests |-> 0]
    /\ now = 0
    /\ lapsed = {}
-----------------------------------------------------------------------------
(***************************************************************************)
(* The table, as the statements see it.                                    *)
(***************************************************************************)
Exists(k) == row[k] # NoRow
InState(k, s) == Exists(k) /\ row[k].state = s
Overdue(k, t) == row[k].deadline # NoDeadline /\ row[k].deadline <= t

\* The WHERE clause of expire_due.
DueInAnyState(t) == {k \in Keys : Exists(k) /\ Overdue(k, t)}
Due(t) == {k \in Keys : InState(k, "HELD") /\ Overdue(k, t)}

\* A row somebody updated and has not committed: other updates of it wait.
RowLocked(k) == \E r \in Requests : k \in expiring[r]

\* The rows of the reservation sum, the request's own expiries applied.
Counted(r) ==
    {k \in Keys \ expiring[r] :
        /\ InState(k, "HELD") \/ InState(k, "COMMITTED")
        /\ row[k].case = input[r].case}

Sum(ks) == Total([k \in ks |-> row[k].amount], ks)

\* What COMMIT of a reservation's transaction makes visible, without its INSERT.
Published(r) ==
    [k \in Keys |-> IF k \in expiring[r] THEN [row[k] EXCEPT !.state = "EXPIRED"]
                                         ELSE row[k]]

Recorded == lapsed' = lapsed \cup
    {k \in Keys : row'[k] # NoRow /\ row'[k].state \in {"RELEASED", "EXPIRED"}}

\* The end of a transaction drops its row locks and its advisory lock.
LockLeaks(r) == caseLock
LocksLeft(r) == [c \in Cases |-> IF caseLock[c] = r THEN NoRequest ELSE caseLock[c]]

EndTransaction(r, outcome) ==
    /\ pc' = [pc EXCEPT ![r] = outcome]
    /\ caseLock' = LocksLeft(r)
    /\ expiring' = [expiring EXCEPT ![r] = {}]
    /\ todo' = [todo EXCEPT ![r] = {}]
    /\ at' = [at EXCEPT ![r] = NoInput]

Goto(r, place) == pc[r] # place /\ pc' = [pc EXCEPT ![r] = place]
-----------------------------------------------------------------------------
(***************************************************************************)
(* reserve.                                                                *)
(***************************************************************************)
Reserve(r, in) ==
    /\ pc[r] = "idle"
    /\ Goto(r, "locking")
    /\ input' = [input EXCEPT ![r] = in]
    /\ UNCHANGED <<row, caseLock, update, clock, now, lapsed>>

\* pg_advisory_xact_lock returns, and the clock is read for expire_due.
NoLockNeeded(r) == TRUE
LockFree(r) == caseLock[input[r].case] = NoRequest

LockCase(r) ==
    /\ pc[r] = "locking" /\ LockFree(r)
    /\ caseLock' = [caseLock EXCEPT ![input[r].case] = r]
    /\ clock' = [clock EXCEPT ![r] = now]
    /\ Goto(r, "expiring")
    /\ UNCHANGED <<row, update, input, now, lapsed>>

\* expire_due, over the holds of every case.  The rows are those its statement finds due at
\* its start, and it locks them one by one, in an order that SQL leaves open.
Visit(r, ks) ==
    /\ todo' = [todo EXCEPT ![r] = ks]
    /\ \/ ks = {} /\ at' = [at EXCEPT ![r] = NoInput]
       \/ \E k \in ks : at' = [at EXCEPT ![r] = k]
    /\ pc' = [pc EXCEPT ![r] = IF ks = {} THEN "looking" ELSE "updating"]
    /\ UNCHANGED <<row, caseLock, input, clock, now, lapsed>>

SkipExpiry(r) ==
    /\ pc[r] = "expiring"
    /\ Visit(r, {})
    /\ UNCHANGED expiring
BeginExpiry(r) ==
    /\ pc[r] = "expiring"
    /\ Visit(r, Due(clock[r]))
    /\ UNCHANGED expiring

\* A row somebody else is updating is waited for; one that was settled or expired in the
\* meantime is looked at again and left alone.
ExpireRow(r) ==
    /\ pc[r] = "updating" /\ ~RowLocked(at[r])
    /\ expiring' = [expiring EXCEPT ![r] = @ \cup ({at[r]} \cap Due(clock[r]))]
    /\ Visit(r, todo[r] \ {at[r]})

\* SELECT by idempotency key: a replay is granted whatever became of the row.
Look(r) ==
    /\ pc[r] = "looking"
    /\ Goto(r, IF Exists(input[r].key) THEN "replaying" ELSE "deciding")
    /\ UNCHANGED <<row, caseLock, update, input, clock, now, lapsed>>

\* The sum, the decision, and the clock reading that a deadline is made from.
Exceeds(r) == Sum(Counted(r)) + input[r].amount > Authorized

Decide(r) ==
    /\ pc[r] = "deciding"
    /\ IF Exceeds(r)
       THEN Goto(r, "refusing") /\ UNCHANGED clock
       ELSE Goto(r, "granting") /\ clock' = [clock EXCEPT ![r] = now]
    /\ UNCHANGED <<row, caseLock, update, input, now, lapsed>>

\* A refusal and a replay commit as well: what they expired stays expired.
CloseUnchanged(r) ==
    /\ \/ pc[r] = "refusing" /\ EndTransaction(r, "refused")
       \/ pc[r] = "replaying" /\ EndTransaction(r, "replayed")
    /\ row' = Published(r)
    /\ Recorded
    /\ UNCHANGED <<input, clock, now>>

\* INSERT ... COMMIT.
NewRow(r) ==
    [case |-> input[r].case, amount |-> input[r].amount, state |-> "HELD",
     deadline |-> IF input[r].ttl = NoTtl THEN NoDeadline ELSE clock[r] + input[r].ttl]

KeyAssumedFree(r) == TRUE
KeyFree(r) == ~Exists(input[r].key)

Insert(r) ==
    /\ pc[r] = "granting" /\ KeyFree(r)
    /\ row' = [Published(r) EXCEPT ![input[r].key] = NewRow(r)]
    /\ EndTransaction(r, "granted")
    /\ Recorded
    /\ UNCHANGED <<input, clock, now>>

\* A request for another case has taken the key since Look: unique violation.
InsertFails(r) ==
    /\ pc[r] = "granting" /\ ~KeyFree(r)
    /\ EndTransaction(r, "failed")
    /\ UNCHANGED <<row, input, clock, now, lapsed>>
-----------------------------------------------------------------------------
(***************************************************************************)
(* release and commit: the state is read, judged, and overwritten by a     *)
(* later statement that does not look at it again.                         *)
(***************************************************************************)
ReadForRelease(r, k) ==
    /\ pc[r] = "idle"
    /\ input' = [input EXCEPT ![r] = k]
    /\ Goto(r, CASE ~Exists(k) -> "missing"
                 [] InState(k, "RELEASED") -> "already"
                 [] InState(k, "COMMITTED") -> "conflict"
                 [] OTHER -> "releasing")
    /\ UNCHANGED <<row, caseLock, update, clock, now, lapsed>>

ReadForCommit(r, k) ==
    /\ pc[r] = "idle"
    /\ input' = [input EXCEPT ![r] = k]
    /\ Goto(r, CASE ~Exists(k) -> "missing"
                 [] InState(k, "RELEASED") -> "conflict"
                 [] OTHER -> "committing")
    /\ UNCHANGED <<row, caseLock, update, clock, now, lapsed>>

\* UPDATE ... WHERE id, COMMIT.
Settle(r, from, to, outcome) ==
    /\ pc[r] = from
    /\ ~RowLocked(input[r])
    /\ row' = [row EXCEPT ![input[r]].state = to]
    /\ EndTransaction(r, outcome)
    /\ Recorded
    /\ UNCHANGED <<input, clock, now>>

WriteRelease(r) == Settle(r, "releasing", "RELEASED", "released")
WriteCommit(r) == Settle(r, "committing", "COMMITTED", "committed")
-----------------------------------------------------------------------------
Answers == {"granted", "replayed", "refused", "failed", "missing", "already",
            "conflict", "released", "committed"}
Underway(r) == pc[r] \notin Answers \cup {"idle"}

\* The service or its connection dies: the transaction is rolled back.
Crash(r) ==
    /\ Underway(r)
    /\ EndTransaction(r, "failed")
    /\ UNCHANGED <<row, input, clock, now, lapsed>>

Tick ==
    /\ now < MaxTime
    /\ now' = now + 1
    /\ UNCHANGED <<row, caseLock, update, pc, input, clock, lapsed>>

Arrive(r) ==
    \/ \E in \in Inputs : Reserve(r, in)
    \/ \E k \in Keys : ReadForRelease(r, k) \/ ReadForCommit(r, k)

Proceed(r) ==
    \/ LockCase(r) \/ BeginExpiry(r) \/ ExpireRow(r) \/ Look(r) \/ Decide(r)
    \/ CloseUnchanged(r) \/ Insert(r) \/ InsertFails(r)
    \/ WriteRelease(r) \/ WriteCommit(r)

Next == (\E r \in Requests : Arrive(r) \/ Proceed(r) \/ Crash(r)) \/ Tick

Spec == Init /\ [][Next]_vars

-----------------------------------------------------------------------------
(***************************************************************************)
(* Who waits for whom, and PostgreSQL's way out of a circle: after its     *)
(* deadlock_timeout it fails one of the transactions in it.                *)
(***************************************************************************)
WaitsFor(r, s) ==
    \/ pc[r] = "locking" /\ caseLock[input[r].case] = s
    \/ pc[r] = "updating" /\ at[r] \in expiring[s]
    \/ pc[r] \in {"releasing", "committing"} /\ input[r] \in expiring[s]
Waits(r) == \E s \in Requests : WaitsFor(r, s)

InCircle(r) ==
    \E circle \in SUBSET {s \in Requests : Waits(s)} :
        /\ r \in circle
        /\ \A s \in circle : /\ \E t \in circle : WaitsFor(s, t)
                             /\ \E t \in circle : WaitsFor(t, s)

DeadlockVictim(r) == InCircle(r) /\ Crash(r)

\* A request being handled is handled on, and no deadlock is left to itself; no request
\* need arrive, and none crash otherwise.
FairSpec ==
    /\ Spec
    /\ \A r \in Requests : WF_vars(Proceed(r))
    /\ WF_vars(\E r \in Requests : DeadlockVictim(r))
-----------------------------------------------------------------------------
(***************************************************************************)
(* Correctness.                                                            *)
(***************************************************************************)
\* The state has its type, whatever a statement found when it came to run.
TypeOK ==
    /\ row \in [Keys -> Rows \cup {NoRow}]
    /\ caseLock \in [Cases -> Requests \cup {NoRequest}]
    /\ expiring \in [Requests -> SUBSET Keys]
    /\ todo \in [Requests -> SUBSET Keys]
    /\ at \in [Requests -> Keys \cup {NoInput}]
    /\ pc \in [Requests -> Answers \cup
            {"idle", "locking", "expiring", "updating", "looking", "deciding",
             "granting", "refusing", "replaying", "releasing", "committing"}]
    /\ input \in [Requests -> Inputs \cup Keys \cup {NoInput}]
    /\ clock \in [Requests -> Nat]
    /\ now \in Nat
    /\ lapsed \subseteq Keys

\* The ceiling: reservations that have held their budget without a break since
\* they were granted never exceed what the case is authorized to spend, however
\* the requests interleave.  (A hold revived after it lapsed is another matter.)
Unbroken(c) ==
    {k \in Keys \ lapsed :
        (InState(k, "HELD") \/ InState(k, "COMMITTED")) /\ row[k].case = c}

CeilingHolds == \A c \in Cases : Sum(Unbroken(c)) <= Authorized

\* No refusal is owed to a dead agent: budget whose deadline had passed when the
\* request got its turn does not count against it, nor do other cases' holds.
StillDue(r) ==
    {k \in Keys : /\ \/ InState(k, "COMMITTED")
                     \/ InState(k, "HELD") /\ ~Overdue(k, clock[r])
                  /\ row[k].case = input[r].case}

RefusalsAreEarned ==
    [][\A r \in Requests :
        pc[r] = "deciding" /\ pc'[r] = "refusing" =>
            Sum(StillDue(r)) + input[r].amount > Authorized]_vars

\* Expiry takes back only what nobody settled and whose deadline has passed, at
\* the moment it becomes visible and not only when expire_due looked.
OnlyOverdueHoldsExpire ==
    [][\A k \in Keys :
        Exists(k) /\ ~InState(k, "EXPIRED") /\ row'[k].state = "EXPIRED" =>
            InState(k, "HELD") /\ Overdue(k, now)]_vars

\* A key is granted afresh at most once, also to retries that race.
FreshGrantsAreUnique ==
    \A r, s \in Requests :
        /\ r # s
        /\ pc[r] = "granted" /\ pc[s] = "granted"
        => input[r].key # input[s].key

\* Every request is answered, whatever advisory locks and row locks it has to wait for; an
\* answer may be an error, also that of a deadlock.
EveryRequestIsAnswered == \A r \in Requests : Underway(r) ~> pc[r] \in Answers

\* Where nobody gives a ttl or asks for two things at once under one key, as no agent
\* in agents/ does, the statements of each request amount to one step: Reservations.
KeyOf(r) == IF pc[r] \in {"releasing", "committing"} THEN input[r] ELSE input[r].key
OneAtATime ==
    \A r, s \in Requests : r # s /\ Underway(r) /\ Underway(s) => KeyOf(r) # KeyOf(s)

Hold(k) ==
    [key |-> k, case |-> row[k].case, amount |-> row[k].amount, state |-> row[k].state]
Holds == {Hold(k) : k \in {j \in Keys : Exists(j)}}

Promise == INSTANCE Reservations WITH holds <- Holds

ImplementsReservations == Promise!ReservationsSpec

\* A refusal is due when it is decided: the key is new, and the budget all taken.
RefusalsAreExact ==
    [][\A r \in Requests :
        pc[r] = "deciding" /\ pc'[r] = "refusing" =>
            /\ Promise!IsNew(input[r].key)
            /\ ~Promise!Fits(input[r].case, input[r].amount)]_vars

\* Deadlocks are between expiries: who is in a circle has expired rows and is at one that
\* another has expired.  No request that settles a hold or that waits for the advisory lock
\* of a case is ever part of one, and all come to a halt only when two reservations, of two
\* cases, are in each other's way like that.
ExpiresInVain(r) == pc[r] = "updating" /\ expiring[r] # {} /\ Waits(r)

OnlyExpiriesDeadlock ==
    /\ \A r \in Requests : InCircle(r) => ExpiresInVain(r)
    /\ (\E r \in Requests : Underway(r)) =>
        \/ \E r \in Requests : Underway(r) /\ ~Waits(r)
        \/ \E r, s \in Requests : /\ ExpiresInVain(r) /\ ExpiresInVain(s)
                                  /\ input[r].case # input[s].case

\* INVARIANT-CATALOG R2: a committed hold is never released, a released hold
\* never committed.
SettledIsFinal ==
    [][\A k \in Keys :
        /\ InState(k, "COMMITTED") => row'[k].state # "RELEASED"
        /\ InState(k, "RELEASED") => row'[k].state # "COMMITTED"]_vars
=============================================================================
