------------------------------- MODULE Barrier -------------------------------
(***************************************************************************)
(* The deterministic barrier of apps/coordinator/barrier.py, one declared  *)
(* run of it.  Every thread that executes Barrier.wait is a member of      *)
(* Calls; the lease reaper is a further thread; Barrier.abort is called by *)
(* the HTTP layer or by the reaper.  A step of this module is one critical *)
(* section of Barrier._lock, or one thing a thread does outside it:        *)
(* reading _aborted after it woke, giving up on Event.wait, setting the    *)
(* events of aborted waiters, reading the clock, returning.  The cascade   *)
(* of _advance_locked is the exception: it holds the lock over one step    *)
(* per released waiter, because a waiter runs as soon as its event is set. *)
(***************************************************************************)
EXTENDS Schedule

CONSTANTS
    Calls,      \* threads in Barrier.wait, each used for one arrival
    NoCall,     \* nobody: dictionary key absent, lock free
    NoKey,      \* a call that was given no occurrence
    NoLease,    \* a key with no lease
    NotAborted, \* _aborted is None
    Reasons,    \* reasons the HTTP layer aborts with
    LeaseTtl,   \* lease_ttl of every wait
    MaxTime,    \* bound on the clock
    Timed       \* whether waits have a timeout

LapsedReason == "lease expired"

ASSUME BarrierAssumption ==
    /\ NoCall \notin Calls
    /\ NoKey \notin Declared
    /\ NoLease \notin Nat
    /\ NotAborted \notin Reasons \cup {LapsedReason}
    /\ LeaseTtl \in Nat
    /\ MaxTime \in Nat
    /\ Timed \in BOOLEAN

VARIABLES
    pointer,      \* Schedule._pointer: how many steps were released
    arrivals,     \* Schedule._arrivals
    parked,       \* Barrier._parked, with the parked call for its Event
    leases,       \* Barrier._leases: expiry per key
    releaseOrder, \* Barrier._release_order
    aborted,      \* Barrier._aborted
    lock,         \* the call holding _lock between two steps, if any
    pc,           \* where each call is
    key,          \* the key each call arrived with
    signalled,    \* calls whose Event is set
    toWake,       \* waiters an abort took out of _parked and has yet to wake
    now,          \* the injected clock
    reaper,       \* where the reaper thread is
    reapClock     \* the time the reaper read before it took the lock

shared == <<pointer, arrivals, parked, leases, releaseOrder, aborted, lock, signalled,
            toWake>>
callVars == <<pc, key>>
reapVars == <<now, reaper, reapClock>>
vars == <<shared, callVars, reapVars>>

Init ==
    /\ pointer = 0
    /\ arrivals = [s \in Arrivable |-> 0]
    /\ parked = [k \in Declared |-> NoCall]
    /\ leases = [k \in Declared |-> NoLease]
    /\ releaseOrder = <<>>
    /\ aborted = NotAborted
    /\ lock = NoCall
    /\ pc = [c \in Calls |-> "outside"]
    /\ key = [c \in Calls |-> NoKey]
    /\ signalled = {}
    /\ toWake = {}
    /\ now = 0
    /\ reaper = "sleeping"
    /\ reapClock = 0

(***************************************************************************)
(* Schedule: the pointer and the arrival counters.                         *)
(***************************************************************************)
IsComplete == pointer >= Len(Steps)
CurrentKey == KeyAt(pointer + 1)

ArrivalKey(s) == <<s, arrivals[s]>>

IsDeclared(k) == k \in Declared

MatchesPair(k) == ~IsComplete /\ k[1] = Steps[pointer + 1]
MatchesPointer(k) == ~IsComplete /\ k = CurrentKey

Uncounted(s) == arrivals
Counted(s) == [arrivals EXCEPT ![s] = @ + 1]

(***************************************************************************)
(* The dictionaries.                                                       *)
(***************************************************************************)
Unparked(k) == [parked EXCEPT ![k] = NoCall]

KeepLease(k) == leases
DropLease(k) == [leases EXCEPT ![k] = NoLease]

GrantLease(k) == [leases EXCEPT ![k] = now + LeaseTtl]

NobodyParked == {}
ParkedCalls == {parked[k] : k \in Declared} \ {NoCall}
-----------------------------------------------------------------------------
(***************************************************************************)
(* Barrier.wait, the critical section at its top.                          *)
(***************************************************************************)
\* A call gets somewhere without touching anything the threads share.
Goto(c, place) ==
    /\ pc' = [pc EXCEPT ![c] = place]
    /\ UNCHANGED <<shared, key, reapVars>>

AlwaysOpen == TRUE
Open == aborted = NotAborted

AtDoor(c) == pc[c] = "outside" /\ lock = NoCall

\* The run is aborted: BarrierAborted, before anything is counted.
EnterAborted(c) == AtDoor(c) /\ ~Open /\ Goto(c, "aborted")

\* UndeclaredOccurrence, raised before the arrival is counted.
EnterUndeclared(c, s) ==
    AtDoor(c) /\ Open /\ ~IsDeclared(ArrivalKey(s)) /\ Goto(c, "undeclared")

\* The arrival is at the pointer: it is released, and starts the cascade.
EnterNext(c, s) ==
    LET k == ArrivalKey(s) IN
    /\ AtDoor(c) /\ Open /\ IsDeclared(k) /\ MatchesPointer(k)
    /\ arrivals' = Counted(s)
    /\ releaseOrder' = Append(releaseOrder, k)
    /\ leases' = DropLease(k)
    /\ pointer' = pointer + 1
    /\ lock' = c
    /\ key' = [key EXCEPT ![c] = k]
    /\ pc' = [pc EXCEPT ![c] = "cascading"]
    /\ UNCHANGED <<parked, aborted, signalled, toWake, reapVars>>

\* The arrival is early: the call parks under its key, with a lease.
EnterPark(c, s) ==
    LET k == ArrivalKey(s) IN
    /\ AtDoor(c) /\ Open /\ IsDeclared(k) /\ ~MatchesPointer(k)
    /\ arrivals' = Counted(s)
    /\ parked' = [parked EXCEPT ![k] = c]
    /\ leases' = GrantLease(k)
    /\ key' = [key EXCEPT ![c] = k]
    /\ pc' = [pc EXCEPT ![c] = "blocked"]
    /\ UNCHANGED <<pointer, releaseOrder, aborted, lock, signalled, toWake, reapVars>>

(***************************************************************************)
(* _advance_locked, the loop: release every parked waiter whose turn it    *)
(* now is, setting its event while the lock is held.                       *)
(***************************************************************************)
NeverCascade == FALSE
CascadeGoesOn == ~IsComplete /\ parked[CurrentKey] # NoCall

SetNoEvent(w) == signalled
SetEvent(w) == signalled \cup {w}

Cascade(c) ==
    /\ lock = c /\ CascadeGoesOn
    /\ parked' = Unparked(CurrentKey)
    /\ leases' = DropLease(CurrentKey)
    /\ releaseOrder' = Append(releaseOrder, CurrentKey)
    /\ signalled' = SetEvent(parked[CurrentKey])
    /\ pointer' = pointer + 1
    /\ UNCHANGED <<arrivals, aborted, lock, callVars, toWake, reapVars>>

CascadeEnds(c) ==
    /\ lock = c /\ ~CascadeGoesOn
    /\ lock' = NoCall
    /\ pc' = [pc EXCEPT ![c] = "returning"]
    /\ UNCHANGED <<pointer, arrivals, parked, leases, releaseOrder, aborted, key,
                   signalled, toWake, reapVars>>
-----------------------------------------------------------------------------
(***************************************************************************)
(* Barrier.wait outside the lock.                                          *)
(***************************************************************************)
TrustTheEvent == "returning"
WokenOutcome == IF aborted = NotAborted THEN "returning" ELSE "aborted"

\* The event is set: was it a release or an abort?  _aborted is read unlocked.
Woken(c) == pc[c] = "blocked" /\ c \in signalled /\ Goto(c, WokenOutcome)

Return(c) == pc[c] = "returning" /\ Goto(c, "returned")

\* Event.wait gives up; nothing is removed until the lock is taken.
GiveUp(c) == Timed /\ pc[c] = "blocked" /\ c \notin signalled /\ Goto(c, "gaveup")

\* The timed-out waiter removes itself and raises BarrierTimeout.
TimeOut(c) ==
    /\ pc[c] = "gaveup" /\ lock = NoCall
    /\ parked' = Unparked(key[c])
    /\ leases' = DropLease(key[c])
    /\ pc' = [pc EXCEPT ![c] = "timedout"]
    /\ UNCHANGED <<pointer, arrivals, releaseOrder, aborted, lock, key, signalled,
                   toWake, reapVars>>
-----------------------------------------------------------------------------
(***************************************************************************)
(* Barrier.abort: the first reason wins; the waiters are taken out under   *)
(* the lock and woken, one by one, after it.                               *)
(***************************************************************************)
AbortLocked(reason) ==
    /\ lock = NoCall
    /\ aborted' = IF aborted = NotAborted THEN reason ELSE aborted
    /\ toWake' = toWake \cup ParkedCalls
    /\ parked' = [k \in Declared |-> NoCall]
    /\ leases' = [k \in Declared |-> NoLease]
    /\ UNCHANGED <<pointer, arrivals, releaseOrder, lock, callVars, signalled>>

Abort(reason) == AbortLocked(reason) /\ UNCHANGED reapVars

WakeAborted(c) ==
    /\ c \in toWake
    /\ toWake' = toWake \ {c}
    /\ signalled' = signalled \cup {c}
    /\ UNCHANGED <<pointer, arrivals, parked, leases, releaseOrder, aborted, lock,
                   callVars, reapVars>>

(***************************************************************************)
(* Barrier.heartbeat.                                                      *)
(***************************************************************************)
Heartbeat(k) ==
    /\ lock = NoCall /\ leases[k] # NoLease
    /\ leases' = GrantLease(k)
    /\ UNCHANGED <<pointer, arrivals, parked, releaseOrder, aborted, lock, signalled,
                   toWake, callVars, reapVars>>

(***************************************************************************)
(* Reaper._run and Barrier.reap: the clock is read before the lock is      *)
(* taken, and the lock is dropped between finding a lapsed lease and       *)
(* aborting because of it.                                                 *)
(***************************************************************************)
LapsedStrictly(k) == leases[k] # NoLease /\ leases[k] < reapClock
Lapsed(k) == leases[k] # NoLease /\ leases[k] <= reapClock

ReaperReadsClock ==
    /\ reaper = "sleeping"
    /\ IF Open
       THEN reaper' = "scanning" /\ reapClock' = now
       ELSE reaper' = "stopped" /\ UNCHANGED reapClock
    /\ UNCHANGED <<shared, callVars, now>>

ReaperScans ==
    /\ reaper = "scanning" /\ lock = NoCall
    /\ reaper' = IF \E k \in Declared : Lapsed(k) THEN "aborting" ELSE "sleeping"
    /\ UNCHANGED <<shared, callVars, now, reapClock>>

ReaperAborts ==
    /\ reaper = "aborting"
    /\ AbortLocked(LapsedReason)
    /\ reaper' = "sleeping"
    /\ UNCHANGED <<now, reapClock>>

\* Time passes, up to the bound of the model.
Tick ==
    /\ now < MaxTime
    /\ now' = now + 1
    /\ UNCHANGED <<shared, callVars, reaper, reapClock>>
-----------------------------------------------------------------------------
Enter(c) ==
    \/ EnterAborted(c)
    \/ \E s \in Arrivable : EnterUndeclared(c, s) \/ EnterNext(c, s) \/ EnterPark(c, s)

Proceed(c) ==
    Cascade(c) \/ CascadeEnds(c) \/ Woken(c) \/ Return(c) \/ TimeOut(c) \/ WakeAborted(c)

Reap == ReaperReadsClock \/ ReaperScans \/ ReaperAborts

Next ==
    \/ \E c \in Calls : Enter(c) \/ Proceed(c) \/ GiveUp(c)
    \/ \E r \in Reasons : Abort(r)
    \/ \E k \in Declared : Heartbeat(k)
    \/ Reap
    \/ Tick

Spec == Init /\ [][Next]_vars

(***************************************************************************)
(* Threads that are able to run do run; requests, heartbeats and external  *)
(* aborts need never come.                                                 *)
(***************************************************************************)
Fairness ==
    /\ \A c \in Calls : WF_vars(Proceed(c))
    /\ WF_vars(Reap)

FairSpec == Spec /\ Fairness
-----------------------------------------------------------------------------
(***************************************************************************)
(* Correctness.                                                            *)
(***************************************************************************)
Released(k) == \E i \in 1..Len(releaseOrder) : releaseOrder[i] = k
HasArrived(k) == \E c \in Calls : key[c] = k
OccurrencesOf(s) == Cardinality({i \in 1..Len(Steps) : Steps[i] = s})

\* The state has its type.  No pair is counted more often than it is declared:
\* an arrival that Schedule.arrive rejects leaves no trace.
TypeOK ==
    /\ pointer \in 0..Len(Steps)
    /\ arrivals \in [Arrivable -> Nat]
    /\ \A s \in Arrivable : arrivals[s] <= OccurrencesOf(s)
    /\ parked \in [Declared -> Calls \cup {NoCall}]
    /\ leases \in [Declared -> Nat \cup {NoLease}]
    /\ releaseOrder \in Seq(Declared)
    /\ aborted \in Reasons \cup {LapsedReason, NotAborted}
    /\ lock \in Calls \cup {NoCall}
    /\ pc \in [Calls -> {"outside", "blocked", "cascading", "returning", "returned",
                         "aborted", "undeclared", "gaveup", "timedout"}]
    /\ key \in [Calls -> Declared \cup {NoKey}]
    /\ signalled \subseteq Calls
    /\ toWake \subseteq Calls
    /\ now \in 0..MaxTime
    /\ reaper \in {"sleeping", "scanning", "aborting", "stopped"}
    /\ reapClock \in Nat

\* The barrier's reason to exist: whatever the order of arrivals, timeouts,
\* heartbeats and reaper steps, what was released is a prefix of what was declared.
ReleasesFollowSchedule ==
    /\ Len(releaseOrder) = pointer
    /\ \A i \in 1..pointer : releaseOrder[i] = KeyAt(i)

\* No lost wake-up: between critical sections the schedule never waits for a key
\* that is parked, so a waiter whose turn has come is never left behind.
NoWaiterLeftBehind ==
    lock = NoCall /\ ~IsComplete => parked[CurrentKey] = NoCall

\* A default-releasing barrier manufactures results: a call goes on only if its own
\* arrival was released, never because an abort or a timeout woke it.
OnlyReleasedCallsReturn ==
    \A c \in Calls :
        pc[c] \in {"cascading", "returning", "returned"} => Released(key[c])

\* The dictionary loses no waiter: a blocked call that nobody has woken or is about
\* to wake is the one found under its key, and no other call has that key.
BlockedCallsAreParked ==
    /\ \A c \in Calls :
        pc[c] = "blocked" /\ c \notin signalled \cup toWake => parked[key[c]] = c
    /\ \A c, d \in Calls : c # d /\ key[c] # NoKey => key[c] # key[d]

\* A lease never outlives the waiter it was granted to: otherwise the reaper would
\* abort a healthy run over a call that went on long ago.
LeasesHaveWaiters ==
    \A k \in Declared : leases[k] # NoLease => parked[k] # NoCall

\* Fail closed: once aborted, the schedule is frozen and nobody parks again.
AbortIsFinal ==
    [][aborted # NotAborted =>
        /\ UNCHANGED <<pointer, arrivals, parked, releaseOrder>>
        /\ aborted' = aborted]_vars

\* The barrier implements OrderedRelease.
Promise == INSTANCE OrderedRelease WITH
    Order <- DeclaredOrder,
    arrived <- {k \in Declared : HasArrived(k)},
    released <- releaseOrder,
    failed <- aborted # NotAborted,
    resumed <- {k \in Declared : \E c \in Calls : key[c] = k /\ pc[c] = "returned"}

ImplementsOrderedRelease == Promise!AbsSpec

Ended(c) == pc[c] \in {"returned", "aborted", "undeclared", "timedout"}

\* No hang on the release path: a call whose predecessors have all arrived ends,
\* even without a timeout.
ArrivedPrefixIsServed ==
    \A c \in Calls :
        (/\ pc[c] = "blocked"
         /\ \A i \in 1..(IndexOf(key[c]) - 1) : HasArrived(KeyAt(i))) ~> Ended(c)

\* No hang on the failure path: an abort wakes every waiter, even without a timeout.
AbortWakesEveryWaiter ==
    \A c \in Calls : (aborted # NotAborted /\ pc[c] = "blocked") ~> Ended(c)

\* A dead actor becomes an explicit failure: a lapsed lease is refreshed, or its
\* waiter released, or the run aborted; it does not stay lapsed.
LapsedLeasesAreReaped ==
    \A k \in Declared :
        (leases[k] # NoLease /\ leases[k] <= now)
            ~> (leases[k] = NoLease \/ leases[k] > now)

\* What the exceptions say of themselves: BarrierTimeout is "A waiter was never
\* released", BarrierAborted "Parked waiters are woken but never released".
FailedCallsWereNotReleased ==
    \A c \in Calls : pc[c] \in {"timedout", "aborted"} => ~Released(key[c])
=============================================================================
