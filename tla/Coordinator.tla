----------------------------- MODULE Coordinator -----------------------------
(***************************************************************************)
(* The HTTP surface of the coordinator (apps/coordinator/main.py).  Every  *)
(* request is handled by a thread of its own, and the handlers share       *)
(* module globals which they read again at each use, without a lock; the   *)
(* lock of the module only keeps two declarations apart.  A step is one    *)
(* such reading with the decision taken on it.  A declaration makes a new  *)
(* run with a barrier of its own, and the barrier of an earlier run lives  *)
(* on for the threads that wait in it.  Within a run the barrier is taken  *)
(* as what module Barrier shows it to be: arrival, release, abort and      *)
(* timeout are one step each.  The reaper of a run is named by the run;    *)
(* its global is read, written and read again in steps of their own.       *)
(***************************************************************************)
EXTENDS Schedule

CONSTANTS
    Requests,   \* requests to /await, each made once
    Ops,        \* requests to /declare and /reset, each made once
    IdOf,       \* the schedule_id each run is declared with
    FaultsOf,   \* the faults each run is declared with
    Ids, NoId,  \* X-Schedule-Id of a request, NoId when it has none
    NoActor,    \* X-Actor-Id of a request that has none
    NoKey

\* No more runs than there are requests to declare one.
Runs == 1..Cardinality(Ops)
NoRun == 0

ASSUME CoordinatorAssumption ==
    /\ IsFiniteSet(Ops)
    /\ IdOf \in [Runs -> Ids]
    /\ FaultsOf \in [Runs -> SUBSET Declared]
    /\ NoId \notin Ids
    /\ NoKey \notin Declared

VARIABLES
    current,    \* _barrier and _schedule: the run they belong to
    faults,     \* _faults
    reaper,     \* _reaper: the run whose barrier it reaps
    reapers,    \* runs whose reaper thread is running
    stopped,    \* runs whose reaper was told to stop: Reaper._stop
    declared,   \* how many runs were declared
    pointer,    \* per run: Schedule._pointer
    arrivals,   \* per run: Schedule._arrivals
    aborted,    \* runs whose barrier is aborted
    pc,         \* where each request to /await is
    pair,       \* the actor and checkpoint it names
    id,         \* the schedule it names
    run,        \* the run it last looked at, then the one it waits in
    key,        \* the key it arrived with
    opPc,       \* where each declaration or reset is
    opRun,      \* the run a declaration has made
    opReaper    \* the reaper it is about to stop or to start

globals == <<current, faults, reaper, reapers, stopped, declared>>
barriers == <<pointer, arrivals, aborted>>
requests == <<pc, pair, id, run, key>>
ops == <<opPc, opRun, opReaper>>
vars == <<globals, barriers, requests, ops>>

Init ==
    /\ current = NoRun
    /\ faults = {}
    /\ reaper = NoRun
    /\ reapers = {}
    /\ stopped = {}
    /\ declared = 0
    /\ pointer = [g \in Runs |-> 0]
    /\ arrivals = [g \in Runs |-> [s \in Arrivable |-> 0]]
    /\ aborted = {}
    /\ pc = [q \in Requests |-> "idle"]
    /\ pair = [q \in Requests |-> <<NoActor, NoActor>>]
    /\ id = [q \in Requests |-> NoId]
    /\ run = [q \in Requests |-> NoRun]
    /\ key = [q \in Requests |-> NoKey]
    /\ opPc = [o \in Ops |-> "idle"]
    /\ opRun = [o \in Ops |-> NoRun]
    /\ opReaper = [o \in Ops |-> NoRun]
-----------------------------------------------------------------------------
(***************************************************************************)
(* The barrier of a run.                                                   *)
(***************************************************************************)
KnownActors == {Steps[i][1] : i \in 1..Len(Steps)}

Released(g, k) == IndexOf(k) <= pointer[g]
ParkedKeys(g) ==
    {k \in Declared : /\ ~Released(g, k)
                      /\ \E q \in Requests : pc[q] = "parked" /\ run[q] = g /\ key[q] = k}

\* How far the pointer gets when k is released: over every key parked behind it.
ParkedUpTo(g, k) ==
    {n \in (IndexOf(k) + 1)..Len(Steps) :
        \A i \in (IndexOf(k) + 1)..n : KeyAt(i) \in ParkedKeys(g)}
Cascaded(g, k) == IndexOf(k) + Cardinality(ParkedUpTo(g, k))
-----------------------------------------------------------------------------
(***************************************************************************)
(* await_checkpoint.                                                       *)
(***************************************************************************)
Goto(q, place) ==
    /\ pc' = [pc EXCEPT ![q] = place]
    /\ UNCHANGED <<globals, barriers, pair, id, key, ops>>

Await(q, s, i) ==
    /\ pc[q] = "idle"
    /\ pc' = [pc EXCEPT ![q] = "arrived"]
    /\ pair' = [pair EXCEPT ![q] = s]
    /\ id' = [id EXCEPT ![q] = i]
    /\ UNCHANGED <<globals, barriers, run, key, ops>>

CheckDeclared(q) ==
    /\ pc[q] = "arrived"
    /\ Goto(q, IF current = NoRun THEN "undeclared" ELSE "declared")
    /\ UNCHANGED run

\* From here on a global that has become None is an internal error.
Crash(q) ==
    /\ pc[q] \in {"declared", "identifying", "entering"}
    /\ current = NoRun
    /\ Goto(q, "crashed")
    /\ UNCHANGED run

CheckAborted(q) ==
    /\ pc[q] = "declared" /\ current # NoRun
    /\ Goto(q, IF current \in aborted THEN "refused" ELSE "identifying")
    /\ run' = [run EXCEPT ![q] = current]

\* Missing headers, another schedule, an unknown actor: the run is to be aborted.
Identified(q) ==
    /\ pair[q][1] # NoActor /\ id[q] # NoId
    /\ id[q] = IdOf[current]
    /\ pair[q][1] \in KnownActors

Identify(q) ==
    /\ pc[q] = "identifying" /\ current # NoRun
    /\ Goto(q, IF Identified(q) THEN "entering" ELSE "aborting")
    /\ run' = [run EXCEPT ![q] = current]

\* Barrier.wait, on the barrier that is current now.
ArrivalKey(q) == <<pair[q], arrivals[current][pair[q]]>>

OpenToAll == TRUE
Open == current \notin aborted

EnterRefused(q) ==
    /\ pc[q] = "entering" /\ current # NoRun
    /\ \/ ~Open /\ Goto(q, "refused")
       \/ Open /\ ArrivalKey(q) \notin Declared /\ Goto(q, "aborting")
    /\ run' = [run EXCEPT ![q] = current]

Enter(q) ==
    LET k == ArrivalKey(q)
        next == IndexOf(k) = pointer[current] + 1
    IN
    /\ pc[q] = "entering" /\ current # NoRun
    /\ Open /\ k \in Declared
    /\ arrivals' = [arrivals EXCEPT ![current][pair[q]] = @ + 1]
    /\ pointer' = [pointer EXCEPT ![current] = IF next THEN Cascaded(current, k) ELSE @]
    /\ pc' = [pc EXCEPT ![q] = IF next THEN "released" ELSE "parked"]
    /\ run' = [run EXCEPT ![q] = current]
    /\ key' = [key EXCEPT ![q] = k]
    /\ UNCHANGED <<globals, aborted, pair, id, ops>>

WakeIgnoringAbort(q) ==
    /\ pc[q] = "parked"
    /\ run[q] \in aborted \/ Released(run[q], key[q])
    /\ Goto(q, "released")
    /\ UNCHANGED run
Wake(q) ==
    /\ pc[q] = "parked"
    /\ \/ run[q] \in aborted /\ Goto(q, "refused")
       \/ run[q] \notin aborted /\ Released(run[q], key[q]) /\ Goto(q, "released")
    /\ UNCHANGED run

\* The timeout may come while a release or an abort is on its way.
TimeOut(q) ==
    pc[q] = "parked" /\ Goto(q, "aborting") /\ UNCHANGED run

\* _abort, on the barrier that is current now, and the answer after it.
AbortedByNobody == aborted
AbortedNow == aborted \cup ({current} \ {NoRun})

AbortRun(q) ==
    /\ pc[q] = "aborting"
    /\ aborted' = AbortedNow
    /\ pc' = [pc EXCEPT ![q] = "error"]
    /\ UNCHANGED <<globals, pointer, arrivals, pair, id, run, key, ops>>

Respond(q) ==
    /\ pc[q] = "released"
    /\ Goto(q, IF key[q] \in faults THEN "faulted" ELSE "ok")
    /\ UNCHANGED run
-----------------------------------------------------------------------------
(***************************************************************************)
(* declare and reset.  Both go through reset_state; only reset aborts.     *)
(***************************************************************************)
\* Nobody is between taking the module's lock and dropping it.
NoLock == TRUE
LockFree == \A o \in Ops : opPc[o] # "faulting"

TakeReaper(o, place) ==
    /\ opReaper' = [opReaper EXCEPT ![o] = reaper]
    /\ opPc' = [opPc EXCEPT ![o] = place]
    /\ UNCHANGED <<globals, barriers, requests, opRun>>

Declare(o) == opPc[o] = "idle" /\ TakeReaper(o, "replacing")

Reset(o) ==
    /\ opPc[o] = "idle"
    /\ aborted' = AbortedNow
    /\ opPc' = [opPc EXCEPT ![o] = "resetting"]
    /\ UNCHANGED <<globals, pointer, arrivals, requests, opRun, opReaper>>

ResetTakes(o) == opPc[o] = "resetting" /\ TakeReaper(o, "stopping")

\* Somebody is in Reaper.start of this reaper: its thread is made, and may not run yet.
BeingStarted(g, others) == \E o \in others : opPc[o] = "launched" /\ opReaper[o] = g

\* Reaper.stop on the reaper that was read; to join a thread that does not run yet raises.
StopReaper(o) ==
    /\ opPc[o] \in {"replacing", "stopping"}
    /\ reaper' = NoRun
    /\ reapers' = reapers \ {opReaper[o]}
    /\ stopped' = stopped \cup ({opReaper[o]} \ {NoRun})
    /\ \/ opPc' = [opPc EXCEPT ![o] = IF @ = "replacing" THEN "redeclaring" ELSE "clearing"]
       \/ BeingStarted(opReaper[o], Ops) /\ opPc' = [opPc EXCEPT ![o] = "crashed"]
    /\ UNCHANGED <<current, faults, declared, barriers, requests, opRun, opReaper>>

Clear(o) ==
    /\ opPc[o] \in {"redeclaring", "clearing"} /\ LockFree
    /\ current' = NoRun
    /\ faults' = {}
    /\ opPc' = [opPc EXCEPT ![o] = IF @ = "clearing" THEN "done" ELSE "installing"]
    /\ UNCHANGED <<reaper, reapers, stopped, declared, barriers, requests, opRun, opReaper>>

InstallBarrier(o) ==
    /\ opPc[o] = "installing" /\ LockFree
    /\ declared' = declared + 1
    /\ current' = declared + 1
    /\ opRun' = [opRun EXCEPT ![o] = declared + 1]
    /\ opPc' = [opPc EXCEPT ![o] = "faulting"]
    /\ UNCHANGED <<faults, reaper, reapers, stopped, barriers, requests, opReaper>>

InstallFaults(o) ==
    /\ opPc[o] = "faulting"
    /\ faults' = FaultsOf[opRun[o]]
    /\ opPc' = [opPc EXCEPT ![o] = "starting"]
    /\ UNCHANGED <<current, reaper, reapers, stopped, declared, barriers, requests>>
    /\ UNCHANGED <<opRun, opReaper>>

\* The lock is dropped; the reaper goes through the global, which is read again.
AssignReaper(o) ==
    /\ opPc[o] = "starting"
    /\ reaper' = opRun[o]
    /\ opPc' = [opPc EXCEPT ![o] = "launching"]
    /\ UNCHANGED <<current, faults, reapers, stopped, declared, barriers, requests>>
    /\ UNCHANGED <<opRun, opReaper>>

LookUpReaper(o) ==
    opPc[o] = "launching" /\ TakeReaper(o, IF reaper = NoRun THEN "crashed" ELSE "launched")

\* Reaper.start on the reaper that was read.  The thread of one that was told to stop ends
\* at once, and to start a thread that another start has put there and started raises.
StartReaper(o) ==
    /\ opPc[o] = "launched"
    /\ reapers' = reapers \cup ({opReaper[o]} \ stopped)
    /\ \/ opPc' = [opPc EXCEPT ![o] = "done"]
       \/ BeingStarted(opReaper[o], Ops \ {o}) /\ opPc' = [opPc EXCEPT ![o] = "crashed"]
    /\ UNCHANGED <<current, faults, reaper, stopped, declared, barriers, requests>>
    /\ UNCHANGED <<opRun, opReaper>>

\* A lease of the run has lapsed.
Reap(g) ==
    /\ g \in reapers \ aborted
    /\ ParkedKeys(g) # {}
    /\ aborted' = aborted \cup {g}
    /\ UNCHANGED <<globals, pointer, arrivals, requests, ops>>
-----------------------------------------------------------------------------
Handle(q) ==
    \/ CheckDeclared(q) \/ Crash(q) \/ CheckAborted(q) \/ Identify(q)
    \/ EnterRefused(q) \/ Enter(q) \/ Wake(q) \/ TimeOut(q) \/ AbortRun(q) \/ Respond(q)

Operate(o) ==
    \/ ResetTakes(o) \/ StopReaper(o) \/ Clear(o) \/ InstallBarrier(o) \/ InstallFaults(o)
    \/ AssignReaper(o) \/ LookUpReaper(o) \/ StartReaper(o)

Next ==
    \/ \E q \in Requests :
        \/ \E s \in Arrivable, i \in Ids \cup {NoId} : Await(q, s, i)
        \/ Handle(q)
    \/ \E o \in Ops : Declare(o) \/ Reset(o) \/ Operate(o)
    \/ \E g \in Runs : Reap(g)

Spec == Init /\ [][Next]_vars

-----------------------------------------------------------------------------
(***************************************************************************)
(* Correctness.                                                            *)
(***************************************************************************)
\* No release is made up: whoever is let go on, or is told of an injected fault, was
\* released by the very run it waited in, and no other request got that release, also
\* when the run was replaced, reset or aborted while the request was being handled.
OnlyReleasedGoOn ==
    /\ \A q \in Requests : pc[q] \in {"ok", "faulted"} => Released(run[q], key[q])
    /\ \A p, q \in Requests : p # q /\ key[p] # NoKey => <<run[p], key[p]>> # <<run[q], key[q]>>

\* Every error path aborts the run: once an error was answered, the run the request was in
\* releases nobody any more, whoever arrives there or is parked there, and also when a
\* declaration or a reset has taken it out of the globals before the error was found.
ErrorsStopTheRun ==
    [][\A q \in Requests : pc[q] = "error" => pointer'[run[q]] = pointer[run[q]]]_vars

\* An aborted run releases nobody any more, however late its waiters wake up.
AbortedRunsReleaseNobody ==
    [][\A q \in Requests :
        pc[q] # "released" /\ pc'[q] = "released" => run'[q] \notin aborted]_vars

\* Over: no declaration and no reset is under way.
Over(o) == opPc[o] \in {"idle", "done", "crashed"}

\* The declaration of run g has started the reaper of another run.
WentAstray(g) == \E o \in Ops : opRun[o] = g /\ opReaper[o] \notin {NoRun, g}

\* A reset or a declaration has failed in Reaper.stop.
StopFailed(o) == opPc[o] = "crashed" /\ opRun[o] = NoRun

\* However declarations and resets overlap, when they are over the faults that are injected
\* are those of the run that is served, and its leases are reaped.  Two overlaps excepted,
\* after which a run is served that no reaper looks after: its own declaration started the
\* reaper of another one that came between main.py:88 and 89, or an operation stopped its
\* reaper while it was being started, and failed before it took the run away.
QuietRunIsWhole ==
    (\A o \in Ops : Over(o)) /\ current # NoRun =>
        /\ faults = FaultsOf[current]
        /\ \/ current \in reapers
           \/ WentAstray(current)
           \/ \E o \in Ops : StopFailed(o)

\* main.py: "there is deliberately no code path that returns a release once the run
\* is aborted".
NoReleaseAfterAbort ==
    [][\A q \in Requests : pc[q] # "ok" /\ pc'[q] = "ok" => run[q] \notin aborted]_vars

\* A run that is known was declared.
KnownRuns == 0..declared

\* The state has its type, and no request or operation has a run that was not declared.
TypeOK ==
    /\ declared \in 0..Cardinality(Ops)
    /\ current \in KnownRuns /\ reaper \in KnownRuns
    /\ reapers \subseteq Runs /\ stopped \subseteq KnownRuns /\ aborted \subseteq Runs
    /\ faults \subseteq Declared
    /\ pointer \in [Runs -> Nat]
    /\ arrivals \in [Runs -> [Arrivable -> Nat]]
    /\ pc \in [Requests ->
            {"idle", "arrived", "undeclared", "declared", "crashed", "refused", "identifying",
             "entering", "parked", "released", "aborting", "error", "ok", "faulted"}]
    /\ pair \in [Requests -> Arrivable \cup {<<NoActor, NoActor>>}]
    /\ id \in [Requests -> Ids \cup {NoId}]
    /\ run \in [Requests -> KnownRuns]
    /\ key \in [Requests -> Declared \cup {NoKey}]
    /\ opPc \in [Ops -> {"idle", "replacing", "resetting", "stopping", "redeclaring",
                         "clearing", "installing", "faulting", "starting", "launching",
                         "launched", "done", "crashed"}]
    /\ opRun \in [Ops -> KnownRuns]
    /\ opReaper \in [Ops -> KnownRuns]
=============================================================================
