------------------------------- MODULE LabRun -------------------------------
(***************************************************************************)
(* A whole run of the lab: the runner dispatches actors to a pool of       *)
(* workers, collects what they report and has the oracle judge the case    *)
(* (schedules/runner.py and llm_arms.py, agents/diligent/pool.py, oracle). *)
(* The actors are the agents of Compensation, projectors of the CRM        *)
(* (Projection) and redeliverers.  In a run with a declared schedule they  *)
(* and the services ask the coordinator at each checkpoint, which appears  *)
(* here by what it promises (OrderedRelease) and by what its HTTP surface  *)
(* makes of that; in the others nothing orders them.                       *)
(***************************************************************************)
EXTENDS Compensation

CONSTANTS
    Projectors, Redeliverers,   \* actors that are no agents
    Schedules,                  \* what is run: see ScheduleAssumption
    CheckpointAt,               \* what the checkpoints of either service are called
    MaxLost,                    \* bound: how many workers may die
    NoService, NoEvent, NoCheckpoint

Actors == Agents \cup Projectors \cup Redeliverers

ASSUME ScheduleAssumption == \A s \in Schedules :
    /\ s.experiment \in Experiments
    /\ s.actors \in Seq(Actors)     \* in the order in which they are dispatched
    /\ s.actors # <<>> /\ \A i, j \in DOMAIN s.actors : s.actors[i] = s.actors[j] => i = j
    /\ \A i \in DOMAIN s.actors :
        s.actors[i] \in Agents => s.actors[i] \in DOMAIN s.experiment.config
    /\ s.ordered \in BOOLEAN        \* schedules/*.yaml, or an arm of llm_arms.py
    /\ s.faulty \in BOOLEAN         \* services and connections may fail
    /\ s.order \in Seq(Services)    \* projection_order, or all of them
    /\ s.expect \in Nat             \* the total the file or its test expects
    /\ s.pinned \in BOOLEAN         \* its steps leave nothing to chance
    /\ s.raises \subseteq Actors    \* the actors that must fail
    /\ DOMAIN s.sees \subseteq Agents   \* what the file says its agents observe

ASSUME EventsAssumption ==
    /\ 1..Cardinality(Agents) \subseteq EventIds   \* outbox ids do not run out
    /\ NoService \notin Services

VARIABLES
    schedule,
    arrived, released, failed, resumed, \* see module OrderedRelease
    gate,           \* what became of each actor's request at its checkpoint
    appliedEvents, crmTotal, crmPc, crmCase, todo, service, batch, event, polled,
                    \* see module Projection
    redelivering,   \* what each redeliverer has yet to ask for
    inbox,          \* the pool's: actors that no worker has taken yet
    running,        \* actors a worker has taken
    results,        \* the outbox of the pool: who has reported
    phase,          \* where the runner is
    readings,       \* what the oracle read, one database at a time
    lost,           \* actors whose worker died
    disturbed       \* history: a wait timed out, or a worker died

Timetable(steps) ==
    INSTANCE Schedule WITH Steps <- steps, Arrivable <- {steps[i] : i \in DOMAIN steps}
Release(order) == INSTANCE OrderedRelease WITH Order <- order
CRM == INSTANCE Projection
    WITH Requests <- Agents, Keys <- Agents, Cases <- {Case}, pc <- crmPc, case <- crmCase,
         total <- crmTotal, Orders <- {s.order : s \in Schedules}

agentSide == <<experiment, hold, agentVars>>
barrierVars == <<arrived, released, failed, resumed>>
crmSide == <<appliedEvents, crmTotal, crmPc, crmCase, todo, service, batch, event, polled>>
poolVars == <<inbox, running, results>>
runnerVars == <<phase, readings>>
actorVars == <<vars, crmSide, redelivering>>
runVars == <<actorVars, schedule, barrierVars, gate, poolVars, runnerVars, lost, disturbed>>

\* expected_release_order, and the run's own.
ReleaseOrder == [s \in Schedules |-> Timetable(s.steps)!DeclaredOrder]
Executed == released = ReleaseOrder[schedule]

Init ==
    /\ AgentsInit
    /\ schedule \in Schedules /\ experiment = schedule.experiment
    /\ \E s \in Schedules : s = schedule /\ Release(ReleaseOrder[s])!AbsInit
    /\ gate = [x \in Actors |-> "closed"]
    /\ CRM!Init
    /\ redelivering = [r \in Redeliverers |-> <<>>]
    /\ inbox = <<>> /\ running = {} /\ results = {}
    /\ phase = "dispatching" /\ readings = <<>>
    /\ lost = {} /\ disturbed = FALSE
-----------------------------------------------------------------------------
(***************************************************************************)
(* Checkpoints: BarrierClient.checkpoint, called by the actor or, on its   *)
(* behalf, by the service that handles its request; /await answers.        *)
(***************************************************************************)
\* Where it asks before it goes on.
AgentCheckpoint(a) ==
    CASE pc[a] = "reading" -> "agent.before_reads"
      [] pc[a] = "deciding" -> "agent.after_reads_before_act"
      [] pc[a] = "reserving" -> "agent.before_reserve"
      [] pc[a] \in {"inserting", "answering"} -> CheckpointAt[Config(a).target][pc[a]]
      [] OTHER -> NoCheckpoint

ProjectorCheckpoint(p) ==
    CASE crmPc[p] = "polling" /\ service[p] = NoService -> "crm.before_poll"
      [] crmPc[p] = "applying" /\ batch[p] # {} -> "crm.before_apply_event"
      [] OTHER -> NoCheckpoint

\* An arm has no BarrierClient, and its services run with BARRIER_ENABLED=0.
Checkpoint(x) ==
    IF ~schedule.ordered THEN NoCheckpoint
    ELSE IF x \in Agents THEN AgentCheckpoint(x)
    ELSE IF x \in Projectors THEN ProjectorCheckpoint(x) ELSE NoCheckpoint

\* The keys of its last request, and of the one it is about to make.
Occurrences(x) == Cardinality({k \in arrived : k[1] = <<x, Checkpoint(x)>>})
LastKey(x) == <<<<x, Checkpoint(x)>>, Occurrences(x) - 1>>
NextKey(x) == <<<<x, Checkpoint(x)>>, Occurrences(x)>>

\* A worker that died asks nothing; a service goes on with what it was asked.
AtService(x) == x \in Agents /\ pc[x] \in {"inserting", "answering"}
Alive(x) == x \notin lost \/ AtService(x)

Answered(x, answer) == gate' = [gate EXCEPT ![x] = answer]

\* A request outside the schedule makes the coordinator abort the run, a step later.
Arrive(x) ==
    /\ gate[x] = "closed" /\ Checkpoint(x) # NoCheckpoint /\ Alive(x)
    /\ \/ failed /\ Answered(x, "refused") /\ UNCHANGED barrierVars
       \/ \E s \in Schedules :
            /\ s = schedule
            /\ Release(ReleaseOrder[s])!AbsArrive(NextKey(x))
            /\ Answered(x, IF Len(released') > Len(released) THEN "released" ELSE "parked")
       \/ /\ ~failed
          /\ \A i \in DOMAIN ReleaseOrder[schedule] :
                ReleaseOrder[schedule][i] # NextKey(x)
          /\ Answered(x, "aborting") /\ UNCHANGED barrierVars

\* The cascade comes to a request that was parked.
Cascade(x) ==
    /\ gate[x] = "parked"
    /\ \E s \in Schedules :
        s = schedule /\ Release(ReleaseOrder[s])!AbsRelease(LastKey(x))
    /\ UNCHANGED gate

\* One that was parked looks for an abort when it wakes, one that was not does not.
Resume(x) ==
    /\ gate[x] = "released" \/ (gate[x] = "parked" /\ ~failed)
    /\ \E s \in Schedules :
        s = schedule /\ Release(ReleaseOrder[s])!AbsResume(LastKey(x))
    /\ Answered(x, IF LastKey(x) \in schedule.faults THEN "dropped" ELSE "open")

Refuse(x) ==
    /\ gate[x] = "parked" /\ failed
    /\ Answered(x, "refused")
    /\ UNCHANGED barrierVars

Abort(x) ==
    /\ gate[x] = "aborting"
    /\ \E s \in Schedules : s = schedule /\ Release(ReleaseOrder[s])!AbsFail
    /\ Answered(x, "refused")

BarrierStep(x) ==
    /\ Arrive(x) \/ Cascade(x) \/ Resume(x) \/ Refuse(x) \/ Abort(x)
    /\ UNCHANGED <<actorVars, schedule, poolVars, runnerVars, lost, disturbed>>

\* timeout_seconds, or the lease that is as long, are over.
Timeout(x) ==
    /\ gate[x] = "parked" /\ ~failed
    /\ \A i \in DOMAIN released : released[i] # LastKey(x)
    /\ Answered(x, "aborting")
    /\ disturbed' = TRUE
    /\ UNCHANGED <<actorVars, schedule, barrierVars, poolVars, runnerVars, lost>>

\* What an actor does next, it does once the checkpoint there is lets it.
NobodyAsks(x) == Alive(x)
Passes(x) == Alive(x) /\ (Checkpoint(x) = NoCheckpoint \/ gate[x] = "open")
TurnedAway(x) == Alive(x) /\ gate[x] \in {"refused", "dropped"}
-----------------------------------------------------------------------------
(***************************************************************************)
(* Actors, each run by a worker of its own.                                *)
(***************************************************************************)
\* What the CRM answers an agent.
ProjectedAmount(e) ==
    crmTotal[e] * Amount((CHOOSE v \in outbox[e[1]] : v.id = e[2]).entity)
Projected == Total([e \in appliedEvents |-> ProjectedAmount(e)], appliedEvents)

\* An agent that is turned away raises; while its request is at the service, that
\* answers with an error, and the agent may retry or give back what it holds.
RunAgent(a) ==
    \/ /\ Passes(a)
       /\ AgentStep(a) \/ ObserveCrm(a, Projected)
    \/ TurnedAway(a) /\ AtService(a) /\ CreateFails(a)
    \/ /\ TurnedAway(a) /\ ~AtService(a)
       /\ Goto(a, "raised")
       /\ UNCHANGED <<stores, experiment, hold, observed, tried, reserved, modelVars, lossVars>>

RunProjector(p) ==
    \/ Passes(p) /\ CRM!Proceed(p)
    \/ TurnedAway(p) /\ CRM!Fail(p)

\* run_redeliver asks one service, then the other, and no checkpoint.
RunRedeliver(r) ==
    /\ redelivering[r] # <<>> /\ Alive(r)
    /\ CRM!Redeliver(Head(redelivering[r]), Case)
    /\ redelivering' = [redelivering EXCEPT ![r] = Tail(@)]

ActorStep(x) ==
    /\ x \in running
    /\ \/ x \in Agents /\ RunAgent(x) /\ UNCHANGED <<crmSide, redelivering>>
       \/ x \in Projectors /\ RunProjector(x) /\ UNCHANGED <<agentSide, redelivering>>
       \/ x \in Redeliverers /\ RunRedeliver(x) /\ UNCHANGED <<agentSide, crmSide>>
    /\ Answered(x, "closed")
    /\ UNCHANGED <<schedule, barrierVars, poolVars, runnerVars, lost, disturbed>>

\* Something fails, or what an agent gave up on happens after all.
ActorSuffers(x) ==
    /\ x \in Agents /\ schedule.faulty
    /\ \/ x \in running /\ Alive(x) /\ Failure(x)
       \/ LandLate(x)
    /\ UNCHANGED <<crmSide, redelivering, schedule, barrierVars, gate, poolVars, runnerVars,
                   lost, disturbed>>
-----------------------------------------------------------------------------
(***************************************************************************)
(* The pool: a worker takes the job that has waited longest, runs it and   *)
(* reports.                                                                *)
(***************************************************************************)
ActorsOf == {schedule.actors[i] : i \in DOMAIN schedule.actors}
PoolSize == Len(schedule.actors)

Take(x) ==
    /\ inbox # <<>> /\ x = Head(inbox) /\ Cardinality(running) < PoolSize
    /\ inbox' = Tail(inbox)
    /\ running' = running \cup {x}
    /\ \/ x \in Agents /\ Start(x) /\ UNCHANGED <<crmSide, redelivering>>
       \/ x \in Projectors /\ CRM!Start(x, Case, schedule.order)
            /\ UNCHANGED <<agentSide, redelivering>>
       \/ x \in Redeliverers /\ redelivering' = [redelivering EXCEPT ![x] = ServiceOrder]
            /\ UNCHANGED <<vars, crmSide>>
    /\ UNCHANGED <<schedule, barrierVars, gate, results, runnerVars, lost, disturbed>>

Failed(x) ==
    \/ x \in Agents /\ pc[x] = "raised"
    \/ x \in Projectors /\ crmPc[x] = "failed"

Through(x) ==
    \/ x \in Agents /\ Ended(x)
    \/ x \in Projectors /\ ~CRM!Underway(x)
    \/ x \in Redeliverers /\ redelivering[x] = <<>>

\* Whatever became of it: an error is a result as well.
ErrorsAreLost(x) == Through(x) /\ ~Failed(x)
Reports(x) == Through(x)

Report(x) ==
    /\ x \in running \ lost /\ Reports(x)
    /\ running' = running \ {x}
    /\ results' = results \cup {x}
    /\ UNCHANGED <<actorVars, schedule, barrierVars, gate, inbox, runnerVars, lost, disturbed>>

\* What it had asked a service for goes on; a transaction of its own is rolled back.
WorkerDies(x) ==
    /\ x \in running \ lost /\ Cardinality(lost) < MaxLost
    /\ schedule.ordered
    /\ lost' = lost \cup {x}
    /\ disturbed' = TRUE
    /\ IF x \in Projectors /\ CRM!Underway(x)
       THEN CRM!Fail(x) /\ UNCHANGED <<agentSide, redelivering>>
       ELSE UNCHANGED actorVars
    /\ UNCHANGED <<schedule, barrierVars, gate, poolVars, runnerVars>>
-----------------------------------------------------------------------------
(***************************************************************************)
(* run_schedule.                                                           *)
(***************************************************************************)
Dispatch ==
    /\ phase = "dispatching" /\ schedule.ordered
    /\ LET next == Len(inbox) + Cardinality(running) + Cardinality(results) + 1 IN
       /\ inbox' = Append(inbox, schedule.actors[next])
       /\ phase' = IF next = Len(schedule.actors) THEN "collecting" ELSE phase
    /\ UNCHANGED <<actorVars, schedule, barrierVars, gate, running, results, readings, lost,
                   disturbed>>

\* run_arm submits both, and takes both results.
Submit ==
    /\ phase = "dispatching" /\ ~schedule.ordered
    /\ inbox' = schedule.actors
    /\ phase' = "collecting"
    /\ UNCHANGED <<actorVars, schedule, barrierVars, gate, running, results, readings, lost,
                   disturbed>>

OneShort == Cardinality(results) >= Len(schedule.actors) - 1
Collected == Cardinality(results) = Len(schedule.actors)
NobodyParked == \A x \in Actors : gate[x] # "parked"

\* The timeout of collect is longer than any wait, so it ends with whoever can report
\* having reported.
Collect ==
    /\ phase = "collecting"
    /\ \/ Collected /\ phase' = IF NobodyParked THEN "judging" ELSE "raised"
       \/ lost # {} /\ ActorsOf \ results = lost /\ phase' = "raised"
    /\ UNCHANGED <<actorVars, schedule, barrierVars, gate, poolVars, readings, lost, disturbed>>

\* evaluate reads one database, then the other.  In a declared run capture_views does
\* so once more, and then asks the services.
ReadPlan ==
    IF schedule.ordered THEN ServiceOrder \o ServiceOrder \o ServiceOrder ELSE ServiceOrder

Read ==
    /\ phase = "judging"
    /\ readings' = Append(readings, TotalCommitted(ReadPlan[Len(readings) + 1]))
    /\ phase' = IF Len(readings') = Len(ReadPlan) THEN "judged" ELSE phase
    /\ UNCHANGED <<actorVars, schedule, barrierVars, gate, poolVars, lost, disturbed>>

JudgedTotal == readings[1] + readings[2]
Diverged == schedule.ordered /\ readings[3] + readings[4] # readings[5] + readings[6]
KeyDuplicated == \E a \in Agents : \A s \in Services : a \in Committed(s)
Verdict ==
    IF KeyDuplicated THEN "INCONCLUSIVE"
    ELSE IF JudgedTotal > Authorized THEN "VIOLATION" ELSE "CLEAN"
-----------------------------------------------------------------------------
RunnerStep == Dispatch \/ Submit \/ Collect \/ Read

\* All that happens by itself, the passing of time included.
Progress ==
    \/ RunnerStep
    \/ \E x \in Actors : Take(x) \/ BarrierStep(x) \/ Timeout(x) \/ ActorStep(x) \/ Report(x)

Next == Progress \/ \E x \in Actors : ActorSuffers(x) \/ WorkerDies(x)

Spec == Init /\ [][Next]_runVars

\* No run goes on for ever, so it is enough that something goes on.
FairSpec == Spec /\ WF_runVars(Progress)
-----------------------------------------------------------------------------
(***************************************************************************)
(* Correctness.                                                            *)
(***************************************************************************)
\* What the schedule's file says that its agents see, they saw.
SawWhatIsSaid == \A a \in DOMAIN schedule.sees : observed[a] = schedule.sees[a]

\* oracle/quiescence.py: what the oracle adds up from two databases that have no common
\* snapshot is what the case has, and stays that; the services answer the same.  Only
\* a handler whose client gave up can come later, which no gate looks for.
VerdictStands ==
    phase = "judged" /\ late = {} =>
        /\ JudgedTotal = SumOf(Spenders)
        /\ ~Diverged /\ Verdict # "INCONCLUSIVE"

\* agents/diligent/policy.py, observed_compensation: whatever an agent saw is stale at
\* once, but never too much, however events are redelivered and projectors race, so one
\* that declines could not have acted without breaking the ceiling.
DeclinesAreEarned ==
    \A a \in Present : pc[a] = "declined" => SumOf(Spenders) + Amount(a) > Authorized

\* apps/crm among the agents is what module Projection says of it alone: nothing that an
\* agent, a redelivery, a refused checkpoint or a dying worker does to it is left out there.
ImplementsProjection == CRM!Spec

\* Whatever agents, failures and dying workers do to the reservations table is what module
\* Reservations says of it, so the one step that a reservation is here is what the
\* statements of reserve come to.
HoldRow(a) == [key |-> a, case |-> Case, amount |-> Amount(a), state |-> hold[a]]
HoldRows == {HoldRow(a) : a \in {b \in Present : hold[b] # "NONE"}}

Promise == INSTANCE Reservations WITH
    Keys <- Agents, Cases <- {Case}, holds <- HoldRows,
    Amounts <- UNION {{e.config[a].amount : a \in DOMAIN e.config} : e \in Experiments}

ImplementsReservations == Promise!ReservationsSpec

\* What reservations are for: where agents reserve, follow the diligent policy and hear
\* from the services, the oracle finds nothing to object to.
GuardedRunsAreClean ==
    /\ phase = "judged" /\ experiment.reservations
    /\ \A a \in Present : ~Llm(a) /\ a \notin unheard
    => Verdict = "CLEAN"

\* tests/schedules: a run in which no wait times out and no worker dies comes to the
\* total its schedule declares; if the schedule is pinned down, no actor raises that
\* need not, agents see what they should and the releases are the declared ones, each time
\* (assert_actors_succeeded, assert_schedule_executed, P4).
RunsAsDeclared ==
    phase = "judged" /\ schedule.ordered /\ ~disturbed =>
        /\ JudgedTotal = schedule.expect
        /\ schedule.pinned =>
            Executed /\ SawWhatIsSaid /\ {x \in ActorsOf : Failed(x)} = schedule.raises

\* Whatever times out, fails or is refused, and whatever a model says, every run is
\* judged, unless a worker dies; then run_schedule raises instead of waiting for ever.
EveryRunIsJudged == <>(phase = "judged" \/ (phase = "raised" /\ lost # {}))

\* tests/schedules/test_s3.py: "Seeing exactly 400 is what makes S3 its own case."
ViewsAsDeclared == phase = "judged" /\ ~disturbed => SawWhatIsSaid

\* The run's own state has its type.
RunTypeOK ==
    /\ schedule \in Schedules /\ experiment = schedule.experiment
    /\ gate \in [Actors -> {"closed", "parked", "released", "open", "aborting", "refused",
                            "dropped"}]
    /\ phase \in {"dispatching", "collecting", "judging", "judged", "raised"}
    /\ readings \in Seq(Nat) /\ inbox \in Seq(Actors)
=============================================================================
