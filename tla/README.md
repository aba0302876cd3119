# A TLA+ development of the agent control lab

The repository runs two compensation agents against the services of a small company
(Billing, Ledger, Control, CRM, Entitlements) under a *declared interleaving*: a
coordinator with a deterministic barrier decides which agent passes which checkpoint
next, and an oracle judges the state that results. Its two load-bearing claims are that
the barrier executes exactly the declared order or fails visibly, and that the Control
service's reservations keep the money spent on a case under its ceiling. This
development models both at the grain at which their threads and transactions
interleave, checks them with TLC and proves safety for every instance with TLAPS. It goes
on to the stores whose effects are counted against that ceiling, to the CRM's view of
them, to the agents that reserve and spend, and to a whole run of the lab: runner, worker
pool, actors under a declared schedule or under none, and the oracle's verdict. The
reconciler that looks at it all from outside has a module of its own.

Contents: [inventory](#1-inventory),
[modules](#2-modules-and-how-they-correspond-to-the-code), [runs](#3-runs),
[proofs](#4-proofs), [what is left out](#5-abstractions-and-what-is-not-modelled),
[plan](#6-plan).

## 1. Inventory

| component | state | operations | correct when |
| --- | --- | --- | --- |
| **schedule** `apps/coordinator/schedule.py` | immutable steps with their occurrence; pointer; arrivals per (actor, checkpoint) | `arrive`, `occurrence_of`, `is_declared`, `matches_current`, `advance` | the n-th arrival of a pair is the n-th declared occurrence of it; a rejected arrival leaves no trace |
| **barrier** `apps/coordinator/barrier.py` | `_parked`, `_leases`, `_release_order`, `_aborted`, all under `_lock`; a thread event per waiter; the reaper thread | `wait`, `abort`, `heartbeat`, `reap` | releases are a prefix of the schedule; no lost wake-up; no release after an abort; dead actors become an explicit failure |
| **coordinator** `apps/coordinator/main.py` | module globals `_schedule`, `_barrier`, `_reaper`, `_faults` and a module lock | `/declare`, `/reset`, `/await`, `/heartbeat`, `/waiters` | a run in which an error was answered releases nobody any more; nothing is answered 200 that was not released; overlapping declarations leave one whole run |
| **control** `apps/control` | table `reservations` (state HELD, COMMITTED, RELEASED, EXPIRED; `expires_at`; unique key), advisory lock per case | `reserve`, `release`, `commit`, `expire_due`, list | reservations of a case never exceed its ceiling; retries are granted once; expiry frees what a dead agent held and nothing else |
| **billing, ledger** `apps/billing`, `apps/ledger` | effects, `decision_log`, `outbox` in one database each | create effect (idempotent), void, change plan, events, applied, redeliver | one effect per key; effect, log entry and event are one transaction |
| **decision log, outbox** `libs/service_common.py`, `libs/outbox.py` | `decision_log` with a sequence per case; outbox rows with `applied_at` | `next_sequence`, `append_decision`, `publish`, `claim_unapplied`, `mark_applied` | sequences have no gaps; an event is published iff its effect is |
| **CRM projection** `apps/crm` | projected case totals, applied event ids | `apply_pending`, project | every event is folded once, in spite of redelivery and crashes |
| **entitlements** `apps/entitlements` | grants per case | grant, list | no case is entitled beyond the plan Billing records |
| **reconciliation** `apps/reconciliation/worker.py` | none (reads all stores) | lag, drift, duplicate keys, orphans, spent expired holds | reports divergences there are, and misses none that was there all along |
| **diligent agent** `agents/diligent` | its observation of the stores, the reservation it holds; a worker pool | observe, reserve, act, commit or release | never spends without a hold; settles what it reserved |
| **LLM agent** `agents/llm` | conversation, tool budget | dispatch of tool calls | tools act under the policy whatever the model says |
| **barrier client, middleware** `libs/barrier` | context variables, headers | `checkpoint`, header propagation | a request is identified by the actor and schedule it runs for |
| **policy layer** `libs/enforcement.py`, `policy.py`, `identity.py`, `approvals.py` | none (decisions), approval tokens | authorize, verify | decisions follow the policy table |
| **oracle, schedules, runner** `oracle`, `schedules` | expectations per schedule, the executed order | `run_schedule`, invariants, quiescence, divergence | a verdict is given on an interleaving that was really executed |
| **the rest** `libs/servicelab.py`, `procguard.py`, `request_log.py`, `tracing.py`, `catalog`, `demo`, `tools` | processes, logs, reports | start/stop, write, render | pure I/O |

**How they interact.** An agent calls Control over HTTP (`reserve`, `commit`,
`release`), Billing and Ledger for the effects, and the coordinator's `/await` at each
checkpoint its code passes; `/await` blocks in `Barrier.wait` until it is that
checkpoint's turn. Stores talk to each other only through their outboxes, which the CRM
projector polls. Control and the stores share no database, so a reservation and the
effect it pays for are never one transaction: what keeps them together is the agent's
protocol, the idempotency keys, and expiry.

**What is hard.** In the coordinator: threads that wake outside the lock, a timeout
that races a release, an abort that takes waiters out under the lock and wakes them
after it, a reaper that drops the lock between finding and acting, handlers that read
module globals anew at each use while another declaration replaces them. In Control:
check-then-insert across statements of READ COMMITTED transactions, retries that race
the first attempt, expiry of other cases' rows under one case's lock, read-then-write
by id. Across services: lost acknowledgements, crashes between two commits, replayed
reservations that are no longer held, events redelivered or committed out of id order.
`PROJECT.json` lists each at the line where it bites with the properties that would
notice it.

## 2. Modules and how they correspond to the code

| module | models | notes |
| --- | --- | --- |
| `Schedule` | the immutable part of `class Schedule` | shared by Barrier and Coordinator |
| `OrderedRelease` | the barrier's promise, abstractly | no threads, locks, leases or timeouts |
| `Barrier` | one declared run of `barrier.py` | implements `OrderedRelease` |
| `Coordinator` | the handlers of `main.py` over several runs | uses the barrier as one-step operations |
| `Control` | `control/main.py`, `control/expiry.py`, migrations | statement by statement; implements `Reservations` for clients like the agents |
| `Reservations` | what Control promises such clients, abstractly | a reservation is one step; no transactions, locks or failures |
| `Effects` | what Billing and Ledger promise, abstractly | all stores at once, no transactions, logs or failures |
| `EffectStore` | one store: `billing/main.py` or `ledger/main.py` with `libs/service_common.py`, `libs/outbox.py` | implements `Effects` |
| `Projection` | `crm/projector.py` and the event source of `crm/main.py` | extends `Effects`: the CRM sees the stores through their outboxes only |
| `Compensation` | the agents: `diligent/policy.py`, `diligent/clients.py`, `llm/policy.py`, over holds and `Effects` | uses `Effects`, extended by `LabRun` |
| `LabRun` | a run: `schedules/runner.py`, `llm_arms.py`, `diligent/pool.py`, `libs/barrier`, `oracle` | composes `Compensation`, `Projection`, `Schedule` and `OrderedRelease`; what it does to the reservations implements `Reservations` |
| `Reconciliation` | `reconciliation/worker.py` | extends `Effects` |
| `Totals` | `SELECT sum(amount)`, of Control, the services and the oracle | used by `Control`, `Reservations` and `Compensation` |
| `BarrierProofs`, `CoordinatorProofs`, `ControlProofs`, `EffectStoreProofs`, `ProjectionProofs`, `LabRunProofs`, `ReconciliationProofs` | theorems, one module per component; `LabRunProofs` covers `Compensation` and `LabRun` | see section 4 |
| `TotalsProofs` | lemmas about totals | cited by `ControlProofs` and `LabRunProofs` |
| `MCBarrier`, `MCControl`, `MCCoordinator`, `MCEffectStore`, `MCProjection`, `MCLabRun`, `MCReconciliation` | instances for TLC | `MCLabRun` holds the translations of `schedules/*.yaml` |

### Barrier

A thread that executes `Barrier.wait` is a member of `Calls`. A step is one critical
section of `_lock`, or one thing done outside it. `wait` is split accordingly:
`EnterAborted`, `EnterUndeclared`, `EnterNext` and `EnterPark` are the four outcomes of
the section at its top; `Cascade`/`CascadeEnds` are the loop of `_advance_locked`, which
keeps the lock but takes one step per released waiter because a waiter may run as soon
as its event is set; `Woken` is the unlocked read of `_aborted` after `Event.wait`
returned; `GiveUp` is `Event.wait` returning false and `TimeOut` the section that then
removes the waiter. `AbortLocked` is the section of `abort`, `WakeAborted` one `set()`
of the loop behind it. The reaper reads the clock (`ReaperReadsClock`), looks for lapsed
leases under the lock (`ReaperScans`) and aborts under it again (`ReaperAborts`).
`lock` names the call inside a cascade; every other section is a single step.

### Coordinator

A request to `/await` passes `CheckDeclared`, `CheckAborted`, `Identify`, `Enter`,
`Wake` and `Respond`; each reads `current` (the pair `_barrier`, `_schedule`) anew, as
the handler does, and `Crash` is the attribute error of finding it `None` half way.
`AbortRun` is `_abort`, which acts on the barrier current *at that moment*.
Declarations and resets are split at each use of a global: the reaper is read
(`Declare`, `ResetTakes`) and stopped (`StopReaper`), the globals are cleared and set
under the lock (`Clear`, `InstallBarrier`, `InstallFaults`), and after it a new reaper is
put into its global (`AssignReaper`), read from there again (`LookUpReaper`; `None` by
then is an error) and started (`StartReaper`). `Reaper.start` makes its thread and starts
it in two statements, so another `start` of the same reaper, or a `stop` that joins the
thread, may come in between and raise (`BeingStarted`). The barrier of a run is
taken as what `Barrier` shows it to be, so that several runs fit in one instance; the
barrier of a replaced run lives on for the threads that wait in it. The cascade is then
one step, to the last position up to which every key is parked (`ParkedUpTo`, `Cascaded`).

### Control

A request is one transaction, and a step one statement of it. `row` is the committed
table. What `expire_due` updated in an open transaction is in `expiring[r]`: invisible to
other statements, row-locked against other updates, applied at COMMIT (`Published`).
`expire_due` finds the rows that are due (`BeginExpiry`, `todo`) and locks them one by
one, in any order, waiting for the transaction that has one (`ExpireRow`, `at`). `reserve`
is `LockCase`, `expire_due`, `Look`, `Decide`, then `CloseUnchanged` (refused or replayed)
or `Insert`/`InsertFails`; `release` and `commit` are a read (`ReadForRelease`,
`ReadForCommit`) and an UPDATE by id (`WriteRelease`, `WriteCommit`) that does not look at
the state again. `Crash` is the rollback of any open transaction. Two transactions that
wait for each other's rows stay there until PostgreSQL fails one of them (`InCircle`,
`DeadlockVictim`: a `Crash`). `lapsed` is a history variable used by one property. A sum
of amounts is a `Total`: the number of units of money in the rows, each unit a pair of a
row and a number, rather than a fold over the rows. The two are the same number; the first
lets a proof speak of sums with the library's theorems about finite sets.

`reserve` says of itself that "the check and the insert must be one atomic step"
(`apps/control/main.py:69`). `Reservations` is that claim as a specification: `Take` checks
and inserts, `Release` and `Commit` judge and overwrite, each in one step, and
`ImplementsReservations` maps the committed rows to it (`Holds`). It is a promise to
clients of a certain kind only. One who gives a `ttl` sees holds vanish and come back, and
two requests at once under one key can settle a hold twice (`SettledIsFinal`) or, with
different cases, be decided against a table that is gone. `OneAtATime` excludes the
second, and is what every policy in `agents/` does: it sends a request under its own key
only after the answer to the one before, and none after a request that got no answer (in
`diligent/policy.py` `reserve`, `release` and `commit` stand outside the `try`, and
`llm/policy.py` has none).

### EffectStore and Effects

Billing's refunds and Ledger's credits are the same code under two names, so one module
stands for both. The variables are the committed tables and the outbox's id sequence,
which a rollback does not wind back; `pc` says how far a request's transaction is, and
what it has written but not committed follows from that (`HasWritten`, `HasLogged`).
`create_refund` is `Look` (SELECT by key), `Insert` or `InsertFails` (the UNIQUE
constraint, which waits for an open transaction with the same key), `NumberDecision`
(`next_sequence` is a SELECT of its own), `AppendDecision` or `AppendFails` (the UNIQUE
constraint on case and sequence), `Publish`, `CommitCreate` and `Acknowledge`;
`void_refund` is `Update` by id, whatever the state, then the same log entry and
`CommitVoid`. `Crash` is a rollback before COMMIT and a lost answer after it.
A failure between `nextId` and COMMIT leaves a gap, and a slow transaction commits an
event whose id is below ones that are already visible.

`Effects` is what the rest of the system may rely on: an effect and its event appear
together, keys are unique, effects are at most voided, events are marked and offered
again. `ImplementsEffects` maps the committed tables to it.

### Projection

A run of `apply_pending` is a member of `Projectors`, and a step is one HTTP request or
one statement against the CRM's database: `Poll` (GET `/events`, for one service),
`CheckApplied` (`_already_applied`), `InsertApplied` or `InsertFails` (the primary key of
`applied_events`, which waits for an open insert of the same key), `Fold` (the upsert of
the total and COMMIT), `Mark` (POST `/events/{id}/applied`), `NextService`, `Finish`.
`Fail` is a projector that dies, or an HTTP error or refused checkpoint, anywhere. The
services publish and redeliver in between (`Publishing`).

### Compensation

An agent is a place (`pc`) in `run_case` of either policy, and a step is one request it
makes, or the decision between two. The diligent one is `ObserveFirst` and `ObserveRest`
(two GETs, or one of the CRM: `ObserveCrm`), `Decide`, `Reserve`, `Create` (`Authorize`
before anything is written, `Insert`, `Acknowledge`), and `Settle` or `Free`. The
model-driven one gets any reply out of `Replies` (`ModelReplies`), whose calls are made
one after another (`CallRead` to `CallUnknown`), also after one that finished the case.
`hold` is the state of the reservation under each agent's key: a replay is granted
whatever became of the row, and `release` and `commit` change it as `Reservations` has it
(`ImplementsReservations` of `LabRun`). `CreateFails` is an error before or after the
COMMIT, or a refused checkpoint in the service; `ClientGivesUp` is the client's own
timeout, after which the handler goes on and the effect may appear at any later time
(`LandLate`); `RequestFails` is any other request without an answer, whether done or not.
Such agents are in `unheard`. `ErrorIgnored` is an answer to `release` or `commit` that is
an error: nothing happened to the hold, and as `ReservationClient` does not look at the
status, the agent goes on as if it had (`ignored`). The assumptions say what every run of
the code has: finitely many agents, two services that are asked in one order, and agents
that are configured with a target among them and a positive amount.

### LabRun

`Dispatch` puts the actors into the pool's queue one by one, `Take` is a worker taking
the next, `Report` what `_worker` puts into the outbox whatever happened, `Collect` the
end of `collect` and the quiescence gate, and `Read` one SELECT or GET of the oracle.
Where the schedule is declared, an actor's next step waits at its checkpoint (`Checkpoint`,
`Passes`): `Arrive` is its POST `/await`, made by the service while the request is there
(`AtService`), and its outcomes follow `OrderedRelease` for the schedule's order:
released, `Cascade`d later, answered 500 by an injected fault (`Resume`), 409 after an
abort (`Refuse`), or the cause of one (`Abort`: an undeclared arrival, or `Timeout`).
`OrderedRelease` and `Schedule` are instantiated once per schedule, `Projection` with the
agents as the requests that publish; `EventsAssumption` gives the outboxes as many ids as
there are agents. Between an answer and what the actor then does others
may move: release order is not execution order. `WorkerDies` leaves a parked request
waiting and a service finishing what it was asked. In an unordered run (`Submit`) nothing
waits at checkpoints, and with `faulty` every request may fail.

### Reconciliation

One step is one query of `reconcile`: `CheckLag`, `ReadTotal` and `ReadApplied` (the two
halves of `_check_drift`), `CheckDuplicateKeys`, `ReadApplieds` and one `LookUpSource` per
row, `ReadExpired` and one `LookUpEffect` per row and service. In between effects are
created and voided, events folded, marked and redelivered (`ServiceMoves`, `FoldEvent`),
and holds expire or are settled late. `torn`, `settled`, `unapplied` and `spent` are
history. A finding is its type and what it is about: the service, the event, or the
service and the key. The
number of events is bounded by `EventIds`; the services asked are all services.

## 3. Runs

| run | instance | checks |
| --- | --- | --- |
| `barrier_safety` | schedule `B A A B`, 5 calls, an undeclared pair, timeouts, leases of 1, clock to 2, one external abort reason | `ReleasesFollowSchedule`, `NoWaiterLeftBehind`, `OnlyReleasedCallsReturn`, `BlockedCallsAreParked`, `LeasesHaveWaiters`, `AbortIsFinal`, `ImplementsOrderedRelease` |
| `barrier_liveness` | schedule `A B A`, 3 calls, no timeouts | `ArrivedPrefixIsServed`, `AbortWakesEveryWaiter`, `LapsedLeasesAreReaped` |
| `barrier_released_yet_failed` | as `barrier_safety` | `FailedCallsWereNotReleased`: **violated** |
| `coordinator_safety` | 2 actors and a stranger, 2 requests and 3 declarations or resets, four of these in all, two schedule ids | `OnlyReleasedGoOn`, `ErrorsStopTheRun`, `AbortedRunsReleaseNobody`, `QuietRunIsWhole` |
| `coordinator_release_after_abort` | as above | `NoReleaseAfterAbort`: **violated** |
| `control_safety` | 3 requests, 2 keys, 2 cases, ceiling 1, TTL 1 or none, clock to 1, from an empty table or with a hold in each case | `OnlyExpiriesDeadlock`, `CeilingHolds`, `FreshGrantsAreUnique`, `RefusalsAreEarned`, `OnlyOverdueHoldsExpire`, `EveryRequestIsAnswered` |
| `control_settled_twice` | as `control_safety` | `SettledIsFinal`: **violated** |
| `effects_safety` | 3 requests, 2 keys, 2 cases, 3 event ids | `TablesAgree`, `HistoryIsReplayable`, `AnswersAreTrue`, `ImplementsEffects`, `EveryRequestIsAnswered` |
| `projection_safety` | 2 services that number events alike, 2 effects, 1 case, 2 projectors that go through both services or one | `TotalIsExact`, `NothingIsLost`, `FinishedRunsCaughtUp`, `EveryRunEnds` |
| `lab_runs` | the 12 declared schedules, with 1 worker that dies (`MaxLost`) and waits that time out; 5 unordered pairs, diligent or models, with failing requests, 3 replies (`MaxSteps`) | `SpendingWasGranted`, `OverspendIsExplained`, `LeaksAreKnown`, `VerdictStands`, `DeclinesAreEarned`, `GuardedRunsAreClean`, `RunsAsDeclared`, `ImplementsReservations`, `EveryRunIsJudged` |
| `lab_s3_cold_view` | S3 alone, nothing dies | `ViewsAsDeclared`: **violated** |
| `reconciliation` | 2 services, 2 effects, 2 keys, runs after one another | `AlarmsAreTrue`, `NothingOldIsMissed` |

**Why these bounds.** The barrier's instance needs a pair declared twice with another pair
around it (occurrences would otherwise never matter), a cascade over more than one waiter,
and one call more than there are steps, so that a superfluous arrival meets a finished
schedule: four steps and five calls give all three. A clock of 2 with leases of 1 lets a
lease be granted, refreshed and lapse. In the coordinator two requests are one waiter and
one intruder, and three operations let two of them overlap while a third replaces what
they left; `AtMostFour` has one request meet three operations and two requests two of
them. In Control two keys and two cases give the race between two reservations of one
case, a retry with the same key, a retry with the key under another case's lock, and an
expiry of another case's row, each with a third request that releases, commits or reserves
in between. The deadlock of two expiries needs two overdue holds that both find, more than
three requests can bring about, so `MCTwoHolds` begins with a hold in each case from
earlier requests. One run checks safety and liveness, so it goes without `SYMMETRY`;
instead the requests, alike as they are, arrive in the order of their names, and the first
one names the first key (`InOrder`, `Arrivals`). The theorems of section 4 hold for any
number of requests. A ceiling of one unit makes every second reservation a conflict.

For the stores three requests are enough for a creation, its racing retry and a void of
either, or for three writers of one case's log; two cases let a retry come with another
case. Each request publishes at most once, so three ids (`MaxId`) are never too few. The
CRM's instance has two effects: both in one store, which gives batches and commits out
of id order, or one in each, whose events then carry the same id. Two projectors are the
race; each may be started again and again, so more than two runs follow one another.
`MCSymmetry` permutes requests and keys of the projection, which neither its temporal
properties nor its fairness mention.

The instance of `LabRun` is what the repository runs: each file of `schedules/` as
written (amounts in hundreds of dollars), with its two or three agents, and in the same
state space five unordered experiments that differ in what matters to the ceiling: no
reservations, reservations with a retry, an abandoned hold next to an unapproved action,
models without the control service, and a model with it next to a diligent agent. A
model's reply is any single call, none, or one of five pairs that contradict each other
(`MCReplies`); three replies instead of the code's `MAX_STEPS = 6` are enough for a
refusal, a grant and an act, and for the limit to be hit. One worker may die (`MaxLost`),
and only in declared runs, since the arms are threads of the runner. `Timeout` may come
whenever a request waits unreleased, so a disturbed run covers every slow machine.
`Reconciliation` has two effects and two keys: a duplicate needs two rows, an orphan or a
false drift one, and the second effect may come between any two queries.

**Deadlock.** Every run disables the deadlock check. Calls and requests are finite and
each is made once: the system stops when all of them were answered. That nobody waits for
ever *before* that is what the liveness properties say, and of Control
`OnlyExpiriesDeadlock` without any appeal to fairness: where all wait, two expiries are in
a circle.

**Fairness.** `Barrier!FairSpec` is weakly fair to each thread that is able to run and
to the reaper, whose loop in `Reaper._run` never blocks for longer than its interval.
Arrivals, heartbeats, external aborts, timeouts and time are not fair. Strong fairness
would be needed if threads starved at the lock, but each call takes it a bounded number
of times. `Control!FairSpec` is weakly fair to each request being handled, and not to
crashes or arrivals; waiting on the advisory lock and on row locks is part of the model. A
circle of waits is not left to itself: PostgreSQL looks for one after its
`deadlock_timeout` and fails a transaction in it, which is weak fairness of
`DeadlockVictim`. TLC refutes `EveryRequestIsAnswered` without.
`EffectStore!FairSpec` is the same for the stores. `Projection!FairSpec` adds strong
fairness of `InsertApplied`: a projector that waits for a key is in PostgreSQL's queue
for it, so another one that keeps inserting that key, dying and starting again does not
overtake it for ever. Publishing, redelivery, new runs and deaths are not fair.
`LabRun!FairSpec` is weakly fair to `Progress` as a whole: some actor, the runner, the
barrier or a timeout goes on while any of them can. That is less than fairness to each
process, and enough because every step brings its actor nearer to its end; the timeouts
belong to it since each `/await` is sent with one. Failures and deaths are not fair.
`Reconciliation` is checked for safety only; a reconciler run is a fixed number of queries.

**What the violations show.**

- `FailedCallsWereNotReleased`: a waiter whose `Event.wait` gives up races the release
  that sets its event. It raises `BarrierTimeout` although its key is in the release
  order (likewise `BarrierAborted` when an abort follows the release before the waiter
  looks). The exceptions' docstrings say the waiter "was never released". What the code
  does keep is the converse, `OnlyReleasedCallsReturn`.
- `NoReleaseAfterAbort`: between `Barrier.wait` returning and the response nothing looks
  at the abort again, so a 200 can leave an aborted run. `AbortedRunsReleaseNobody` is
  what holds: the *decision* to release is never taken in an aborted run.
- `SettledIsFinal`: `release` and `commit` that both read HELD overwrite each other, so
  a committed hold becomes released (or the other way round), against the catalogued
  invariant that committed holds are irreversible.
- `ViewsAsDeclared`: in S3 the projector P is released at `crm.before_apply_event` and the
  agent C right after it, at `agent.before_reads`. Nothing makes C wait until P has folded
  the event, so C may observe 0 and not the 400 that the schedule's file and test call
  its distinguishing property; the test looks at the order of releases only. The verdict
  does not depend on it, which `RunsAsDeclared` shows for all schedules. In S1C and S4 the
  same gap lets B act on a stale total, but there the undeclared checkpoint it then
  reaches aborts the run before it spends anything.

**What the abstract table shows.** Both `Control` and `LabRun` implement `Reservations`:
from below, because the statements of `reserve` amount to its single steps (proved, section
4), and from above, because everything agents, failures and dying workers do to their holds
is one of them (proved, and checked by `lab_runs`).
That is why `Compensation` may take a reservation as one step, and `CeilingHolds`, which
allows for lapsed and revived holds, becomes a plain fact about the table for clients that
cannot lapse. `RefusalsAreExact` is what `Reservations` does not say, having no step for a
refusal: the key is new, and the table really has no room. `OnlyExpiriesDeadlock`
says what the row locks of `expire_due`, which takes rows of *every* case while it holds the
lock of one, can do: two reservations of two cases may each hold a row the other is at, and
one of them fails, since SQL leaves open in which order an UPDATE visits its rows. Nobody
else is ever in such a circle.

**What the composition shows.** With reservations, nobody spends what was not granted
(`SpendingWasGranted`), and the ceiling on the money itself, not on the holds, is broken
only through a hold that was released although its effect is there: an agent that lost the
answer and freed the budget, or a model that declined and acted (`OverspendIsExplained`).
`LeaksAreKnown` is the converse: which agents leave a hold behind. Among them are diligent
ones that heard of everything: they are told that their release or commit failed, do not
look, and end. `policy.py` (lines 64 to 67) says that reserving is only safe if
un-reserving is guaranteed. `VerdictStands` says what the quiescence gate is worth: the
oracle's total is the true one and stays so, except for a handler whose client gave up,
which no gate looks for. `DeclinesAreEarned` says that stale views err on one side only:
an agent that declines could not have acted under the ceiling, however it read the
services or the projection. `GuardedRunsAreClean` is the lab's main claim put together:
agents that reserve, follow the diligent policy and hear from the services never get a
verdict other than CLEAN. `ImplementsProjection` says that `Projection` leaves out nothing
that a whole run does to the CRM, so what is shown there holds here; it is proved (section
4), and a line `PROPERTY ImplementsProjection` in `MCLabRun.cfg` has TLC check it too, in
about a minute more.

`RunsAsDeclared` is what the schedule tests rely on, for every interleaving that the
declared order leaves open: the total for all twelve, and that everything was executed,
seen and reported as declared for the seven whose steps pin that down (`pinned`). The
other five may fail what `test_results_report.py` (lines 66 to 74) asserts of them: in S1C
and S4 B may act on a stale total and run into an abort, in S3 C may see 0, in S5 the
redeliverer, which nothing orders, may leave the second projector nothing to apply, and in
S8 B may reserve before A does. `projection_total_after` of S5 is not checked in runs;
that redelivery does not move the projection is `TotalIsExact`.

`QuietRunIsWhole` shows two overlaps that leave a served run without a reaper, although
"nothing may depend on someone remembering to call reap()" (`main.py:87`): a declaration
starts the reaper of another one that came between its lines 88 and 89, or a reset or
declaration fails because it joins a reaper's thread that is just being started. An
interpreter may rarely switch threads there; nothing in the language or the code keeps it
from it.

`AlarmsAreTrue` shows which findings of the reconciler are artefacts of reading while the
system moves: `PROJECTION_DRIFT`, whose two reads are two transactions, although the
invariant catalogue calls that finding corruption; and a `SPENT_EXPIRED_HOLD` whose hold
was settled after it was read and before its effect was looked up. What is reported may
mean less than it says, too: an event that lags is one not marked as applied, whether or
not the CRM has folded it, and the effect of a spent hold may have landed after the hold
lapsed, although `FindingType` and the text of the finding say before.

## 4. Proofs

Every theorem holds for every schedule, set of calls, requests, agents, services, events
or projectors, TTL, ceiling and clock bound that satisfies the named assumptions of the
modules. These say that sentinels differ from data and numbers are naturals, that the
sets which are counted or summed over are finite (`Keys` in `ControlAssumption`,
`Requests` in `EffectStoreAssumption`, `Ops` in `CoordinatorAssumption`, `Agents` in
`ExperimentAssumption`), and what the code's configuration guarantees
(`ScheduleAssumption`: an actor is dispatched once and is configured;
`EventsAssumption`: ids do not run out; `ReconciliationAssumption`: all services are
asked). TLC evaluates each of them on a run.

All the safety properties the passing runs check are theorems but one, `RunsAsDeclared`.
More hold that no run lists: the type invariants (`TypeCorrect`), which the others rest
on; `NoDeadlock` of `EffectStoreProofs`; and `RunsImplementProjection`. The shape is the
same everywhere: none of the properties is inductive, so the proof module begins with an
invariant that is (`Projection` states its own), one lemma per action shows what the
action keeps, `Invariance` puts them together, and the theorems follow from it.

*Totals.* What a sum is needed for, from the library's facts about cardinality: it is a
number (`TotalIsNatural`), grows with the rows (`TotalIsMonotone`), adds one row
(`TotalOfOneMore`) or a disjoint part (`TotalOfParts`), and is not greater if its rows can
be told apart by rows of the other (`TotalByName`).

*Barrier.* That releases follow the schedule
needs that a freshly counted key is nobody else's (`ArrivedKeysAreCounted`); that nobody
goes on unreleased needs to know why an event is set (`EventsHaveCause`) and that a
parked call is still waiting in a live run (`ParkedCallsWait`); the cascade's
intermediate states need the lock (`LockIsCascade`). `BarrierInv` is the conjunction of
the properties and these parts; together with `TypeOK` each action preserves it. From it follow
`ReleaseOrder`, `NoLostWakeup`, `NoDefaultRelease`, `NoLostWaiter`, `NoOrphanLease`,
the action property `FailClosed`, and `Refinement`: every step of `Barrier` is a step of
`OrderedRelease` under the mapping in `Promise`, or stutters. The lemmas about
occurrences (a key's position is unique, a pair is counted at most as often as it is
declared) come first in the module.

*Coordinator.* A request may hold a run that is no longer served, so what is true of the
globals is no help to it: `RequestsKnowTheirRun` and `KeysAreCounted` say that the key it
holds was counted by the run it noted, once, and `ReleasesAreEarned` that the pointer of
that run is past it. That an operation which overlaps another leaves a whole run needs
the lock (`OneInstalls`), that run numbers are not used twice (`RunsAreDeclarations`), and
`ServedRunGetsWhole`: whatever the served run lacks, some operation is about to bring, or
about to take the run away, or has lost in one of the two overlaps. `ErrorsAbortTheRun`,
that a run with an answered error is aborted or no longer served, is inductive, and with it
no request enters such a run. They yield `ReleasesAreReal`, `QuietRunsAreWhole` and the action
properties `ErrorsStopRuns` and `AbortIsRespected`.

*Control.* `ControlInv` says who owns an advisory lock (`LockIsTransaction`), that rows
expired in an open transaction are held, overdue and owned by one request
(`ExpiriesAreOwned`), and that nothing due is left of a case once its reservation has
expired what was due (`NothingDueIsLeft`). For the ceiling it adds `GrantsFit`: between the
SELECT of the sum and the INSERT, what was promised still fits under the ceiling next to
all unbroken holds but those this transaction has expired. Nothing that happens in
between can take that room: another reservation of the case waits for the lock, a commit
revives only what has lapsed (`LapsesAreRecorded`) or what counted all along, and
everything else gives room. It yields `CeilingIsKept`, `GrantedOnce`,
`NoRefusalByTheDead`, `ExpiryIsSafe`, and `DeadlocksAreOfExpiries`: `ExpiriesAreOwned` says
that who has expired rows is at the next one or past `expire_due` (`UpdatesGoOn`), and past
it waits for nothing. So a transaction in a circle is waited for because of rows it has
expired, and itself waits at another one's.

`ReserveIsAtomic` has two hypotheses more, `Ttls = {NoTtl}` and `[]OneAtATime`, which
describe the agents (section 2); TLC refutes it without either. What they buy is
`Undisturbed`, which is inductive together with `ControlInv`: nothing expires, and what
`release` or `commit` read of a row still holds when it overwrites it (`ReadsStand`), since
nobody else is at that row. The one thing that may change under a reservation is the sum,
and there `GrantsFit` has the answer, as without lapses the unbroken holds are just the
rows that `Reservations` counts (`FitsIsSum`). `StepKeepsPromise` then goes through the
statements: an INSERT is `Take`, the two UPDATEs are `Release` and `Commit`, everything
else, COMMITs of refusals and crashes included, is a stutter. `RefusalsAreDue` needs
`[]OneAtATime` only, without which TLC refutes it: nobody else adds the row of a key that
`reserve` found free (`NewKeysAreFree`), and what it sums is among what the table counts.
`MCControlOneAtATime.cfg` has TLC check both properties before one reads the proofs, in some
seconds: its specification, `MCOneAtATimeSpec`, makes only steps after which `OneAtATime`
holds. Its four requests are the life of one hold, from `reserve` over `commit` to a
replay, next to a rival in the same case; amounts of one and two under a ceiling of two
let two holds fit, or one fill the case.

*EffectStore.* A number taken from `max(sequence)` is stale when it is written. What makes
the log gapless all the same is that the number before it is in the log by then and
stays there (`NumbersContinue`), while the UNIQUE constraint keeps two from writing the
same one (`WritesAreExclusive`). `RowsAreCreations`, `DecisionsAgree` and `EventsAgree` say
that the three tables are those of the same committed requests, and that an event id
taken by an open transaction is nobody else's. They yield `TablesAreOneStory`,
`HistoryCanBeReplayed`, `AnswersStayTrue` and `Refinement`: each COMMIT is a step of
`Effects`, and every other step but marking and redelivery is none. `NoDeadlock` needs only
that keys and rows are waited for before a number is.

*Projection.* That no event counts twice is inductive only with the reason why an insert
succeeds once: `FoldsAreExclusive`, an open transaction's key is neither in the table nor
in another open transaction. That no event is lost needs `MarkedIsFolded`, a projector
marks only what it found or put into the table; that a finished run caught up needs
`LeftIsInHand`, whatever it was handed is folded or still in its batch; and all of them
need `HandedEventsArePublished`, which lets a mark find its event and bounds the total by
what was committed. `ProjectionInv` is their conjunction. It yields `NoEventCountsTwice`,
`NoEventIsLost` and the action property `RunsCatchUp`. What the services do meanwhile
enters through three lemmas on `CreateEffect`, `MarkApplied` and `Redeliver` only, so the
theorems hold of any store that implements `Effects`.

*Compensation and LabRun.* `LabRunInv` has the agents' part, `AgentsInv`: effects are the
agents' own (`EffectsAreOwn`), held and committed budget fits under the ceiling
(`BudgetIsKept`), and each agent is sound: it creates its effect only while it has a
reservation that was granted (`GrantCameFirst`), and an agent that heard of everything
holds budget only where it will settle it, and gives back none that it spent (`Settles`).
From this alone follow `NoSpendingWithoutGrant`, `OverspendHasACause` and
`LeaksHaveACause`. The runner's part says that actors are dispatched, taken and collected
once and in order (`PoolIsInOrder`), so that nobody is at work when the oracle reads
(`NobodyIsAtWork`) and its readings stay true (`ReadingsAreTrue`), which gives
`VerdictIsFinal`, and with the agents' part `ReservationsKeepRunsClean`.
`AsksAtCheckpoint` is why an agent that is turned away had a reservation only if it had
got past it. `ViewsInv` adds what agents see: events tell of committed effects, each once
(`EventsAreTrue`), the CRM's total is exact (`CrmIsExact`), and what an agent has observed
so far is at most what was spent (`SeesNoMore`). The sum of the projected events is
bounded by the sum of the spenders through `TotalByName`, as each event names an effect of
its own. This gives `DeclinesAreJustified`. `RunsImplementProjection` shows that a step of
the run is, for the CRM, a step of `Projection` or none: it needs that an agent publishes
once and that the event's id is free and in range (`EventIdsSuffice`).
`RunsImplementReservations` goes through the steps of the agents: a grant fits the table
because `hold` and the table have the same sum (`FitsIsBudget`), and a settlement replaces
one row (`OneRowMoves`). The facts about projectors are proved again there for the
instance, since the prover cannot cite a lemma of `ProjectionProofs` through an INSTANCE
with a substitution.

*Reconciliation.* Rows that one query returned are looked up by later ones; both theorems
rest on what cannot be undone: an event stays published (`SystemsAreSound`), and a hold
that was EXPIRED when it was read is so still, unless it was settled since
(`RowsStayTrue`). `DriftIsTorn` gives the drift its cause. `OldIsFoundOrToCome` says that
what was wrong at the first query and still is, was reported or has its query to come.
They yield `AlarmsCanBeTrusted` and `ReportsAreComplete`.

*Only model-checked.* Liveness (`ArrivedPrefixIsServed`, `AbortWakesEveryWaiter`,
`LapsedLeasesAreReaped`, `EveryRequestIsAnswered` of Control and of EffectStore,
`EveryRunEnds`, `EveryRunIsJudged`), which is outside the prover's reach, as it rests on
fairness. `RunsAsDeclared`, which is no fact about runs in general but about the twelve
schedules as they are written: what a file expects, and whether its steps pin the outcome
down, are data. The violated claims, which TLC refutes by a behaviour.

## 5. Abstractions and what is not modelled

- Coordinator: `_barrier` and `_schedule` are one variable; they are assigned one after
  the other under the module's lock but read without it, so a request may see one
  without the other for an instant, with the same outcome as `Crash`. A waiter of a
  replaced run that times out aborts the *current* run; the model shows it, no text
  forbids it, and no property does.
- Barrier: a schedule is fixed and non-parametric; timeouts and leases are wall-clock
  durations in the code and a bounded counter here. A lease found lapsed aborts the run
  even if it is refreshed before the abort; that is the code's behaviour.
- Control: which transaction of a deadlock PostgreSQL fails, and after how long, is left
  open. A row that a settled hold keeps locked until the COMMIT of its `release` or
  `commit` is not waited for, since the UPDATE and that COMMIT are one step. All callers
  of a case send the same ceiling, as the agents do. Amounts are positive as the API's
  validation demands.
- `CeilingHolds` speaks of reservations that have held their budget without a break. A
  released or expired hold can be committed late and then counts again; what this does to
  the money actually spent is `OverspendIsExplained` in Compensation; agents in `src/`
  send no TTL.
- EffectStore: amounts, actors and event types are left out, no decision depends on them
  once a request is authorised. A request names the row it creates, so ids of rows do not
  matter. `from_state` of a log entry is left out: the code writes COMMITTED for every
  void, the second void of an effect included, and `to` alone tells replay what happened.
- Projection: an event's amount never changes, so a total is kept as how often each event
  was added to it. Every projector is scoped to a case, as `/project` and the pool's
  specs have it. Each request to create an effect is made of one service. Voids are left
  out because they publish nothing: the projection goes on counting a voided effect. The
  statements of two projectors that upsert the same case's total only queue, which the
  single step `Fold` hides. `Fold` and the COMMIT that follows it are one step.
- Compensation: a reservation is one step, as `ReserveIsAtomic` justifies, and no hold
  expires, since no agent sends a TTL. An agent has one key, one case and
  one amount. Bearer tokens, tenants and the scope to create are always in order, as the pool
  issues them (`pool.py`); what varies is the approval authority. Of a
  model's replies only the sequence of calls counts, not arguments or words. A request
  other than `create` whose client gave up is done at once or never; late handling is
  modelled where it spends money.
- LabRun: `OrderedRelease` stands for the barrier, as `Refinement` proves it may. A waiter's
  timeout and a lapsed lease are one action, `Timeout`: both abort. In declared runs
  services fail only by the faults a schedule injects. A store's transaction or a
  projector's statement is one step, as in `Effects` and `Projection`. `capture_views` reads
  one database at a time; the transitions it derives, and the window that the arms
  estimate from the request log (whose end is written after the response was sent,
  `request_log.py`), are not modelled. The natural experiment (`naturalistic.py`) is an arm
  whose agents ignore error statuses and is not modelled apart.
- Reconciliation: creating an effect with its event, voiding it and folding an event are
  one transaction each. Amounts are left out, so drift is a difference in the sets of
  effects; of a hold only its state matters.
- Not modelled: plan changes and entitlements, which no agent, worker or schedule calls and
  on which no decision depends, so that there is no protocol to check; `approvals.py`, which
  only tests use; the echo job and `shutdown` of the pool; HTTP framing, cryptography,
  logging, tracing, request log, process management, rendering, statistics and the
  detection and manifest of the oracle, which compute reports from recorded data.

## 6. Plan

In order of importance to the system, all of it done:

1. `Schedule`, `OrderedRelease`, `Barrier`, `BarrierProofs`.
2. `Control`, `ControlProofs`, with the ceiling itself.
3. `Coordinator`, `CoordinatorProofs`.
4. `Effects`, `EffectStore`, `EffectStoreProofs`, with the refinement.
5. `Projection`, `ProjectionProofs`.
6. `Compensation`, `LabRun`, `LabRunProofs`: agents, declared schedules, pool, oracle and
   unordered arms.
7. `Reconciliation`, `ReconciliationProofs`.
8. `Entitlements`, `Approvals`: only if something in `src/` comes to depend on them.

9. `Reservations`, which `Control` implements for clients like the agents and `LabRun`
   implements from the agents' side, so that `GuardedRunsAreClean` rests on the statements
   of `reserve`.

What is left, in this order: to join the two halves of item 9 in one statement, by
composing `LabRun`'s agents with the transactions of `Control` instead of with their
table; the same for the barrier's `Coordinator` and `OrderedRelease`, which `LabRun` uses
in its place; and to carry `NothingIsLost` and `FinishedRunsCaughtUp` over to whole runs.
