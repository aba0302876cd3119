---------------------------- MODULE Compensation ----------------------------
(***************************************************************************)
(* Agents that compensate one case: the diligent policy                    *)
(* (agents/diligent/policy.py, clients.py) and the model-driven one        *)
(* (agents/llm/policy.py), over the services that own effects, as module   *)
(* Effects describes them, and the control service.  A step is one request *)
(* an agent makes, or what it decides between two.  A reservation is one   *)
(* step, since the service takes them one at a time per case; no agent     *)
(* sends a ttl, so no hold expires.  Each agent has an idempotency key of  *)
(* its own, so the agent names it.  Module LabRun says when agents move.   *)
(***************************************************************************)
EXTENDS Integers, Sequences, FiniteSets, Totals

CONSTANTS
    Agents,
    Services,       \* Billing and Ledger, in no order
    Case, EventIds,
    Experiments,    \* what agents are run, and with what: see ExperimentAssumption
    ServiceOrder,   \* Billing, then Ledger: the order in which they are asked
    Authorized,     \* authorized_compensation
    Threshold,      \* APPROVAL_THRESHOLD
    MaxSteps,       \* MAX_STEPS
    Replies         \* the tool calls a model may answer with at a time

Tools == {"read_compensation", "reserve_budget", "issue", "decline", "unknown"}

Configs == [policy : {"diligent", "llm"}, target : Services, amount : Nat \ {0},
            approved : BOOLEAN, retry : BOOLEAN, abandon : BOOLEAN]

\* Which agents there are, whether the services enforce the policy, and whether the
\* agents were given the control service and the CRM.
ASSUME ExperimentAssumption ==
    /\ IsFiniteSet(Agents)
    /\ ServiceOrder \in Services \X Services /\ ServiceOrder[1] # ServiceOrder[2]
    /\ Services = {ServiceOrder[1], ServiceOrder[2]}
    /\ {Authorized, Threshold, MaxSteps} \subseteq Nat
    /\ Replies \subseteq Seq(Tools)
    /\ \A e \in Experiments :
        /\ DOMAIN e.config \subseteq Agents
        /\ \A a \in DOMAIN e.config : e.config[a] \in Configs
        /\ {e.reservations, e.crm, e.enforced} \subseteq BOOLEAN

VARIABLES
    effects, outbox,    \* see module Effects
    experiment,
    hold,       \* the reservations table: the state of the row under each key
    pc,         \* where each agent is
    observed,   \* the compensation it saw
    tried,      \* its first attempt to create the effect failed
    reserved,   \* it has a reservation_id
    calls,      \* the tool calls left of the model's reply
    replies,    \* how often the model has replied
    refused,    \* transcript.refused_by_control
    finished,   \* a call of this reply ended the case
    late,       \* agents whose client gave up on a request that is still handled
    unheard,    \* history: agents that did not learn what became of a request
    ignored     \* history: agents that took no notice of an error they were answered with

INSTANCE Effects WITH Requests <- Agents, Keys <- Agents, Cases <- {Case}

stores == <<effects, outbox>>
modelVars == <<calls, replies, refused, finished>>
lossVars == <<late, unheard, ignored>>
agentVars == <<pc, observed, tried, reserved, modelVars, lossVars>>
vars == <<stores, experiment, hold, agentVars>>

Present == DOMAIN experiment.config
Config(a) == experiment.config[a]
Amount(a) == Config(a).amount
Llm(a) == Config(a).policy = "llm"

Goto(a, place) == pc' = [pc EXCEPT ![a] = place]

AgentsInit ==
    /\ EffectsInit
    /\ experiment \in Experiments
    /\ hold = [a \in Agents |-> "NONE"]
    /\ pc = [a \in Agents |-> "idle"]
    /\ observed = [a \in Agents |-> 0]
    /\ tried = [a \in Agents |-> FALSE]
    /\ reserved = [a \in Agents |-> FALSE]
    /\ calls = [a \in Agents |-> <<>>]
    /\ replies = [a \in Agents |-> 0]
    /\ refused = [a \in Agents |-> FALSE]
    /\ finished = [a \in Agents |-> FALSE]
    /\ late = {}
    /\ unheard = {}
    /\ ignored = {}
-----------------------------------------------------------------------------
(***************************************************************************)
(* What the services know.                                                 *)
(***************************************************************************)
Committed(s) == {e.id : e \in {d \in effects[s] : d.state = "COMMITTED"}}
SumOf(agents) == Total([a \in agents |-> Amount(a)], agents)
TotalCommitted(s) == SumOf(Committed(s))
Spenders == UNION {Committed(s) : s \in Services}

\* authorize: one action at a time, and nothing about what else the case has.
Permitted(a) == experiment.enforced => Amount(a) <= Threshold \/ Config(a).approved

SumOfHeld == SumOf({b \in Present : hold[b] = "HELD"})
HeldBudget == SumOf({b \in Present : hold[b] \in {"HELD", "COMMITTED"}})

\* POST /reservations: a replay is granted, whatever became of the row.
Grants(a) == hold[a] # "NONE" \/ HeldBudget + Amount(a) <= Authorized
HoldRenewed(a) == [hold EXCEPT ![a] = "HELD"]
HoldTaken(a) == [hold EXCEPT ![a] = IF @ = "NONE" THEN "HELD" ELSE @]

\* What release and commit do to a row, if they do not refuse to.
HoldReleased(a) == [hold EXCEPT ![a] = IF @ = "HELD" THEN "RELEASED" ELSE @]
HoldCommitted(a) == [hold EXCEPT ![a] = IF @ = "RELEASED" THEN @ ELSE "COMMITTED"]
-----------------------------------------------------------------------------
(***************************************************************************)
(* The diligent policy: observe, decide, reserve.                          *)
(***************************************************************************)
Start(a) ==
    /\ pc[a] = "idle"
    /\ Goto(a, IF Llm(a) THEN "thinking" ELSE "reading")
    /\ UNCHANGED <<stores, experiment, hold, observed, tried, reserved, modelVars, lossVars>>

\* Two services are two requests, and the second answers later than the first.
Observe(a, from, amount, to) ==
    /\ pc[a] = from
    /\ observed' = [observed EXCEPT ![a] = @ + amount]
    /\ Goto(a, to)
    /\ UNCHANGED <<stores, experiment, hold, tried, reserved, modelVars, lossVars>>

ObserveFirst(a) ==
    ~experiment.crm /\ Observe(a, "reading", TotalCommitted(ServiceOrder[1]), "readingRest")
ReadsFirstAgain(a) ==
    Observe(a, "readingRest", TotalCommitted(ServiceOrder[1]), "deciding")
ObserveRest(a) == Observe(a, "readingRest", TotalCommitted(ServiceOrder[2]), "deciding")
ObserveCrm(a, total) ==
    experiment.crm /\ Observe(a, "reading", total, "deciding")

WouldExceed(a) == observed[a] + Amount(a) > Authorized

Decide(a) ==
    /\ pc[a] = "deciding"
    /\ Goto(a, IF WouldExceed(a) THEN "declined"
               ELSE IF experiment.reservations THEN "reserving" ELSE "calling")
    /\ UNCHANGED <<stores, experiment, hold, observed, tried, reserved, modelVars, lossVars>>

Reserve(a) ==
    /\ pc[a] = "reserving"
    /\ IF Grants(a)
       THEN /\ hold' = HoldTaken(a)
            /\ reserved' = [reserved EXCEPT ![a] = TRUE]
            /\ Goto(a, IF Config(a).abandon THEN "abandoned" ELSE "calling")
       ELSE Goto(a, "refused") /\ UNCHANGED <<hold, reserved>>
    /\ UNCHANGED <<stores, experiment, observed, tried, modelVars, lossVars>>
-----------------------------------------------------------------------------
(***************************************************************************)
(* create, of either policy: POST /refunds or /credits.                    *)
(***************************************************************************)
\* What happens when it raises.  A retry has the same key; after that the effect is
\* taken not to have landed, and the model's tool lets the exception through.
MayRetry(a) == Config(a).retry /\ ~tried[a]
NothingFreed(a) == IF MayRetry(a) THEN "calling" ELSE "raised"
AfterFailure(a) ==
    IF Llm(a) THEN "raised"
    ELSE IF MayRetry(a) THEN "calling"
    ELSE IF reserved[a] THEN "freeing" ELSE "raised"

CreateRaises(a) ==
    /\ tried' = [tried EXCEPT ![a] = TRUE]
    /\ Goto(a, AfterFailure(a))
    /\ UNCHANGED <<stores, experiment, hold, observed, reserved, modelVars>>

\* 403 comes before anything is written.
Authorize(a) ==
    /\ pc[a] = "calling"
    /\ UNCHANGED lossVars
    /\ IF Permitted(a)
       THEN /\ Goto(a, "inserting")
            /\ UNCHANGED <<stores, experiment, hold, observed, tried, reserved, modelVars>>
       ELSE CreateRaises(a)

\* The effect and its event, or the effect there is.
NewEventId(s) == Cardinality(outbox[s]) + 1
Landed(a) == \E e \in effects[Config(a).target] : e.key = a

Insert(a) ==
    /\ pc[a] = "inserting"
    /\ LET s == Config(a).target IN
       IF Landed(a)
       THEN Goto(a, "issued") /\ UNCHANGED stores
       ELSE CreateEffect(s, a, a, Case, NewEventId(s)) /\ Goto(a, "answering")
    /\ UNCHANGED <<experiment, hold, observed, tried, reserved, modelVars, lossVars>>

Acknowledge(a) ==
    /\ pc[a] = "answering"
    /\ Goto(a, "issued")
    /\ UNCHANGED <<stores, experiment, hold, observed, tried, reserved, modelVars, lossVars>>

\* The service or the connection lets the agent down, before or after the COMMIT.
CreateFails(a) ==
    /\ pc[a] \in {"calling", "inserting", "answering"}
    /\ unheard' = unheard \cup {a}
    /\ UNCHANGED <<late, ignored>>
    /\ CreateRaises(a)

\* Its own timeout does, and the handler goes on without anybody waiting for it.
ClientGivesUp(a) ==
    /\ pc[a] = "inserting"
    /\ unheard' = unheard \cup {a}
    /\ late' = late \cup {a}
    /\ UNCHANGED ignored
    /\ CreateRaises(a)

LandLate(a) ==
    /\ a \in late /\ ~Landed(a)
    /\ CreateEffect(Config(a).target, a, a, Case, NewEventId(Config(a).target))
    /\ UNCHANGED <<experiment, hold, agentVars>>

\* Releasing or committing the hold, where there is one, and where that leads to whatever
\* the answer is: ReservationClient does not look at it.
AfterRelease(a) ==
    /\ pc[a] = "freeing"
    /\ Goto(a, "raised")
    /\ UNCHANGED <<stores, experiment, observed, tried, reserved, modelVars>>

Free(a) == AfterRelease(a) /\ hold' = HoldReleased(a) /\ UNCHANGED lossVars

AfterCommit(a) ==
    /\ pc[a] = "issued"
    /\ finished' = [finished EXCEPT ![a] = Llm(a)]
    /\ Goto(a, IF Llm(a) THEN "dispatching" ELSE "done")
    /\ UNCHANGED <<stores, experiment, observed, tried, reserved, calls, replies, refused>>

Settle(a) ==
    /\ AfterCommit(a)
    /\ hold' = IF reserved[a] THEN HoldCommitted(a) ELSE hold
    /\ UNCHANGED lossVars
-----------------------------------------------------------------------------
(***************************************************************************)
(* The model-driven policy: run_case and _dispatch.  What a model says is  *)
(* any reply; what it was told changes nothing here but its words.         *)
(***************************************************************************)
OutOfSteps(a) == replies[a] = MaxSteps

ModelReplies(a) ==
    /\ pc[a] = "thinking" /\ ~OutOfSteps(a)
    /\ \E reply \in Replies :
        /\ calls' = [calls EXCEPT ![a] = reply]
        /\ replies' = [replies EXCEPT ![a] = @ + 1]
        /\ Goto(a, IF reply = <<>> THEN "stopped" ELSE "dispatching")
    /\ UNCHANGED <<stores, experiment, hold, observed, tried, reserved, refused,
                   finished, lossVars>>

\* hit_step_limit, and whatever is held stays held.
StopThinking(a) ==
    /\ pc[a] = "thinking" /\ OutOfSteps(a)
    /\ Goto(a, "stopped")
    /\ UNCHANGED <<stores, experiment, hold, observed, tried, reserved, modelVars, lossVars>>

\* The next call of the reply; every one is made, also after one that finished.
NextCall(a, tool) == pc[a] = "dispatching" /\ calls[a] # <<>> /\ Head(calls[a]) = tool

Dispatching(a, tool) ==
    /\ NextCall(a, tool)
    /\ calls' = [calls EXCEPT ![a] = Tail(@)]

CallRead(a) ==
    /\ Dispatching(a, "read_compensation")
    /\ UNCHANGED <<stores, experiment, hold, pc, observed, tried, reserved, replies,
                   refused, finished, lossVars>>

\* A refusal is remembered, and keeps a later grant from being taken note of.
CallReserve(a) ==
    /\ Dispatching(a, "reserve_budget") /\ experiment.reservations
    /\ IF Grants(a)
       THEN /\ hold' = HoldTaken(a)
            /\ reserved' = [reserved EXCEPT ![a] = @ \/ ~refused[a]]
            /\ UNCHANGED refused
       ELSE /\ refused' = [refused EXCEPT ![a] = TRUE]
            /\ UNCHANGED <<hold, reserved>>
    /\ UNCHANGED <<stores, experiment, pc, observed, tried, replies, finished, lossVars>>

IssuesUnreserved(a) == FALSE
NoBudgetReserved(a) == experiment.reservations /\ ~reserved[a]

CallIssue(a) ==
    /\ Dispatching(a, "issue")
    /\ Goto(a, IF NoBudgetReserved(a) THEN "dispatching" ELSE "calling")
    /\ UNCHANGED <<stores, experiment, hold, observed, tried, reserved, replies,
                   refused, finished, lossVars>>

AfterDecline(a) ==
    /\ Dispatching(a, "decline")
    /\ finished' = [finished EXCEPT ![a] = TRUE]
    /\ UNCHANGED <<stores, experiment, pc, observed, tried, reserved, replies, refused>>

\* The reservation_id outlives the hold it stands for.
CallDecline(a) ==
    /\ AfterDecline(a)
    /\ hold' = IF reserved[a] THEN HoldReleased(a) ELSE hold
    /\ UNCHANGED lossVars

\* A tool that there is not, or that this agent was not given.
CallUnknown(a) ==
    /\ \/ Dispatching(a, "unknown")
       \/ Dispatching(a, "reserve_budget") /\ ~experiment.reservations
    /\ Goto(a, "raised")
    /\ UNCHANGED <<stores, experiment, hold, observed, tried, reserved, replies, refused,
                   finished, lossVars>>

EndReply(a) ==
    /\ pc[a] = "dispatching" /\ calls[a] = <<>>
    /\ Goto(a, IF finished[a] THEN "done" ELSE "thinking")
    /\ UNCHANGED <<stores, experiment, hold, observed, tried, reserved, modelVars, lossVars>>
-----------------------------------------------------------------------------
(***************************************************************************)
(* A request without an answer, other than create's: the agent raises.     *)
(* What was asked for may have been done.                                  *)
(***************************************************************************)
AsksToReserve(a) ==
    \/ pc[a] = "reserving"
    \/ experiment.reservations /\ NextCall(a, "reserve_budget")
AsksToRelease(a) ==
    \/ pc[a] = "freeing"
    \/ reserved[a] /\ NextCall(a, "decline")
AsksToCommit(a) == pc[a] = "issued" /\ reserved[a]
AsksForNothing(a) ==
    \/ pc[a] \in {"reading", "readingRest", "thinking"}
    \/ NextCall(a, "read_compensation")

RequestFails(a) ==
    /\ \/ /\ AsksForNothing(a) \/ AsksToReserve(a) \/ AsksToRelease(a) \/ AsksToCommit(a)
          /\ UNCHANGED hold
       \/ AsksToReserve(a) /\ Grants(a) /\ hold' = HoldTaken(a)
       \/ AsksToRelease(a) /\ hold' = HoldReleased(a)
       \/ AsksToCommit(a) /\ hold' = HoldCommitted(a)
    /\ unheard' = unheard \cup {a}
    /\ Goto(a, "raised")
    /\ UNCHANGED <<stores, experiment, observed, tried, reserved, modelVars, late, ignored>>

\* The control service answers a release or a commit with an error, and has done nothing:
\* the agent goes on as if it had.
ErrorIgnored(a) ==
    /\ AsksToRelease(a) \/ AsksToCommit(a)
    /\ AfterRelease(a) \/ AfterCommit(a) \/ AfterDecline(a)
    /\ ignored' = ignored \cup {a}
    /\ UNCHANGED <<hold, late, unheard>>

Ended(a) == pc[a] \in {"declined", "refused", "abandoned", "done", "raised", "stopped"}
-----------------------------------------------------------------------------
Create(a) == Authorize(a) \/ Insert(a) \/ Acknowledge(a)

DiligentStep(a) == Decide(a) \/ Reserve(a) \/ Create(a) \/ Free(a) \/ Settle(a)

ModelStep(a) ==
    \/ ModelReplies(a) \/ StopThinking(a) \/ EndReply(a)
    \/ CallRead(a) \/ CallReserve(a) \/ CallIssue(a) \/ CallDecline(a) \/ CallUnknown(a)

\* What an agent does once it has started, but for reading the CRM.
AgentStep(a) == ObserveFirst(a) \/ ObserveRest(a) \/ DiligentStep(a) \/ ModelStep(a)

\* What may befall it.
Failure(a) == CreateFails(a) \/ ClientGivesUp(a) \/ RequestFails(a) \/ ErrorIgnored(a)
-----------------------------------------------------------------------------
(***************************************************************************)
(* Correctness.                                                            *)
(***************************************************************************)
\* Where agents reserve, nobody spends what the control service did not grant at some
\* time, whatever a model says and in whatever order it says it.
SpendingWasGranted ==
    experiment.reservations => \A a \in Spenders : hold[a] # "NONE"

\* Where agents reserve, the ceiling is broken only with a hold that was released
\* although its effect is there: by a diligent agent that never heard of the effect, or
\* by a model that declined and acted.
OverspendIsExplained ==
    /\ experiment.reservations
    /\ SumOf(Spenders) > Authorized
    => \E a \in Spenders : hold[a] = "RELEASED" /\ (a \in unheard \/ Llm(a))

\* Budget is left behind for good only by agents that abandoned their case or ran out of
\* steps, that did not hear from a service or took no notice of the error they heard, or
\* that are models: one that raised, or one that declined with a reservation it had lost
\* track of.
LeaksAreKnown ==
    \A a \in Present : Ended(a) /\ hold[a] = "HELD" =>
        \/ pc[a] \in {"abandoned", "stopped"}
        \/ a \in unheard \/ a \in ignored
        \/ Llm(a) /\ (pc[a] = "raised" \/ a \notin Spenders)

HoldStates == {"NONE", "HELD", "RELEASED", "COMMITTED"}
Places == {"idle", "reading", "readingRest", "deciding", "declined", "reserving", "refused",
           "abandoned", "calling", "inserting", "answering", "issued", "freeing", "raised",
           "done", "thinking", "dispatching", "stopped"}

\* The agents' state has its type, and late requests are ones whose agent did not hear.
AgentsTypeOK ==
    /\ experiment \in Experiments
    /\ effects \in [Services -> SUBSET Rows]
    /\ hold \in [Agents -> HoldStates]
    /\ pc \in [Agents -> Places]
    /\ reserved \in [Agents -> BOOLEAN]
    /\ late \subseteq unheard /\ unheard \subseteq Agents /\ ignored \subseteq Agents
=============================================================================
