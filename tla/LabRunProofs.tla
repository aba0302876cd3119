---------------------------- MODULE LabRunProofs ----------------------------
(***************************************************************************)
(* What holds of every run of the lab: of the agents and their budget,     *)
(* however they are ordered and whatever fails, and of the oracle's        *)
(* verdict.                                                                *)
(***************************************************************************)
EXTENDS LabRun, TotalsProofs, SequenceTheorems, TLAPS

-----------------------------------------------------------------------------
(***************************************************************************)
(* The inductive invariant: the agents.                                    *)
(***************************************************************************)
\* An agent has an effect in the service it was made for, under its own key, if at all.
EffectsAreOwn ==
    \A s \in Services : \A e \in effects[s] :
        /\ e.id \in Present /\ e.key = e.id /\ s = Config(e.id).target
        /\ e.state = "COMMITTED" /\ Permitted(e.id)

BudgetIsKept == HeldBudget <= Authorized

\* An agent that does anything is one of the experiment's, and runs its policy.
IsConfigured(a) ==
    /\ pc[a] # "idle" \/ a \in late => a \in Present
    /\ pc[a] \in {"thinking", "dispatching", "stopped"} => Llm(a)

\* What creates its effect, or has created it, has a reservation.
Spending(a) ==
    pc[a] \in {"calling", "inserting", "answering", "issued"} \/ a \in late \/ a \in Spenders

GrantCameFirst(a) ==
    /\ ~experiment.reservations => hold[a] = "NONE" /\ ~reserved[a] /\ pc[a] # "reserving"
    /\ reserved[a] => hold[a] # "NONE"
    /\ experiment.reservations /\ Spending(a) => reserved[a]
    /\ pc[a] = "inserting" \/ a \in late => Permitted(a)

\* A diligent agent that heard of everything settles what it holds, unless an error keeps
\* it, and gives it back only without an effect; a model's tool commits the hold right
\* after the effect, unless an error keeps it.
Settles(a) ==
    /\ ~Llm(a) /\ a \in ignored => pc[a] \in {"raised", "done"}
    /\ ~Llm(a) /\ a \notin unheard =>
        /\ hold[a] = "HELD" /\ a \notin ignored =>
            /\ reserved[a]
            /\ pc[a] \in {"abandoned", "calling", "inserting", "answering", "issued", "freeing"}
        /\ hold[a] = "RELEASED" => pc[a] = "raised"
        /\ hold[a] = "RELEASED" \/ pc[a] = "freeing" => a \notin Spenders
    /\ Llm(a) /\ a \notin unheard /\ a \notin ignored /\ a \in Spenders /\ hold[a] = "HELD" =>
        pc[a] \in {"answering", "issued", "raised"}

IsSound(a) == IsConfigured(a) /\ GrantCameFirst(a) /\ (a \in Present => Settles(a))

AgentsInv ==
    /\ AgentsTypeOK
    /\ EffectsAreOwn
    /\ BudgetIsKept
    /\ \A a \in Agents : IsSound(a)

-----------------------------------------------------------------------------
(***************************************************************************)
(* The inductive invariant: the run, and what is seen of it.               *)
(***************************************************************************)
\* Only at a checkpoint does an agent ask; one that was let down may have left it.
AsksAtCheckpoint ==
    \A a \in Agents : gate[a] # "closed" /\ a \notin unheard =>
        pc[a] \in {"reading", "deciding", "reserving", "inserting", "answering"}

\* Every actor is dispatched once, in the order of the schedule, taken in that order,
\* and then either at work or back.
Taken == Cardinality(running) + Cardinality(results)

PoolIsInOrder ==
    /\ IsFiniteSet(running) /\ IsFiniteSet(results) /\ running \cap results = {}
    /\ running \cup results = {schedule.actors[i] : i \in 1..Taken}
    /\ inbox = [i \in 1..Len(inbox) |-> schedule.actors[Taken + i]]
    /\ Taken + Len(inbox) <= Len(schedule.actors)
    /\ phase = "dispatching" <=> Taken + Len(inbox) < Len(schedule.actors)
    /\ phase = "dispatching" /\ ~schedule.ordered => Taken = 0 /\ inbox = <<>>

\* Whoever could spend has come back before the oracle reads.
NobodyIsAtWork == phase \in {"judging", "judged"} => running = {} /\ inbox = <<>>

ReadingsAreTrue ==
    /\ phase \in {"dispatching", "collecting", "raised"} => readings = <<>>
    /\ phase \in {"judging", "judged"} => Len(readings) <= Len(ReadPlan)
    /\ phase = "judged" => Len(readings) = Len(ReadPlan)
    /\ phase = "judging" => Len(readings) < Len(ReadPlan)
    /\ phase \in {"judging", "judged"} /\ late = {} =>
        \A i \in 1..Len(readings) : readings[i] = TotalCommitted(ReadPlan[i])

LabRunInv ==
    /\ AgentsInv
    /\ RunTypeOK
    /\ AsksAtCheckpoint
    /\ PoolIsInOrder
    /\ NobodyIsAtWork
    /\ ReadingsAreTrue

\* Events tell of effects there are, and of each once; the CRM's own part is as module
\* Projection says.
EventsAreTrue ==
    /\ outbox \in [Services -> SUBSET Events]
    /\ \A s \in Services : \A v, w \in outbox[s] :
        v.entity \in Committed(s) /\ (v.entity = w.entity => v = w)

CrmIsExact ==
    /\ CRM!TypeOK
    /\ CRM!HandedEventsArePublished
    /\ CRM!FoldsAreExclusive
    /\ CRM!TotalIsExact

\* What an agent saw so far was there.
SeesNoMore(a) ==
    /\ pc[a] \in {"idle", "reading"} => observed[a] = 0
    /\ pc[a] = "readingRest" => observed[a] <= TotalCommitted(ServiceOrder[1])
    /\ observed[a] <= SumOf(Spenders)
    /\ pc[a] = "declined" => observed[a] + Amount(a) > Authorized

ViewsInv ==
    /\ EventsAreTrue
    /\ CrmIsExact
    /\ redelivering \in [Redeliverers -> Seq(Services)]
    /\ observed \in [Agents -> Nat]
    /\ \A a \in Agents : SeesNoMore(a)

-----------------------------------------------------------------------------
(***************************************************************************)
(* Sums, and who has an effect.                                            *)
(***************************************************************************)
LEMMA PresentAreConfigured ==
    ASSUME experiment \in Experiments
    PROVE  /\ Present \subseteq Agents /\ IsFiniteSet(Present)
           /\ \A a \in Present : Config(a) \in Configs /\ Amount(a) \in Nat
           /\ \A a \in Present : Config(a).target \in Services
           /\ experiment.reservations \in BOOLEAN
<1>1. /\ Present \subseteq Agents
      /\ \A a \in Present : Config(a) \in Configs
      /\ experiment.reservations \in BOOLEAN
  BY ExperimentAssumption DEF Present, Config
<1>2. IsFiniteSet(Present)
  BY <1>1, ExperimentAssumption, FS_Subset
<1>3. \A c \in Configs : c.amount \in Nat /\ c.target \in Services
  BY DEF Configs
<1> QED BY <1>1, <1>2, <1>3 DEF Amount

LEMMA SumIsNatural ==
    ASSUME experiment \in Experiments, NEW S, S \subseteq Present
    PROVE  IsFiniteSet(S) /\ SumOf(S) \in Nat
<1>1. IsFiniteSet(S) /\ \A a \in S : Amount(a) \in Nat
  BY PresentAreConfigured, FS_Subset
<1> QED BY <1>1, TotalIsNatural DEF SumOf

LEMMA SumIsMonotone ==
    ASSUME experiment \in Experiments, NEW S, S \subseteq Present, NEW T, T \subseteq S
    PROVE  SumOf(T) <= SumOf(S)
<1>1. IsFiniteSet(S) /\ \A a \in S : Amount(a) \in Nat
  BY PresentAreConfigured, FS_Subset
<1> DEFINE amount == [a \in S |-> Amount(a)]
           other == [a \in T |-> Amount(a)]
<1>2. /\ \A a \in S : amount[a] \in Nat
      /\ \A a \in T : other[a] = amount[a]
  BY <1>1
<1> HIDE DEF amount, other
<1>3. Total(other, T) <= Total(amount, S)
  BY <1>1, <1>2, TotalIsMonotone
<1> QED BY <1>3 DEF SumOf, amount, other

LEMMA SumOfOneMore ==
    ASSUME experiment \in Experiments, NEW S, S \subseteq Present,
           NEW a \in Present, a \notin S
    PROVE  SumOf(S \cup {a}) = SumOf(S) + Amount(a)
<1>1. IsFiniteSet(S) /\ \A b \in S \cup {a} : Amount(b) \in Nat
  BY PresentAreConfigured, FS_Subset
<1> DEFINE whole == [b \in S \cup {a} |-> Amount(b)]
           part == [b \in S |-> Amount(b)]
<1>2. /\ \A b \in S \cup {a} : whole[b] \in Nat
      /\ \A b \in S : part[b] = whole[b]
      /\ \A b \in S : part[b] \in Nat /\ whole[b] = part[b]
      /\ whole[a] = Amount(a)
  BY <1>1
<1> HIDE DEF whole, part
<1>3. Total(whole, S \cup {a}) = Total(whole, S) + whole[a]
  BY <1>1, <1>2, TotalOfOneMore
<1>4. Total(part, S) <= Total(whole, S) /\ Total(whole, S) <= Total(part, S)
  BY <1>1, <1>2, TotalIsMonotone
<1>5. Total(part, S) \in Nat /\ Total(whole, S) \in Nat
  BY <1>1, <1>2, TotalIsNatural
<1>6. Total(part, S) = Total(whole, S)
  BY <1>4, <1>5
<1> QED BY <1>2, <1>3, <1>6 DEF SumOf, whole, part

LEMMA SumOfParts ==
    ASSUME experiment \in Experiments, NEW S, S \subseteq Present,
           NEW T, T \subseteq Present, S \cap T = {}
    PROVE  SumOf(S \cup T) = SumOf(S) + SumOf(T)
<1>1. /\ IsFiniteSet(S) /\ IsFiniteSet(T)
      /\ \A b \in S \cup T : Amount(b) \in Nat
  BY PresentAreConfigured, FS_Subset
<1> DEFINE whole == [b \in S \cup T |-> Amount(b)]
           one == [b \in S |-> Amount(b)]
           two == [b \in T |-> Amount(b)]
<1>2. /\ \A b \in S : one[b] \in Nat /\ whole[b] = one[b]
      /\ \A b \in T : two[b] \in Nat /\ whole[b] = two[b]
  BY <1>1
<1> HIDE DEF whole, one, two
<1>3. Total(whole, S \cup T) = Total(one, S) + Total(two, T)
  BY <1>1, <1>2, TotalOfParts
<1> QED BY <1>3 DEF SumOf, whole, one, two

\* An agent has an effect iff there is one under its key, and it is one of those
\* whose target the service is.
LEMMA SpendersHaveLanded ==
    ASSUME AgentsTypeOK, EffectsAreOwn
    PROVE  /\ Spenders \subseteq Present
           /\ \A a \in Present : Landed(a) <=> a \in Spenders
           /\ \A s \in Services : Committed(s) = {a \in Spenders : Config(a).target = s}
           /\ \A a \in Spenders : Permitted(a)
<1>1. \A s \in Services : Committed(s) = {e.id : e \in effects[s]}
  BY DEF Committed, EffectsAreOwn
<1>2. \A s \in Services : \A e \in effects[s] : e.id \in Spenders
  BY <1>1 DEF Spenders
<1>3. \A a \in Spenders :
        \E s \in Services : \E e \in effects[s] : e.id = a
  BY <1>1 DEF Spenders
<1>4. \A a \in Spenders :
        a \in Present /\ Permitted(a) /\ \E e \in effects[Config(a).target] : e.id = a /\ e.key = a
  BY <1>3 DEF EffectsAreOwn
<1>5. \A a \in Present : Landed(a) <=> a \in Spenders
  <2> TAKE a \in Present
  <2>1. Config(a).target \in Services
    BY PresentAreConfigured DEF AgentsTypeOK
  <2> QED BY <1>2, <1>4, <2>1 DEF Landed, EffectsAreOwn
<1>6. \A s \in Services : Committed(s) = {a \in Spenders : Config(a).target = s}
  <2> TAKE s \in Services
  <2>1. \A a \in Committed(s) : a \in Spenders /\ Config(a).target = s
    BY <1>1, <1>2 DEF EffectsAreOwn
  <2>2. \A a \in Spenders : Config(a).target = s => a \in Committed(s)
    BY <1>1, <1>4
  <2> QED BY <2>1, <2>2
<1> QED BY <1>4, <1>5, <1>6

\* The effects of others, and what their sums are, do not depend on what an agent does
\* but for creating one.
LEMMA SpendersStay ==
    ASSUME AgentsTypeOK, EffectsAreOwn, UNCHANGED <<effects, experiment>>
    PROVE  /\ effects' \in [Services -> SUBSET Rows]
           /\ EffectsAreOwn'
           /\ Spenders' = Spenders
<1>1. effects' \in [Services -> SUBSET Rows]
  BY DEF AgentsTypeOK
<1>2. EffectsAreOwn'
  BY DEF EffectsAreOwn, Present, Config, Permitted, Amount
<1>3. Spenders' = Spenders
  BY DEF Spenders, Committed
<1> QED BY <1>1, <1>2, <1>3

LEMMA SpendersGrow ==
    ASSUME AgentsTypeOK, EffectsAreOwn, UNCHANGED experiment,
           NEW a \in Present, NEW i, Permitted(a),
           CreateEffect(Config(a).target, a, a, Case, i)
    PROVE  /\ effects' \in [Services -> SUBSET Rows]
           /\ EffectsAreOwn'
           /\ Spenders' = Spenders \cup {a}
<1> DEFINE s == Config(a).target
           row == [id |-> a, key |-> a, case |-> Case, state |-> "COMMITTED"]
<1>1. s \in Services /\ a \in Agents
  BY PresentAreConfigured DEF AgentsTypeOK
<1>2. row \in Rows
  BY <1>1 DEF Rows
<1>3. effects' = [effects EXCEPT ![s] = @ \cup {row}]
  BY DEF CreateEffect
<1>4. /\ row.id = a /\ row.key = a /\ row.state = "COMMITTED"
  OBVIOUS
<1>5. s = Config(a).target
  OBVIOUS
<1> HIDE DEF s, row
<1>6. effects' \in [Services -> SUBSET Rows]
  BY <1>1, <1>2, <1>3 DEF AgentsTypeOK
<1>7. /\ effects'[s] = effects[s] \cup {row}
      /\ \A t \in Services : t # s => effects'[t] = effects[t]
  BY <1>1, <1>3 DEF AgentsTypeOK
<1>8. EffectsAreOwn'
  <2> SUFFICES ASSUME NEW t \in Services, NEW e \in effects'[t]
               PROVE  /\ e.id \in Present /\ e.key = e.id /\ t = Config(e.id).target
                      /\ e.state = "COMMITTED" /\ Permitted(e.id)
    BY DEF EffectsAreOwn, Present, Config, Permitted, Amount
  <2>1. e \in effects[t] \/ (t = s /\ e = row)
    BY <1>7
  <2> QED BY <2>1, <1>4, <1>5 DEF EffectsAreOwn
<1>9. \A t \in Services : t = s => Committed(t)' = Committed(t) \cup {a}
  BY <1>4, <1>7 DEF Committed
<1>10. \A t \in Services : t # s => Committed(t)' = Committed(t)
  BY <1>7 DEF Committed
<1>11. Spenders' = Spenders \cup {a}
  BY <1>1, <1>9, <1>10 DEF Spenders
<1> QED BY <1>6, <1>8, <1>11

-----------------------------------------------------------------------------
(***************************************************************************)
(* The budget.                                                             *)
(***************************************************************************)
Taking(state) == state \in {"HELD", "COMMITTED"}

LEMMA BudgetIsNotTaken ==
    ASSUME AgentsTypeOK, BudgetIsKept, UNCHANGED experiment,
           \A b \in Present : Taking(hold'[b]) => Taking(hold[b])
    PROVE  BudgetIsKept'
<1> DEFINE before == {b \in Present : Taking(hold[b])}
           after == {b \in Present : Taking(hold'[b])}
<1>1. after \subseteq before /\ before \subseteq Present
  OBVIOUS
<1>2. experiment \in Experiments /\ Authorized \in Nat
  BY ExperimentAssumption DEF AgentsTypeOK
<1>3. HeldBudget = SumOf(before) /\ HeldBudget' = SumOf(after)
  BY DEF HeldBudget, Taking, SumOf, Present, Amount, Config
<1> HIDE DEF before, after
<1>4. SumOf(after) <= SumOf(before)
  BY <1>1, <1>2, SumIsMonotone
<1>5. SumOf(after) \in Nat /\ SumOf(before) \in Nat
  BY <1>1, <1>2, SumIsNatural
<1> QED BY <1>2, <1>3, <1>4, <1>5 DEF BudgetIsKept

LEMMA BudgetIsGranted ==
    ASSUME AgentsTypeOK, BudgetIsKept, UNCHANGED experiment,
           NEW a \in Present, ~Taking(hold[a]),
           HeldBudget + Amount(a) <= Authorized,
           \A b \in Present \ {a} : hold'[b] = hold[b]
    PROVE  BudgetIsKept'
<1> DEFINE before == {b \in Present : Taking(hold[b])}
           after == {b \in Present : Taking(hold'[b])}
<1>1. after \subseteq before \cup {a} /\ before \subseteq Present /\ a \notin before
  OBVIOUS
<1>2. experiment \in Experiments /\ Authorized \in Nat
  BY ExperimentAssumption DEF AgentsTypeOK
<1>3. HeldBudget = SumOf(before) /\ HeldBudget' = SumOf(after)
  BY DEF HeldBudget, Taking, SumOf, Present, Amount, Config
<1> HIDE DEF before, after
<1>4. SumOf(before \cup {a}) = SumOf(before) + Amount(a)
  BY <1>1, <1>2, SumOfOneMore
<1>5. SumOf(after) <= SumOf(before \cup {a})
  BY <1>1, <1>2, SumIsMonotone
<1>6. SumOf(after) \in Nat /\ SumOf(before) \in Nat /\ Amount(a) \in Nat
  BY <1>1, <1>2, SumIsNatural, PresentAreConfigured
<1> QED BY <1>2, <1>3, <1>4, <1>5, <1>6 DEF BudgetIsKept

-----------------------------------------------------------------------------
(***************************************************************************)
(* A step in which one agent moves.  Of the others nothing changes, so it  *)
(* is enough that it is sound itself and takes no budget it was not        *)
(* granted.                                                                *)
(***************************************************************************)
MovesAlone(a) ==
    /\ UNCHANGED experiment
    /\ pc' = [pc EXCEPT ![a] = pc'[a]] /\ pc'[a] \in Places
    /\ hold' = [hold EXCEPT ![a] = hold'[a]] /\ hold'[a] \in HoldStates
    /\ reserved' = [reserved EXCEPT ![a] = reserved'[a]] /\ reserved'[a] \in BOOLEAN
    /\ late' \ {a} = late \ {a} /\ unheard' \ {a} = unheard \ {a}
    /\ ignored' \ {a} = ignored \ {a}
    /\ a \in late' => a \in unheard'

TakesWhatIsGranted(a) ==
    Taking(hold'[a]) => Taking(hold[a]) \/ HeldBudget + Amount(a) <= Authorized

SpendsNothing == UNCHANGED effects
Spends(a) == Permitted(a) /\ \E i : CreateEffect(Config(a).target, a, a, Case, i)

LEMMA SpendersMove ==
    ASSUME AgentsTypeOK, EffectsAreOwn, UNCHANGED experiment, NEW a \in Present,
           SpendsNothing \/ Spends(a)
    PROVE  /\ effects' \in [Services -> SUBSET Rows]
           /\ EffectsAreOwn'
           /\ SpendsNothing => Spenders' = Spenders
           /\ Spends(a) => Spenders' = Spenders \cup {a}
<1>1. SpendsNothing =>
        /\ effects' \in [Services -> SUBSET Rows] /\ EffectsAreOwn' /\ Spenders' = Spenders
  BY SpendersStay DEF SpendsNothing
<1>2. Spends(a) =>
        /\ effects' \in [Services -> SUBSET Rows] /\ EffectsAreOwn'
        /\ Spenders' = Spenders \cup {a}
  BY SpendersGrow DEF Spends
<1> QED BY <1>1, <1>2

LEMMA OneMoves ==
    ASSUME AgentsInv, NEW a \in Present, MovesAlone(a),
           SpendsNothing \/ Spends(a), TakesWhatIsGranted(a), IsSound(a)'
    PROVE  AgentsInv'
<1> USE DEF AgentsInv
<1>1. UNCHANGED experiment /\ a \in Agents /\ Present \subseteq Agents
  BY PresentAreConfigured DEF MovesAlone, AgentsTypeOK
<1>2. \A b \in Agents \ {a} :
        /\ hold'[b] = hold[b] /\ pc'[b] = pc[b] /\ reserved'[b] = reserved[b]
        /\ b \in late' <=> b \in late
        /\ b \in unheard' <=> b \in unheard
        /\ b \in ignored' <=> b \in ignored
  BY <1>1 DEF MovesAlone, AgentsTypeOK
<1>3. /\ effects' \in [Services -> SUBSET Rows] /\ EffectsAreOwn'
      /\ Spenders' = Spenders \/ Spenders' = Spenders \cup {a}
  BY <1>1, SpendersMove
<1>4. AgentsTypeOK'
  BY <1>1, <1>3 DEF AgentsTypeOK, MovesAlone
<1>5. BudgetIsKept'
  <2>1. CASE Taking(hold'[a]) => Taking(hold[a])
    <3>1. \A b \in Present : Taking(hold'[b]) => Taking(hold[b])
      BY <1>1, <1>2, <2>1
    <3> QED BY <1>1, <3>1, BudgetIsNotTaken
  <2>2. CASE ~Taking(hold[a]) /\ HeldBudget + Amount(a) <= Authorized
    <3>1. \A b \in Present \ {a} : hold'[b] = hold[b]
      BY <1>1, <1>2
    <3> QED BY <1>1, <2>2, <3>1, BudgetIsGranted
  <2> QED BY <2>1, <2>2 DEF TakesWhatIsGranted
<1>6. \A b \in Agents \ {a} : IsSound(b)'
  <2> TAKE b \in Agents \ {a}
  <2>1. IsSound(b)
    OBVIOUS
  <2>2. /\ hold'[b] = hold[b] /\ pc'[b] = pc[b] /\ reserved'[b] = reserved[b]
        /\ b \in late' <=> b \in late
        /\ b \in unheard' <=> b \in unheard
        /\ b \in ignored' <=> b \in ignored
        /\ b \in Spenders' <=> b \in Spenders
    BY <1>2, <1>3
  <2>3. /\ Llm(b)' = Llm(b) /\ Permitted(b)' = Permitted(b) /\ Present' = Present
    BY <1>1 DEF Llm, Permitted, Config, Amount, Present
  <2>4. IsConfigured(b)'
    BY <2>1, <2>2, <2>3 DEF IsSound, IsConfigured
  <2>5. GrantCameFirst(b)'
    BY <1>1, <2>1, <2>2, <2>3 DEF IsSound, GrantCameFirst, Spending
  <2>6. b \in Present => Settles(b)'
    BY <2>1, <2>2, <2>3 DEF IsSound, Settles
  <2> QED BY <2>3, <2>4, <2>5, <2>6 DEF IsSound
<1> QED BY <1>3, <1>4, <1>5, <1>6

-----------------------------------------------------------------------------
(***************************************************************************)
(* The agents' own steps.                                                  *)
(***************************************************************************)
\* What an agent was made for does not change.
LEMMA ConfigStays ==
    ASSUME UNCHANGED experiment
    PROVE  /\ Present' = Present
           /\ \A a : Llm(a)' = Llm(a) /\ Permitted(a)' = Permitted(a)
BY DEF Llm, Permitted, Config, Amount, Present

\* Going on without asking for money.
LEMMA OneGoesOn ==
    ASSUME AgentsInv, NEW a \in Present, NEW place \in Places, Goto(a, place),
           UNCHANGED <<stores, experiment, hold, reserved, lossVars>>,
           place \in {"thinking", "dispatching", "stopped"} => Llm(a),
           place = "reserving" => experiment.reservations,
           place \in {"calling", "inserting", "answering", "issued"} /\ experiment.reservations
                => reserved[a],
           place = "inserting" => Permitted(a),
           ~Llm(a) /\ a \in ignored => place \in {"raised", "done"},
           ~Llm(a) /\ a \notin unheard =>
              /\ hold[a] = "HELD" /\ a \notin ignored =>
                    place \in {"abandoned", "calling", "inserting", "answering", "issued",
                               "freeing"}
              /\ hold[a] = "RELEASED" => place = "raised"
              /\ place = "freeing" => a \notin Spenders,
           Llm(a) /\ a \notin unheard /\ a \notin ignored /\ a \in Spenders
              /\ hold[a] = "HELD" =>
              place \in {"answering", "issued", "raised"}
    PROVE  AgentsInv'
<1> USE DEF AgentsInv
<1>1. UNCHANGED experiment /\ a \in Agents
  BY PresentAreConfigured DEF AgentsTypeOK
<1>2. MovesAlone(a) /\ SpendsNothing /\ TakesWhatIsGranted(a) /\ pc'[a] = place
  BY <1>1 DEF MovesAlone, SpendsNothing, TakesWhatIsGranted, Goto, lossVars, AgentsTypeOK, stores
<1>3. IsSound(a)'
  <2>1. /\ IsSound(a) /\ Spenders' = Spenders
        /\ Llm(a)' = Llm(a) /\ Permitted(a)' = Permitted(a) /\ Present' = Present
    BY <1>1, <1>2, SpendersMove, ConfigStays
  <2>2. UNCHANGED <<hold, reserved, late, unheard, ignored>>
    BY DEF lossVars
  <2>3. IsConfigured(a)'
    BY <1>2, <2>1, <2>2 DEF IsConfigured
  <2>4. GrantCameFirst(a)'
    BY <1>1, <1>2, <2>1, <2>2 DEF IsSound, GrantCameFirst, Spending
  <2>5. Settles(a)'
    BY <1>2, <2>1, <2>2 DEF IsSound, Settles
  <2> QED BY <2>1, <2>3, <2>4, <2>5 DEF IsSound
<1> QED BY <1>2, <1>3, OneMoves

LEMMA StartIsSound ==
    ASSUME AgentsInv, NEW a \in Present, Start(a)
    PROVE  AgentsInv'
<1>1. IsSound(a) /\ a \in Agents
  BY PresentAreConfigured DEF AgentsInv, AgentsTypeOK
<1> DEFINE place == IF Llm(a) THEN "thinking" ELSE "reading"
<1>2. /\ place \in Places /\ Goto(a, place)
      /\ UNCHANGED <<stores, experiment, hold, reserved, lossVars>>
      /\ place \in {"thinking", "reading"} /\ (place = "thinking" => Llm(a))
  BY DEF Start, Places
<1>3. /\ ~Llm(a) => a \notin ignored
      /\ ~Llm(a) /\ a \notin unheard => hold[a] # "HELD" /\ hold[a] # "RELEASED"
  BY <1>1 DEF IsSound, Settles, Start
<1>4. ~(Llm(a) /\ a \notin unheard /\ a \notin ignored /\ a \in Spenders /\ hold[a] = "HELD")
  BY <1>1 DEF IsSound, Settles, Start
<1> HIDE DEF place
<1> QED BY <1>2, <1>3, <1>4, OneGoesOn

\* What a sound diligent agent that has no effect yet may go on to: anywhere it needs no
\* hold for, if it has none.
LEMMA WithoutHold ==
    ASSUME AgentsInv, NEW a \in Present,
           pc[a] \in {"reading", "readingRest", "deciding", "reserving", "thinking"}
    PROVE  /\ ~Llm(a) => a \notin ignored
           /\ ~Llm(a) /\ a \notin unheard => hold[a] # "HELD" /\ hold[a] # "RELEASED"
           /\ ~(Llm(a) /\ a \notin unheard /\ a \notin ignored /\ a \in Spenders
                /\ hold[a] = "HELD")
<1>1. IsSound(a)
  BY PresentAreConfigured DEF AgentsInv, AgentsTypeOK
<1> QED BY <1>1 DEF IsSound, Settles

LEMMA ObservingIsSound ==
    ASSUME AgentsInv, NEW a \in Present, NEW amount,
           ObserveFirst(a) \/ ObserveRest(a) \/ ObserveCrm(a, amount)
    PROVE  AgentsInv'
<1>1. PICK place \in {"readingRest", "deciding"} :
        /\ Goto(a, place)
        /\ UNCHANGED <<stores, experiment, hold, reserved, lossVars>>
        /\ pc[a] \in {"reading", "readingRest"}
  BY DEF ObserveFirst, ObserveRest, ObserveCrm, Observe
<1>2. place \in Places
  BY <1>1 DEF Places
<1> QED BY <1>1, <1>2, WithoutHold, OneGoesOn

LEMMA DecideIsSound ==
    ASSUME AgentsInv, NEW a \in Present, Decide(a)
    PROVE  AgentsInv'
<1>1. PICK place \in {"declined", "reserving", "calling"} :
        /\ Goto(a, place)
        /\ UNCHANGED <<stores, experiment, hold, reserved, lossVars>>
        /\ place = "reserving" => experiment.reservations
        /\ place = "calling" => ~experiment.reservations
        /\ pc[a] = "deciding"
  BY DEF Decide
<1>2. place \in Places
  BY <1>1 DEF Places
<1> QED BY <1>1, <1>2, WithoutHold, OneGoesOn

LEMMA ThinkingIsSound ==
    ASSUME AgentsInv, NEW a \in Present, ModelReplies(a) \/ StopThinking(a)
    PROVE  AgentsInv'
<1>1. PICK place \in {"stopped", "dispatching"} :
        /\ Goto(a, place)
        /\ UNCHANGED <<stores, experiment, hold, reserved, lossVars>>
        /\ pc[a] = "thinking"
  BY DEF ModelReplies, StopThinking
<1>2. place \in Places /\ Llm(a)
  <2>1. IsSound(a)
    BY PresentAreConfigured DEF AgentsInv, AgentsTypeOK
  <2> QED BY <1>1, <2>1 DEF Places, IsSound, IsConfigured
<1> QED BY <1>1, <1>2, WithoutHold, OneGoesOn

\* The calls of a reply that ask for no money.
LEMMA DispatchingIsSound ==
    ASSUME AgentsInv, NEW a \in Present,
           CallRead(a) \/ CallIssue(a) \/ CallUnknown(a) \/ EndReply(a)
    PROVE  AgentsInv'
<1>1. IsSound(a) /\ a \in Agents /\ pc \in [Agents -> Places]
  BY PresentAreConfigured DEF AgentsInv, AgentsTypeOK
<1>2. PICK place \in {"dispatching", "calling", "raised", "done", "thinking"} :
        /\ Goto(a, place)
        /\ UNCHANGED <<stores, experiment, hold, reserved, lossVars>>
        /\ place = "calling" /\ experiment.reservations => reserved[a]
        /\ pc[a] = "dispatching"
  <2>1. CASE CallRead(a)
    <3>1. pc' = [pc EXCEPT ![a] = "dispatching"]
      BY <1>1, <2>1 DEF CallRead, Dispatching, NextCall
    <3> QED BY <2>1, <3>1 DEF CallRead, Dispatching, NextCall, Goto
  <2>2. CASE CallIssue(a)
    BY <2>2 DEF CallIssue, Dispatching, NextCall, NoBudgetReserved
  <2>3. CASE CallUnknown(a)
    BY <2>3 DEF CallUnknown, Dispatching, NextCall
  <2>4. CASE EndReply(a)
    BY <2>4 DEF EndReply
  <2> QED BY <2>1, <2>2, <2>3, <2>4
<1>3. place \in Places
  BY DEF Places
<1>4. /\ Llm(a)
      /\ ~(a \notin unheard /\ a \notin ignored /\ a \in Spenders /\ hold[a] = "HELD")
  BY <1>1, <1>2 DEF IsSound, IsConfigured, Settles
<1> QED BY <1>2, <1>3, <1>4, OneGoesOn

LEMMA AuthorizeIsSound ==
    ASSUME AgentsInv, NEW a \in Present, Authorize(a) \/ Acknowledge(a)
    PROVE  AgentsInv'
<1>1. IsSound(a) /\ a \in Agents
  BY PresentAreConfigured DEF AgentsInv, AgentsTypeOK
<1>2. ~Permitted(a) => a \notin Spenders
  BY SpendersHaveLanded DEF AgentsInv
<1>3. CASE Acknowledge(a)
  <2>1. /\ Goto(a, "issued") /\ UNCHANGED <<stores, experiment, hold, reserved, lossVars>>
        /\ pc[a] = "answering" /\ "issued" \in Places
    BY <1>3 DEF Acknowledge, Places
  <2> QED BY <1>1, <2>1, OneGoesOn DEF IsSound, GrantCameFirst, Spending, Settles
<1>4. CASE Authorize(a) /\ Permitted(a)
  <2>1. /\ Goto(a, "inserting") /\ UNCHANGED <<stores, experiment, hold, reserved, lossVars>>
        /\ pc[a] = "calling" /\ "inserting" \in Places
    BY <1>4 DEF Authorize, Places
  <2> QED BY <1>1, <1>4, <2>1, OneGoesOn DEF IsSound, GrantCameFirst, Spending, Settles
<1>5. CASE Authorize(a) /\ ~Permitted(a)
  <2>1. PICK place \in {"calling", "freeing", "raised"} :
          /\ Goto(a, place)
          /\ UNCHANGED <<stores, experiment, hold, reserved, lossVars>>
          /\ pc[a] = "calling"
          /\ Llm(a) => place = "raised"
          /\ ~Llm(a) /\ place = "raised" => ~reserved[a]
    BY <1>5 DEF Authorize, CreateRaises, AfterFailure
  <2>2. place \in Places
    BY DEF Places
  <2> QED BY <1>1, <1>2, <1>5, <2>1, <2>2, OneGoesOn
          DEF IsSound, GrantCameFirst, Spending, Settles
<1> QED BY <1>3, <1>4, <1>5

-----------------------------------------------------------------------------
(***************************************************************************)
(* The steps that reserve, spend, settle or fail.                          *)
(***************************************************************************)
\* The state of the agent that moves, taken apart.
LEMMA SoundAfter ==
    ASSUME AgentsInv, NEW a \in Present, MovesAlone(a), SpendsNothing \/ Spends(a),
           pc'[a] \in {"thinking", "dispatching", "stopped"} => Llm(a),
           ~experiment.reservations =>
              hold'[a] = "NONE" /\ ~reserved'[a] /\ pc'[a] # "reserving",
           reserved'[a] => hold'[a] # "NONE",
           experiment.reservations /\ pc'[a] \in {"calling", "inserting", "answering", "issued"}
              => reserved'[a],
           experiment.reservations /\ (a \in late' \/ a \in Spenders \/ Spends(a))
              => reserved'[a],
           pc'[a] = "inserting" \/ a \in late' => Permitted(a),
           ~Llm(a) /\ a \in ignored' => pc'[a] \in {"raised", "done"},
           ~Llm(a) /\ a \notin unheard' =>
              /\ hold'[a] = "HELD" /\ a \notin ignored' =>
                  /\ reserved'[a]
                  /\ pc'[a] \in {"abandoned", "calling", "inserting", "answering", "issued",
                                 "freeing"}
              /\ hold'[a] = "RELEASED" => pc'[a] = "raised"
              /\ hold'[a] = "RELEASED" \/ pc'[a] = "freeing" => a \notin Spenders /\ ~Spends(a),
           Llm(a) /\ a \notin unheard' /\ a \notin ignored' /\ hold'[a] = "HELD" =>
              (a \in Spenders \/ Spends(a) => pc'[a] \in {"answering", "issued", "raised"}),
           TakesWhatIsGranted(a)
    PROVE  AgentsInv'
<1>1. /\ UNCHANGED experiment
      /\ a \in Spenders' => a \in Spenders \/ Spends(a)
      /\ Llm(a)' = Llm(a) /\ Permitted(a)' = Permitted(a) /\ Present' = Present
  BY SpendersMove, ConfigStays DEF MovesAlone, AgentsInv
<1>2. IsConfigured(a)'
  BY <1>1 DEF IsConfigured
<1>3. GrantCameFirst(a)'
  BY <1>1 DEF GrantCameFirst, Spending
<1>4. Settles(a)'
  BY <1>1 DEF Settles
<1>5. IsSound(a)'
  BY <1>1, <1>2, <1>3, <1>4 DEF IsSound
<1> QED BY <1>5, OneMoves

LEMMA SpendingIsSeen ==
    ASSUME AgentsInv, NEW a \in Present, SpendsNothing
    PROVE  ~Spends(a)
<1> SUFFICES ASSUME NEW i, CreateEffect(Config(a).target, a, a, Case, i)
             PROVE  FALSE
  BY DEF Spends
<1> DEFINE s == Config(a).target
           row == [id |-> a, key |-> a, case |-> Case, state |-> "COMMITTED"]
<1>1. s \in Services /\ effects \in [Services -> SUBSET Rows]
  BY PresentAreConfigured DEF AgentsInv, AgentsTypeOK
<1>2. effects' = [effects EXCEPT ![s] = @ \cup {row}] /\ \A e \in effects[s] : e.id # a
  BY DEF CreateEffect
<1>3. row.id = a
  OBVIOUS
<1> HIDE DEF s, row
<1>4. row \in effects'[s] /\ effects' = effects
  BY <1>1, <1>2 DEF SpendsNothing
<1> QED BY <1>2, <1>3, <1>4

\* What a step may do to a hold.
LEMMA HoldsMove ==
    ASSUME AgentsInv, NEW a \in Present
    PROVE  /\ HoldTaken(a) = [hold EXCEPT ![a] = HoldTaken(a)[a]]
           /\ HoldReleased(a) = [hold EXCEPT ![a] = HoldReleased(a)[a]]
           /\ HoldCommitted(a) = [hold EXCEPT ![a] = HoldCommitted(a)[a]]
           /\ hold = [hold EXCEPT ![a] = hold[a]]
           /\ HoldTaken(a)[a] = IF hold[a] = "NONE" THEN "HELD" ELSE hold[a]
           /\ HoldReleased(a)[a] = IF hold[a] = "HELD" THEN "RELEASED" ELSE hold[a]
           /\ HoldCommitted(a)[a] = IF hold[a] = "RELEASED" THEN "RELEASED" ELSE "COMMITTED"
<1>1. a \in Agents /\ hold \in [Agents -> HoldStates]
  BY PresentAreConfigured DEF AgentsInv, AgentsTypeOK
<1> QED BY <1>1 DEF HoldTaken, HoldReleased, HoldCommitted

LEMMA ReserveIsSound ==
    ASSUME AgentsInv, NEW a \in Present, Reserve(a)
    PROVE  AgentsInv'
<1>1. IsSound(a) /\ a \in Agents /\ AgentsTypeOK
  BY PresentAreConfigured DEF AgentsInv, AgentsTypeOK
<1>2. CASE ~Grants(a)
  <2>1. /\ Goto(a, "refused") /\ UNCHANGED <<stores, experiment, hold, reserved, lossVars>>
        /\ pc[a] = "reserving" /\ "refused" \in Places
    BY <1>2 DEF Reserve, Places
  <2> QED BY <2>1, WithoutHold, OneGoesOn
<1>3. CASE Grants(a)
  <2>1. /\ hold' = HoldTaken(a) /\ reserved' = [reserved EXCEPT ![a] = TRUE]
        /\ pc' = [pc EXCEPT ![a] = IF Config(a).abandon THEN "abandoned" ELSE "calling"]
        /\ UNCHANGED <<effects, experiment, late, unheard, ignored>>
        /\ pc[a] = "reserving"
    BY <1>3 DEF Reserve, Goto, stores, lossVars
  <2>2. /\ pc'[a] \in {"abandoned", "calling"} /\ reserved'[a] = TRUE
        /\ hold'[a] = IF hold[a] = "NONE" THEN "HELD" ELSE hold[a]
        /\ experiment.reservations
    BY <1>1, <2>1, HoldsMove DEF AgentsTypeOK, IsSound, GrantCameFirst
  <2>3. MovesAlone(a) /\ SpendsNothing
    BY <1>1, <2>1, <2>2, HoldsMove
       DEF MovesAlone, SpendsNothing, AgentsTypeOK, Places, HoldStates
  <2>4. TakesWhatIsGranted(a)
    BY <1>3, <2>2 DEF TakesWhatIsGranted, Taking, Grants
  <2>5. ~Spends(a)
    BY <2>3, SpendingIsSeen
  <2> QED BY <1>1, <2>1, <2>2, <2>3, <2>4, <2>5, WithoutHold, SoundAfter
          DEF IsSound, IsConfigured, GrantCameFirst, Spending, Settles
<1> QED BY <1>2, <1>3

LEMMA InsertIsSound ==
    ASSUME AgentsInv, NEW a \in Present, Insert(a)
    PROVE  AgentsInv'
<1>1. IsSound(a) /\ a \in Agents /\ AgentsTypeOK /\ pc[a] = "inserting"
  BY PresentAreConfigured DEF AgentsInv, AgentsTypeOK, Insert
<1>2. CASE Landed(a)
  <2>1. /\ Goto(a, "issued") /\ UNCHANGED <<stores, experiment, hold, reserved, lossVars>>
        /\ "issued" \in Places
    BY <1>2 DEF Insert, Places
  <2> QED BY <1>1, <2>1, OneGoesOn DEF IsSound, GrantCameFirst, Spending, Settles
<1>3. CASE ~Landed(a)
  <2>1. /\ Spends(a)
        /\ pc' = [pc EXCEPT ![a] = "answering"]
        /\ UNCHANGED <<experiment, hold, reserved, late, unheard, ignored>>
    BY <1>1, <1>3 DEF Insert, Spends, Goto, lossVars, IsSound, GrantCameFirst
  <2>2. pc'[a] = "answering"
    BY <1>1, <2>1 DEF AgentsTypeOK
  <2>3. MovesAlone(a) /\ TakesWhatIsGranted(a)
    BY <1>1, <2>1, <2>2 DEF MovesAlone, TakesWhatIsGranted, AgentsTypeOK, Places
  <2> QED BY <1>1, <2>1, <2>2, <2>3, SoundAfter
          DEF IsSound, IsConfigured, GrantCameFirst, Spending, Settles
<1> QED BY <1>2, <1>3

\* An agent that does not hear how its request ended, or gives up waiting.
LEMMA CreateFailsIsSound ==
    ASSUME AgentsInv, NEW a \in Present, CreateFails(a) \/ ClientGivesUp(a)
    PROVE  AgentsInv' /\ a \in unheard'
<1>1. IsSound(a) /\ a \in Agents /\ AgentsTypeOK
  BY PresentAreConfigured DEF AgentsInv, AgentsTypeOK
<1>2. PICK place \in {"calling", "freeing", "raised"} :
        /\ pc' = [pc EXCEPT ![a] = place]
        /\ UNCHANGED <<effects, experiment, hold, reserved>>
        /\ unheard' = unheard \cup {a} /\ UNCHANGED ignored
        /\ late' = late \/ (late' = late \cup {a} /\ pc[a] = "inserting")
        /\ pc[a] \in {"calling", "inserting", "answering"}
        /\ place \in {"thinking", "dispatching", "stopped"} => Llm(a)
  BY DEF CreateFails, ClientGivesUp, CreateRaises, AfterFailure, Goto, stores
<1>3. pc'[a] = place /\ place \in Places
  BY <1>1, <1>2 DEF AgentsTypeOK, Places
<1>4. MovesAlone(a) /\ TakesWhatIsGranted(a) /\ SpendsNothing
  BY <1>1, <1>2, <1>3 DEF MovesAlone, TakesWhatIsGranted, AgentsTypeOK, SpendsNothing
<1>5. ~Spends(a) /\ a \in unheard'
  BY <1>2, <1>4, SpendingIsSeen
<1> QED BY <1>1, <1>2, <1>3, <1>4, <1>5, SoundAfter
        DEF IsSound, IsConfigured, GrantCameFirst, Spending, Settles

LEMMA LandLateIsSound ==
    ASSUME AgentsInv, NEW a \in Present, LandLate(a)
    PROVE  AgentsInv'
<1>1. IsSound(a) /\ a \in Agents /\ AgentsTypeOK /\ a \in late /\ a \in unheard
  BY PresentAreConfigured DEF AgentsInv, AgentsTypeOK, LandLate
<1>2. Spends(a) /\ UNCHANGED <<experiment, hold, pc, reserved, late, unheard, ignored>>
  BY <1>1 DEF LandLate, Spends, IsSound, GrantCameFirst, agentVars, lossVars
<1>3. MovesAlone(a) /\ TakesWhatIsGranted(a)
  BY <1>1, <1>2 DEF MovesAlone, TakesWhatIsGranted, AgentsTypeOK
<1> QED BY <1>1, <1>2, <1>3, SoundAfter
        DEF IsSound, IsConfigured, GrantCameFirst, Spending, Settles

LEMMA SettlingIsSound ==
    ASSUME AgentsInv, NEW a \in Present, Free(a) \/ Settle(a)
    PROVE  AgentsInv'
<1>1. IsSound(a) /\ a \in Agents /\ AgentsTypeOK
  BY PresentAreConfigured DEF AgentsInv, AgentsTypeOK
<1>2. SpendsNothing /\ UNCHANGED <<experiment, reserved, late, unheard, ignored>>
  BY DEF Free, Settle, AfterRelease, AfterCommit, SpendsNothing, stores, lossVars
<1>3. ~Spends(a)
  BY <1>2, SpendingIsSeen
<1>4. CASE Free(a)
  <2>1. /\ pc[a] = "freeing" /\ hold' = HoldReleased(a)
        /\ pc' = [pc EXCEPT ![a] = "raised"] /\ pc'[a] = "raised"
    BY <1>1, <1>4 DEF Free, AfterRelease, Goto, AgentsTypeOK
  <2>2. MovesAlone(a) /\ TakesWhatIsGranted(a)
    BY <1>1, <1>2, <2>1, HoldsMove
       DEF MovesAlone, TakesWhatIsGranted, Taking, AgentsTypeOK, Places, HoldStates
  <2> QED BY <1>1, <1>2, <1>3, <2>1, <2>2, HoldsMove, SoundAfter
          DEF IsSound, IsConfigured, GrantCameFirst, Spending, Settles
<1>5. CASE Settle(a)
  <2>1. PICK place \in {"dispatching", "done"} :
          /\ pc[a] = "issued" /\ hold' = IF reserved[a] THEN HoldCommitted(a) ELSE hold
          /\ pc' = [pc EXCEPT ![a] = place]
          /\ place = "dispatching" => Llm(a)
    BY <1>5 DEF Settle, AfterCommit, Goto
  <2>2. pc'[a] = place /\ place \in Places
    BY <1>1, <2>1 DEF AgentsTypeOK, Places
  <2>3. /\ reserved[a] => hold[a] # "NONE"
        /\ ~reserved[a] => hold[a] = "NONE"
    BY <1>1, <2>1 DEF IsSound, GrantCameFirst, Spending
  <2>4. hold'[a] = IF reserved[a] /\ hold[a] # "RELEASED" THEN "COMMITTED" ELSE hold[a]
    BY <2>1, HoldsMove
  <2>5. MovesAlone(a) /\ TakesWhatIsGranted(a)
    <3>1. hold' = [hold EXCEPT ![a] = hold'[a]]
      BY <2>1, HoldsMove
    <3>2. hold'[a] \in HoldStates
      BY <1>1, <2>4 DEF AgentsTypeOK, HoldStates
    <3>3. MovesAlone(a)
      BY <1>1, <1>2, <2>1, <2>2, <3>1, <3>2 DEF MovesAlone, AgentsTypeOK
    <3>4. hold[a] \in HoldStates
      BY <1>1 DEF AgentsTypeOK
    <3> QED BY <2>3, <2>4, <3>3, <3>4 DEF TakesWhatIsGranted, Taking, HoldStates
  <2> QED BY <1>1, <1>2, <1>3, <2>1, <2>2, <2>3, <2>4, <2>5, SoundAfter
          DEF IsSound, IsConfigured, GrantCameFirst, Spending, Settles
<1> QED BY <1>4, <1>5

LEMMA ModelReservesSoundly ==
    ASSUME AgentsInv, NEW a \in Present, CallReserve(a) \/ CallDecline(a)
    PROVE  AgentsInv'
<1>1. IsSound(a) /\ a \in Agents /\ AgentsTypeOK
  BY PresentAreConfigured DEF AgentsInv, AgentsTypeOK
<1>2. /\ SpendsNothing /\ UNCHANGED <<experiment, pc, late, unheard, ignored>>
      /\ pc[a] = "dispatching" /\ Llm(a)
  <2>1. /\ SpendsNothing /\ UNCHANGED <<experiment, pc, late, unheard, ignored>>
        /\ pc[a] = "dispatching"
    BY DEF CallReserve, CallDecline, AfterDecline, Dispatching, NextCall, SpendsNothing,
           stores, lossVars
  <2> QED BY <1>1, <2>1 DEF IsSound, IsConfigured
<1>3. ~Spends(a)
  BY <1>2, SpendingIsSeen
<1>4. /\ hold[a] \in HoldStates /\ reserved[a] \in BOOLEAN
      /\ pc' = [pc EXCEPT ![a] = pc'[a]] /\ pc'[a] = "dispatching" /\ pc'[a] \in Places
  BY <1>1, <1>2 DEF AgentsTypeOK, Places
<1>5. ASSUME UNCHANGED <<hold, reserved>>
      PROVE  AgentsInv'
  <2>1. MovesAlone(a) /\ TakesWhatIsGranted(a)
    BY <1>1, <1>2, <1>4, <1>5 DEF MovesAlone, TakesWhatIsGranted, AgentsTypeOK
  <2> QED BY <1>1, <1>2, <1>3, <1>4, <1>5, <2>1, SoundAfter
          DEF IsSound, GrantCameFirst, Spending, Settles
<1>6. CASE CallReserve(a) /\ Grants(a)
  <2>1. /\ hold' = HoldTaken(a) /\ experiment.reservations
        /\ reserved' = [reserved EXCEPT ![a] = @ \/ ~refused[a]]
    BY <1>6 DEF CallReserve
  <2>2. /\ reserved'[a] \in BOOLEAN
        /\ reserved[a] => reserved'[a]
        /\ reserved' = [reserved EXCEPT ![a] = reserved'[a]]
    BY <1>1, <2>1 DEF AgentsTypeOK
  <2>3. /\ hold' = [hold EXCEPT ![a] = hold'[a]]
        /\ hold'[a] = IF hold[a] = "NONE" THEN "HELD" ELSE hold[a]
        /\ hold'[a] \in HoldStates
    BY <1>4, <2>1, HoldsMove DEF HoldStates
  <2>4. MovesAlone(a)
    BY <1>1, <1>2, <1>4, <2>2, <2>3 DEF MovesAlone, AgentsTypeOK
  <2>5. TakesWhatIsGranted(a)
    BY <1>6, <2>3 DEF TakesWhatIsGranted, Taking, Grants
  <2> QED BY <1>1, <1>2, <1>3, <1>4, <2>1, <2>2, <2>3, <2>4, <2>5, SoundAfter
          DEF IsSound, GrantCameFirst, Spending, Settles
<1>7. CASE CallReserve(a) /\ ~Grants(a)
  BY <1>5, <1>7 DEF CallReserve
<1>8. CASE CallDecline(a) /\ reserved[a]
  <2>1. hold' = HoldReleased(a) /\ UNCHANGED reserved
    BY <1>8 DEF CallDecline, AfterDecline
  <2>2. /\ hold' = [hold EXCEPT ![a] = hold'[a]]
        /\ hold'[a] = IF hold[a] = "HELD" THEN "RELEASED" ELSE hold[a]
        /\ hold'[a] \in HoldStates
    BY <1>4, <2>1, HoldsMove DEF HoldStates
  <2>3. MovesAlone(a) /\ TakesWhatIsGranted(a)
    BY <1>1, <1>2, <1>4, <2>1, <2>2
       DEF MovesAlone, TakesWhatIsGranted, Taking, AgentsTypeOK
  <2> QED BY <1>1, <1>2, <1>3, <1>4, <2>1, <2>2, <2>3, SoundAfter
          DEF IsSound, GrantCameFirst, Spending, Settles
<1>9. CASE CallDecline(a) /\ ~reserved[a]
  BY <1>5, <1>9 DEF CallDecline, AfterDecline
<1> QED BY <1>6, <1>7, <1>8, <1>9

LEMMA RequestFailsIsSound ==
    ASSUME AgentsInv, NEW a \in Present, RequestFails(a)
    PROVE  AgentsInv' /\ a \in unheard'
<1>1. IsSound(a) /\ a \in Agents /\ AgentsTypeOK
  BY PresentAreConfigured DEF AgentsInv, AgentsTypeOK
<1>2. /\ SpendsNothing /\ UNCHANGED <<experiment, reserved, late, ignored>>
      /\ unheard' = unheard \cup {a}
      /\ pc' = [pc EXCEPT ![a] = "raised"]
  BY DEF RequestFails, SpendsNothing, stores, Goto
<1>3. ~Spends(a)
  BY <1>2, SpendingIsSeen
<1>4. pc'[a] = "raised" /\ "raised" \in Places /\ hold[a] \in HoldStates
  BY <1>1, <1>2 DEF AgentsTypeOK, Places
<1>5. /\ hold' = [hold EXCEPT ![a] = hold'[a]]
      /\ \/ hold'[a] = hold[a]
         \/ hold'[a] = "HELD" /\ hold[a] = "NONE" /\ Grants(a) /\ experiment.reservations
         \/ hold'[a] = "RELEASED" /\ hold[a] = "HELD"
         \/ hold'[a] = "COMMITTED" /\ hold[a] \notin {"NONE", "RELEASED"}
  <2>1. CASE UNCHANGED hold
    BY <2>1, HoldsMove
  <2>2. CASE AsksToReserve(a) /\ Grants(a) /\ hold' = HoldTaken(a)
    <3>1. experiment.reservations
      BY <1>1, <2>2 DEF AsksToReserve, IsSound, GrantCameFirst
    <3> QED BY <2>2, <3>1, HoldsMove
  <2>3. CASE hold' = HoldReleased(a)
    BY <2>3, HoldsMove
  <2>4. CASE AsksToCommit(a) /\ hold' = HoldCommitted(a)
    <3>1. hold[a] # "NONE"
      BY <1>1, <2>4 DEF AsksToCommit, IsSound, GrantCameFirst
    <3> QED BY <2>4, <3>1, HoldsMove
  <2> QED BY <2>1, <2>2, <2>3, <2>4 DEF RequestFails
<1>6. hold'[a] \in HoldStates
  BY <1>4, <1>5 DEF HoldStates
<1>7. MovesAlone(a)
  BY <1>1, <1>2, <1>4, <1>5, <1>6 DEF MovesAlone, AgentsTypeOK
<1>8. TakesWhatIsGranted(a)
  BY <1>4, <1>5 DEF TakesWhatIsGranted, Taking, Grants, HoldStates
<1>9. a \in unheard'
  BY <1>2
<1> QED BY <1>1, <1>2, <1>3, <1>4, <1>5, <1>7, <1>8, <1>9, SoundAfter
        DEF IsSound, GrantCameFirst, Spending

LEMMA ErrorIgnoredIsSound ==
    ASSUME AgentsInv, NEW a \in Present, ErrorIgnored(a)
    PROVE  AgentsInv'
<1>1. IsSound(a) /\ a \in Agents /\ AgentsTypeOK
  BY PresentAreConfigured DEF AgentsInv, AgentsTypeOK
<1>2. /\ SpendsNothing /\ UNCHANGED <<experiment, hold, reserved, late, unheard>>
      /\ ignored' = ignored \cup {a}
  BY DEF ErrorIgnored, AfterRelease, AfterCommit, AfterDecline, SpendsNothing, stores
<1>3. ~Spends(a)
  BY <1>2, SpendingIsSeen
<1>4. PICK place \in {"raised", "dispatching", "done"} :
        /\ pc' = [pc EXCEPT ![a] = place]
        /\ place = "raised" => pc[a] = "freeing"
        /\ place = "dispatching" => Llm(a) /\ pc[a] \in {"issued", "dispatching"}
        /\ place = "done" => pc[a] = "issued"
  <2>1. CASE AfterRelease(a)
    BY <2>1 DEF AfterRelease, Goto
  <2>2. CASE AfterCommit(a)
    BY <2>2 DEF AfterCommit, Goto
  <2>3. CASE AfterDecline(a)
    <3>1. pc[a] = "dispatching" /\ Llm(a) /\ pc' = pc
      BY <1>1, <2>3 DEF AfterDecline, Dispatching, NextCall, IsSound, IsConfigured
    <3> QED BY <1>1, <3>1 DEF AgentsTypeOK
  <2> QED BY <2>1, <2>2, <2>3 DEF ErrorIgnored
<1>5. pc'[a] = place /\ place \in Places /\ hold[a] \in HoldStates
  BY <1>1, <1>4 DEF AgentsTypeOK, Places
<1>6. MovesAlone(a) /\ TakesWhatIsGranted(a)
  BY <1>1, <1>2, <1>4, <1>5 DEF MovesAlone, TakesWhatIsGranted, AgentsTypeOK
<1>7. ~Llm(a) => place \in {"raised", "done"}
  BY <1>4
<1> QED BY <1>1, <1>2, <1>3, <1>4, <1>5, <1>6, <1>7, SoundAfter
        DEF IsSound, IsConfigured, GrantCameFirst, Spending, Settles

\* Whatever an agent does, and whatever befalls it.
LEMMA AgentStepIsSound ==
    ASSUME AgentsInv, NEW a \in Present, NEW amount, AgentStep(a) \/ ObserveCrm(a, amount)
    PROVE  AgentsInv'
BY ObservingIsSound, DecideIsSound, ReserveIsSound, AuthorizeIsSound, InsertIsSound,
   SettlingIsSound, ThinkingIsSound, DispatchingIsSound, ModelReservesSoundly
   DEF AgentStep, DiligentStep, ModelStep, Create

LEMMA FailureIsSound ==
    ASSUME AgentsInv, NEW a \in Present, Failure(a)
    PROVE  AgentsInv'
BY CreateFailsIsSound, RequestFailsIsSound, ErrorIgnoredIsSound DEF Failure

\* The services' data are read, and the agents wait.
LEMMA AgentsStay ==
    ASSUME AgentsInv, UNCHANGED <<agentSide, effects>>
    PROVE  AgentsInv'
<1>1. UNCHANGED <<experiment, hold, pc, reserved, late, unheard, ignored, effects>>
  BY DEF agentSide, agentVars, lossVars
<1>2. /\ effects' \in [Services -> SUBSET Rows] /\ EffectsAreOwn' /\ Spenders' = Spenders
      /\ Present' = Present
      /\ \A a : Llm(a)' = Llm(a) /\ Permitted(a)' = Permitted(a)
  BY <1>1, SpendersStay, ConfigStays DEF AgentsInv
<1>3. AgentsTypeOK'
  BY <1>1, <1>2 DEF AgentsInv, AgentsTypeOK
<1>4. BudgetIsKept'
  BY <1>1 DEF AgentsInv, BudgetIsKept, HeldBudget, SumOf, Present, Amount, Config
<1>5. \A a \in Agents : IsSound(a)'
  BY <1>1, <1>2 DEF AgentsInv, IsSound, IsConfigured, GrantCameFirst, Spending, Settles
<1> QED BY <1>2, <1>3, <1>4, <1>5 DEF AgentsInv

-----------------------------------------------------------------------------
(***************************************************************************)
(* A run: who moves, and what that leaves alone.                           *)
(***************************************************************************)
\* The CRM reads effects through the outboxes, and changes none.
LEMMA CrmSpendsNothing ==
    ASSUME NEW p, CRM!Proceed(p) \/ CRM!Fail(p) \/ (\E c, order : CRM!Start(p, c, order))
    PROVE  UNCHANGED effects
BY DEF CRM!Proceed, CRM!Fail, CRM!Start, CRM!Poll, CRM!CheckApplied, CRM!InsertApplied,
       CRM!InsertFails, CRM!Fold, CRM!Mark, CRM!NextService, CRM!Finish, CRM!End,
       CRM!MarkApplied, CRM!effectVars

\* Whoever is at work is one of the schedule's actors.
LEMMA WorkersAreConfigured ==
    ASSUME RunTypeOK, PoolIsInOrder, NEW a \in Agents,
           a \in running \/ (inbox # <<>> /\ a = Head(inbox))
    PROVE  a \in Present
<1> DEFINE n == Taken
           actors == schedule.actors
<1>1. /\ actors \in Seq(Actors) /\ n \in Nat /\ Len(inbox) \in Nat
      /\ \A i \in DOMAIN actors : actors[i] \in Agents => actors[i] \in DOMAIN experiment.config
  BY ScheduleAssumption, FS_CardinalityType DEF RunTypeOK, PoolIsInOrder, Taken
<1>2. n + Len(inbox) <= Len(actors)
  BY DEF PoolIsInOrder
<1>3. \E i \in DOMAIN actors : a = actors[i]
  <2>1. CASE a \in running
    <3>1. PICK i \in 1..n : a = actors[i]
      BY <2>1 DEF PoolIsInOrder
    <3> QED BY <1>1, <1>2, <3>1
  <2>2. CASE inbox # <<>> /\ a = Head(inbox)
    <3>1. inbox \in Seq(Actors) /\ inbox = [i \in 1..Len(inbox) |-> actors[n + i]]
      BY DEF PoolIsInOrder, RunTypeOK
    <3>2. Len(inbox) > 0 /\ a = inbox[1]
      BY <2>2, <3>1
    <3> HIDE DEF n, actors
    <3>3. a = actors[n + 1] /\ n + 1 \in DOMAIN actors
      BY <1>1, <1>2, <3>1, <3>2
    <3> QED BY <3>3
  <2> QED BY <2>1, <2>2
<1> QED BY <1>1, <1>3 DEF Present

\* An agent that is turned away from its checkpoint gives up there, with nothing in hand.
LEMMA TurnedAwayIsSound ==
    ASSUME AgentsInv, AsksAtCheckpoint, NEW a \in Present,
           TurnedAway(a), ~AtService(a), Goto(a, "raised"),
           UNCHANGED <<stores, experiment, hold, observed, tried, reserved, modelVars, lossVars>>
    PROVE  AgentsInv'
<1>1. a \in Agents /\ "raised" \in Places
  BY PresentAreConfigured DEF AgentsInv, AgentsTypeOK, Places
<1>2. a \in unheard \/ pc[a] \in {"reading", "deciding", "reserving"}
  BY <1>1 DEF AsksAtCheckpoint, TurnedAway, AtService
<1> QED BY <1>1, <1>2, WithoutHold, OneGoesOn

LEMMA RunAgentIsSound ==
    ASSUME AgentsInv, AsksAtCheckpoint, NEW a \in Present, RunAgent(a)
    PROVE  AgentsInv'
<1>1. CASE AgentStep(a) \/ ObserveCrm(a, Projected)
  BY <1>1, AgentStepIsSound
<1>2. CASE CreateFails(a)
  BY <1>2, CreateFailsIsSound
<1>3. CASE /\ TurnedAway(a) /\ ~AtService(a) /\ Goto(a, "raised")
           /\ UNCHANGED <<stores, experiment, hold, observed, tried, reserved, modelVars,
                          lossVars>>
  BY <1>3, TurnedAwayIsSound
<1> QED BY <1>1, <1>2, <1>3 DEF RunAgent

LEMMA ActorStepIsSound ==
    ASSUME AgentsInv, RunTypeOK, AsksAtCheckpoint, PoolIsInOrder, NEW x, ActorStep(x)
    PROVE  AgentsInv'
<1>1. CASE x \in Agents /\ RunAgent(x)
  <2>1. x \in Agents /\ x \in running
    BY <1>1 DEF ActorStep
  <2>2. x \in Present
    BY <2>1, WorkersAreConfigured
  <2> QED BY <1>1, <2>2, RunAgentIsSound
<1>2. CASE x \in Projectors /\ RunProjector(x) /\ UNCHANGED <<agentSide, redelivering>>
  BY <1>2, CrmSpendsNothing, AgentsStay DEF RunProjector
<1>3. CASE x \in Redeliverers /\ RunRedeliver(x) /\ UNCHANGED <<agentSide, crmSide>>
  BY <1>3, AgentsStay DEF RunRedeliver, CRM!Redeliver
<1> QED BY <1>1, <1>2, <1>3 DEF ActorStep

LEMMA SuffersIsSound ==
    ASSUME AgentsInv, RunTypeOK, PoolIsInOrder, NEW x, ActorSuffers(x)
    PROVE  AgentsInv'
<1>1. CASE x \in running /\ Failure(x)
  <2>1. x \in Agents /\ x \in running
    BY <1>1 DEF ActorSuffers
  <2>2. x \in Present
    BY <2>1, WorkersAreConfigured
  <2> QED BY <1>1, <2>2, FailureIsSound
<1>2. CASE LandLate(x)
  <2>1. x \in Agents /\ x \in late
    BY <1>2 DEF ActorSuffers, LandLate
  <2>2. x \in Present
    BY <2>1 DEF AgentsInv, IsSound, IsConfigured
  <2> QED BY <1>2, <2>2, LandLateIsSound
<1> QED BY <1>1, <1>2 DEF ActorSuffers

LEMMA TakeIsSound ==
    ASSUME AgentsInv, RunTypeOK, PoolIsInOrder, NEW x, Take(x)
    PROVE  AgentsInv'
<1>1. CASE x \in Agents /\ Start(x)
  BY <1>1, WorkersAreConfigured, StartIsSound DEF Take
<1>2. CASE x \in Projectors /\ CRM!Start(x, Case, schedule.order)
             /\ UNCHANGED <<agentSide, redelivering>>
  BY <1>2, CrmSpendsNothing, AgentsStay
<1>3. CASE x \in Redeliverers /\ UNCHANGED <<vars, crmSide>>
  BY <1>3, AgentsStay DEF vars, stores, agentSide
<1> QED BY <1>1, <1>2, <1>3 DEF Take

LEMMA DeathIsSound ==
    ASSUME AgentsInv, NEW x, WorkerDies(x)
    PROVE  AgentsInv'
<1>1. CASE CRM!Fail(x) /\ UNCHANGED <<agentSide, redelivering>>
  BY <1>1, CrmSpendsNothing, AgentsStay
<1>2. CASE UNCHANGED actorVars
  BY <1>2, AgentsStay DEF actorVars, vars, stores, agentSide
<1> QED BY <1>1, <1>2 DEF WorkerDies

\* Nothing else touches agents or effects.
LEMMA OthersAreSound ==
    ASSUME AgentsInv, NEW x,
           \/ RunnerStep \/ BarrierStep(x) \/ Timeout(x) \/ Report(x) \/ UNCHANGED runVars
    PROVE  AgentsInv'
<1>1. UNCHANGED actorVars
  BY DEF RunnerStep, Dispatch, Submit, Collect, Read, BarrierStep, Timeout, Report, runVars
<1> QED BY <1>1, AgentsStay DEF actorVars, vars, stores, agentSide

-----------------------------------------------------------------------------
(***************************************************************************)
(* Checkpoints, and the types of what the runner keeps.                    *)
(***************************************************************************)
\* Of an agent that moves, the others see nothing.
OthersWait(a) ==
    /\ UNCHANGED experiment
    /\ UNCHANGED pc \/ \E place : Goto(a, place)
    /\ unheard \subseteq unheard'

LEMMA AgentMovesAlone ==
    ASSUME NEW a, RunAgent(a) \/ Failure(a) \/ LandLate(a) \/ Start(a)
    PROVE  OthersWait(a)
<1> USE DEF OthersWait, lossVars, stores
<1>1. CASE \E amount : ObserveFirst(a) \/ ObserveRest(a) \/ ObserveCrm(a, amount) \/ Start(a)
  BY <1>1 DEF ObserveFirst, ObserveRest, ObserveCrm, Observe, Start
<1>2. CASE Decide(a) \/ Reserve(a)
  <2>1. CASE Decide(a)
    BY <2>1 DEF Decide
  <2>2. CASE Reserve(a)
    BY <2>2 DEF Reserve
  <2> QED BY <1>2, <2>1, <2>2
<1>3. CASE Create(a) \/ CreateFails(a) \/ ClientGivesUp(a)
  <2>1. CreateRaises(a) => UNCHANGED experiment /\ \E place : Goto(a, place)
    BY DEF CreateRaises
  <2>2. Authorize(a) => OthersWait(a)
    BY <2>1 DEF Authorize
  <2>3. Insert(a) \/ Acknowledge(a) => OthersWait(a)
    BY DEF Insert, Acknowledge
  <2>4. CreateFails(a) \/ ClientGivesUp(a) => OthersWait(a)
    BY <2>1 DEF CreateFails, ClientGivesUp
  <2> QED BY <1>3, <2>2, <2>3, <2>4 DEF Create
<1>4. CASE Free(a) \/ Settle(a) \/ RequestFails(a) \/ ErrorIgnored(a)
  BY <1>4 DEF Free, Settle, RequestFails, ErrorIgnored, AfterRelease, AfterCommit, AfterDecline
<1>5. CASE ModelStep(a)
  BY <1>5 DEF ModelStep, ModelReplies, StopThinking, EndReply, CallRead, CallReserve,
              CallIssue, CallDecline, AfterDecline, CallUnknown
<1>6. CASE LandLate(a)
  BY <1>6 DEF LandLate, agentVars
<1>7. CASE /\ Goto(a, "raised")
           /\ UNCHANGED <<stores, experiment, hold, observed, tried, reserved, modelVars,
                          lossVars>>
  BY <1>7
<1>8. AgentStep(a) => ObserveFirst(a) \/ ObserveRest(a) \/ Decide(a) \/ Reserve(a) \/ Create(a)
                        \/ Free(a) \/ Settle(a) \/ ModelStep(a)
  BY DEF AgentStep, DiligentStep
<1> QED BY <1>1, <1>2, <1>3, <1>4, <1>5, <1>6, <1>7, <1>8 DEF RunAgent, Failure

\* Agents are where they were, or one of them is not.
LEMMA WhoMoves ==
    ASSUME Next \/ UNCHANGED runVars
    PROVE  \/ UNCHANGED <<experiment, pc, unheard>>
           \/ \E x \in Agents : ActorStep(x) /\ RunAgent(x) /\ OthersWait(x)
           \/ \E x \in Agents : ActorSuffers(x) /\ Failure(x) /\ OthersWait(x)
           \/ \E x \in Agents : Take(x) /\ Start(x) /\ OthersWait(x)
<1> DEFINE still == UNCHANGED <<experiment, pc, unheard>>
<1>1. UNCHANGED agentSide \/ UNCHANGED vars \/ UNCHANGED actorVars => still
  BY DEF agentSide, vars, actorVars, agentVars, lossVars
<1>2. UNCHANGED runVars \/ RunnerStep => still
  BY <1>1 DEF runVars, RunnerStep, Dispatch, Submit, Collect, Read
<1>3. ASSUME NEW x, BarrierStep(x) \/ Timeout(x) \/ Report(x) \/ WorkerDies(x)
      PROVE  still
  BY <1>1, <1>3 DEF BarrierStep, Timeout, Report, WorkerDies
<1>4. ASSUME NEW x, ActorStep(x)
      PROVE  still \/ (x \in Agents /\ RunAgent(x) /\ OthersWait(x))
  BY <1>1, <1>4, AgentMovesAlone DEF ActorStep
<1>5. ASSUME NEW x, ActorSuffers(x)
      PROVE  still \/ (x \in Agents /\ Failure(x) /\ OthersWait(x))
  <2>1. CASE LandLate(x)
    BY <2>1 DEF LandLate, agentVars, lossVars
  <2>2. CASE Failure(x)
    BY <1>5, <2>2, AgentMovesAlone DEF ActorSuffers
  <2> QED BY <1>5, <2>1, <2>2 DEF ActorSuffers
<1>6. ASSUME NEW x, Take(x)
      PROVE  still \/ (x \in Agents /\ Start(x) /\ OthersWait(x))
  BY <1>1, <1>6, AgentMovesAlone DEF Take
<1> HIDE DEF still
<1>7. CASE \E x \in Actors : ActorStep(x) \/ ActorSuffers(x) \/ Take(x)
  BY <1>4, <1>5, <1>6, <1>7 DEF still
<1>8. CASE still
  BY <1>8 DEF still
<1> QED BY <1>2, <1>3, <1>7, <1>8 DEF Next, Progress

LEMMA GatesMove ==
    ASSUME RunTypeOK, NEW x \in Actors, BarrierStep(x) \/ Timeout(x)
    PROVE  /\ gate' \in [Actors -> {"closed", "parked", "released", "open", "aborting",
                                    "refused", "dropped"}]
           /\ \A y \in Actors \ {x} : gate'[y] = gate[y]
           /\ gate[x] = "closed" /\ gate'[x] # "closed" => Checkpoint(x) # NoCheckpoint
<1>1. \/ UNCHANGED gate
      \/ \E answer \in {"parked", "released", "open", "aborting", "refused", "dropped"} :
            Answered(x, answer)
  BY DEF BarrierStep, Timeout, Arrive, Cascade, Resume, Refuse, Abort
<1>2. gate[x] = "closed" => UNCHANGED gate \/ Checkpoint(x) # NoCheckpoint
  BY DEF BarrierStep, Timeout, Arrive, Cascade, Resume, Refuse, Abort
<1>3. gate \in [Actors -> {"closed", "parked", "released", "open", "aborting", "refused",
                           "dropped"}]
  BY DEF RunTypeOK
<1> QED BY <1>1, <1>2, <1>3 DEF Answered

LEMMA CheckpointsAreKnown ==
    ASSUME NEW a \in Agents, Checkpoint(a) # NoCheckpoint
    PROVE  pc[a] \in {"reading", "deciding", "reserving", "inserting", "answering"}
BY DEF Checkpoint, AgentCheckpoint

LEMMA GatesElsewhere ==
    ASSUME RunTypeOK, Next \/ UNCHANGED runVars
    PROVE  \/ \E x \in Actors : BarrierStep(x) \/ Timeout(x)
           \/ \E x \in Actors : ActorStep(x) /\ gate' = [gate EXCEPT ![x] = "closed"]
           \/ UNCHANGED gate
<1>1. \A x : ActorStep(x) => gate' = [gate EXCEPT ![x] = "closed"]
  BY DEF ActorStep, Answered
<1>2. \A x : Take(x) \/ Report(x) \/ ActorSuffers(x) \/ WorkerDies(x) => UNCHANGED gate
  BY DEF Take, Report, ActorSuffers, WorkerDies
<1>3. RunnerStep \/ UNCHANGED runVars => UNCHANGED gate
  BY DEF RunnerStep, Dispatch, Submit, Collect, Read, runVars
<1> QED BY <1>1, <1>2, <1>3 DEF Next, Progress

LEMMA AgentsAskAtCheckpoints ==
    ASSUME AgentsInv, RunTypeOK, AsksAtCheckpoint, Next \/ UNCHANGED runVars
    PROVE  AsksAtCheckpoint'
<1> DEFINE asking == {"reading", "deciding", "reserving", "inserting", "answering"}
<1>1. /\ pc \in [Agents -> Places] /\ Agents \subseteq Actors
      /\ gate \in [Actors -> {"closed", "parked", "released", "open", "aborting",
                              "refused", "dropped"}]
  BY DEF AgentsInv, AgentsTypeOK, RunTypeOK, Actors
<1>2. CASE UNCHANGED <<experiment, pc, unheard>>
  <2>1. CASE UNCHANGED gate
    BY <1>2, <2>1 DEF AsksAtCheckpoint
  <2>2. ASSUME NEW x \in Actors, BarrierStep(x) \/ Timeout(x)
        PROVE  AsksAtCheckpoint'
    <3> SUFFICES ASSUME NEW a \in Agents, gate'[a] # "closed", a \notin unheard
                 PROVE  pc[a] \in asking
      BY <1>2 DEF AsksAtCheckpoint
    <3>1. CASE gate[a] # "closed"
      BY <3>1 DEF AsksAtCheckpoint
    <3>2. CASE gate[a] = "closed"
      <4>1. a = x
        BY <1>1, <2>2, <3>2, GatesMove
      <4>2. Checkpoint(a) # NoCheckpoint
        BY <2>2, <3>2, <4>1, GatesMove
      <4> QED BY <4>2, CheckpointsAreKnown
    <3> QED BY <3>1, <3>2
  <2>3. CASE \E x \in Actors : gate' = [gate EXCEPT ![x] = "closed"]
    BY <1>1, <1>2, <2>3 DEF AsksAtCheckpoint
  <2> QED BY <2>1, <2>2, <2>3, GatesElsewhere
<1>3. ASSUME NEW x \in Agents, ActorStep(x), OthersWait(x)
      PROVE  AsksAtCheckpoint'
  <2>1. gate' = [gate EXCEPT ![x] = "closed"]
    BY <1>3 DEF ActorStep, Answered
  <2>2. \A a \in Agents \ {x} : pc'[a] = pc[a] /\ gate'[a] = gate[a]
    BY <1>1, <1>3, <2>1 DEF OthersWait, Goto
  <2>3. gate'[x] = "closed"
    BY <1>1, <2>1
  <2> QED BY <1>3, <2>2, <2>3 DEF AsksAtCheckpoint, OthersWait
<1>4. ASSUME NEW x \in Agents, ActorSuffers(x), Failure(x), OthersWait(x)
      PROVE  AsksAtCheckpoint'
  <2>1. UNCHANGED gate /\ (x \in unheard' \/ pc[x] \notin asking)
    BY <1>4 DEF ActorSuffers, Failure, CreateFails, ClientGivesUp, RequestFails, ErrorIgnored,
       AfterRelease, AfterCommit, AfterDecline, Dispatching, NextCall
  <2>2. \A a \in Agents \ {x} : pc'[a] = pc[a]
    BY <1>1, <1>4 DEF OthersWait, Goto
  <2> QED BY <1>4, <2>1, <2>2 DEF AsksAtCheckpoint, OthersWait
<1>5. ASSUME NEW x \in Agents, Take(x), Start(x), OthersWait(x)
      PROVE  AsksAtCheckpoint'
  <2>1. UNCHANGED gate /\ pc[x] = "idle"
    BY <1>5 DEF Take, Start
  <2>2. \A a \in Agents \ {x} : pc'[a] = pc[a]
    BY <1>1, <1>5 DEF OthersWait, Goto
  <2> QED BY <1>5, <2>1, <2>2 DEF AsksAtCheckpoint, OthersWait
<1> QED BY <1>2, <1>3, <1>4, <1>5, WhoMoves

LEMMA ScheduleStays ==
    ASSUME Next \/ UNCHANGED runVars
    PROVE  UNCHANGED schedule
<1>1. \A x : ActorStep(x) \/ Take(x) \/ Report(x) \/ ActorSuffers(x) \/ WorkerDies(x)
                \/ BarrierStep(x) \/ Timeout(x) => UNCHANGED schedule
  BY DEF ActorStep, Take, Report, ActorSuffers, WorkerDies, BarrierStep, Timeout
<1>2. RunnerStep \/ UNCHANGED runVars => UNCHANGED schedule
  BY DEF RunnerStep, Dispatch, Submit, Collect, Read, runVars
<1> QED BY <1>1, <1>2 DEF Next, Progress

\* What the oracle reads is a number.
LEMMA ReadsAreNumbers ==
    ASSUME AgentsInv, NEW s \in Services
    PROVE  TotalCommitted(s) \in Nat
<1>1. Committed(s) \subseteq Present /\ experiment \in Experiments
  BY SpendersHaveLanded DEF AgentsInv, AgentsTypeOK
<1> QED BY <1>1, SumIsNatural DEF TotalCommitted

LEMMA OrderIsOfServices == ServiceOrder \in Seq(Services) /\ Len(ServiceOrder) = 2
<1> DEFINE one == ServiceOrder[1]
           two == ServiceOrder[2]
<1>1. one \in Services /\ two \in Services /\ ServiceOrder = <<one, two>>
  BY ExperimentAssumption
<1> HIDE DEF one, two
<1>2. <<one, two>> \in Seq(Services) /\ Len(<<one, two>>) = 2
  BY <1>1
<1> QED BY <1>1, <1>2

LEMMA PlansAreServices ==
    ASSUME RunTypeOK
    PROVE  /\ ReadPlan \in Seq(Services)
           /\ Len(ReadPlan) = IF schedule.ordered THEN 6 ELSE 2
           /\ \A i \in 1..Len(ReadPlan) :
                ReadPlan[i] = IF i \in {1, 3, 5} THEN ServiceOrder[1] ELSE ServiceOrder[2]
<1> DEFINE one == ServiceOrder[1]
           two == ServiceOrder[2]
           twice == ServiceOrder \o ServiceOrder
           thrice == twice \o ServiceOrder
<1>1. ServiceOrder \in Seq(Services) /\ Len(ServiceOrder) = 2
  BY OrderIsOfServices
<1>2. ASSUME NEW p \in Seq(Services)
      PROVE  /\ p \o ServiceOrder \in Seq(Services)
             /\ Len(p \o ServiceOrder) = Len(p) + 2
             /\ \A i \in 1..Len(p) : (p \o ServiceOrder)[i] = p[i]
             /\ (p \o ServiceOrder)[Len(p) + 1] = one
             /\ (p \o ServiceOrder)[Len(p) + 2] = two
  <2>1. /\ p \o ServiceOrder \in Seq(Services)
        /\ Len(p \o ServiceOrder) = Len(p) + Len(ServiceOrder)
        /\ \A i \in 1..Len(p) + Len(ServiceOrder) :
             (p \o ServiceOrder)[i] = IF i <= Len(p) THEN p[i] ELSE ServiceOrder[i - Len(p)]
    BY <1>1, ConcatProperties
  <2>2. Len(p) \in Nat /\ Len(p) + 1 - Len(p) = 1 /\ Len(p) + 2 - Len(p) = 2
    OBVIOUS
  <2>3. Len(p) + 1 \in 1..Len(p) + 2 /\ Len(p) + 2 \in 1..Len(p) + 2
    BY <2>2
  <2> QED BY <1>1, <2>1, <2>2, <2>3
<1>3. /\ twice \in Seq(Services) /\ Len(twice) = 4
      /\ twice[1] = one /\ twice[2] = two /\ twice[3] = one /\ twice[4] = two
  <2>1. /\ twice \in Seq(Services) /\ Len(twice) = 2 + 2
        /\ \A i \in 1..2 : twice[i] = ServiceOrder[i]
        /\ twice[2 + 1] = one /\ twice[2 + 2] = two
    BY <1>1, <1>2
  <2> HIDE DEF twice
  <2> QED BY <2>1
<1>4. ReadPlan = IF schedule.ordered THEN thrice ELSE ServiceOrder
  BY DEF ReadPlan
<1> HIDE DEF twice
<1>5. /\ thrice \in Seq(Services) /\ Len(thrice) = 6
      /\ thrice[1] = one /\ thrice[2] = two /\ thrice[3] = one
      /\ thrice[4] = two /\ thrice[5] = one /\ thrice[6] = two
  <2>1. /\ thrice \in Seq(Services) /\ Len(thrice) = 4 + 2
        /\ \A i \in 1..4 : thrice[i] = twice[i]
        /\ thrice[4 + 1] = one /\ thrice[4 + 2] = two
    BY <1>2, <1>3
  <2> HIDE DEF thrice, one, two
  <2> QED BY <1>3, <2>1
<1> HIDE DEF thrice
<1>6. CASE schedule.ordered
  <2>1. ReadPlan = thrice
    BY <1>4, <1>6
  <2>2. \A i \in 1..6 : i = 1 \/ i = 2 \/ i = 3 \/ i = 4 \/ i = 5 \/ i = 6
    OBVIOUS
  <2> HIDE DEF one, two
  <2>3. \A i \in 1..6 : thrice[i] = IF i \in {1, 3, 5} THEN one ELSE two
    BY <1>5, <2>2
  <2> QED BY <1>5, <1>6, <2>1, <2>3 DEF one, two
<1>7. CASE ~schedule.ordered
  <2>1. ReadPlan = ServiceOrder
    BY <1>4, <1>7
  <2>2. \A i \in 1..2 : i = 1 \/ i = 2
    OBVIOUS
  <2> QED BY <1>1, <1>7, <2>1, <2>2
<1> QED BY <1>6, <1>7

-----------------------------------------------------------------------------
(***************************************************************************)
(* The pool.                                                               *)
(***************************************************************************)
\* What the pool's variables are, in numbers.
LEMMA PoolFacts ==
    ASSUME RunTypeOK, PoolIsInOrder
    PROVE  /\ schedule.actors \in Seq(Actors) /\ Len(schedule.actors) \in Nat \ {0}
           /\ \A i, j \in 1..Len(schedule.actors) :
                schedule.actors[i] = schedule.actors[j] => i = j
           /\ Cardinality(running) \in Nat /\ Cardinality(results) \in Nat
           /\ Taken \in Nat /\ Len(inbox) \in Nat
<1>1. /\ schedule.actors \in Seq(Actors) /\ schedule.actors # <<>>
      /\ \A i, j \in DOMAIN schedule.actors :
            schedule.actors[i] = schedule.actors[j] => i = j
  BY ScheduleAssumption DEF RunTypeOK
<1>2. Cardinality(running) \in Nat /\ Cardinality(results) \in Nat
  BY FS_CardinalityType DEF PoolIsInOrder
<1>3. Taken \in Nat /\ Len(inbox) \in Nat
  BY <1>2 DEF Taken, RunTypeOK
<1> HIDE DEF Taken
<1>4. Len(schedule.actors) \in Nat /\ Len(schedule.actors) # 0
  BY <1>1
<1> QED BY <1>1, <1>2, <1>3, <1>4

LEMMA PoolStays ==
    ASSUME RunTypeOK, PoolIsInOrder, UNCHANGED <<poolVars, schedule>>,
           phase' = "dispatching" <=> phase = "dispatching"
    PROVE  PoolIsInOrder'
BY DEF PoolIsInOrder, Taken, poolVars

LEMMA DispatchInOrder ==
    ASSUME RunTypeOK, PoolIsInOrder, Dispatch
    PROVE  PoolIsInOrder' /\ inbox' \in Seq(Actors)
<1> DEFINE n == Taken
           actors == schedule.actors
           next == n + Len(inbox) + 1
<1>1. /\ actors \in Seq(Actors) /\ Len(actors) \in Nat /\ n \in Nat /\ Len(inbox) \in Nat
      /\ Cardinality(running) \in Nat /\ Cardinality(results) \in Nat
  BY PoolFacts
<1>2. Len(inbox) + Cardinality(running) + Cardinality(results) + 1 = next
  BY <1>1 DEF Taken
<1>3. /\ inbox' = Append(inbox, actors[next])
      /\ phase' = IF next = Len(actors) THEN "collecting" ELSE "dispatching"
      /\ UNCHANGED <<schedule, running, results>> /\ phase = "dispatching"
      /\ schedule.ordered
  BY <1>2 DEF Dispatch
<1>4. n + Len(inbox) < Len(actors)
  BY <1>3 DEF PoolIsInOrder
<1>5. /\ inbox \in Seq(Actors) /\ inbox = [i \in 1..Len(inbox) |-> actors[n + i]]
  BY DEF PoolIsInOrder, RunTypeOK
<1>6. UNCHANGED n /\ UNCHANGED actors
  BY <1>3 DEF Taken
<1>7. /\ IsFiniteSet(running) /\ IsFiniteSet(results) /\ running \cap results = {}
      /\ running \cup results = {actors[i] : i \in 1..n}
  BY DEF PoolIsInOrder
<1> HIDE DEF n, actors
<1>8. /\ inbox' \in Seq(Actors) /\ Len(inbox') = Len(inbox) + 1
      /\ inbox' = [i \in 1..Len(inbox') |-> actors[n + i]]
  <2>1. actors[next] \in Actors
    BY <1>1, <1>4
  <2>2. /\ inbox' \in Seq(Actors) /\ Len(inbox') = Len(inbox) + 1
        /\ \A i \in 1..Len(inbox) : inbox'[i] = inbox[i]
        /\ inbox'[Len(inbox) + 1] = actors[next]
    BY <1>3, <1>5, <2>1
  <2>3. \A i \in 1..Len(inbox') : inbox'[i] = actors[n + i]
    <3> TAKE i \in 1..Len(inbox')
    <3>1. CASE i \in 1..Len(inbox)
      BY <1>5, <2>2, <3>1
    <3>2. CASE i = Len(inbox) + 1
      <4>1. n + i = next
        BY <1>1, <3>2
      <4> QED BY <2>2, <3>2, <4>1
    <3> QED BY <1>1, <2>2, <3>1, <3>2
  <2>4. inbox' = [i \in 1..Len(inbox') |-> inbox'[i]]
    BY <2>2
  <2> HIDE DEF next
  <2> QED BY <2>2, <2>3, <2>4
<1>9. n + Len(inbox') <= Len(actors) /\ (phase' = "dispatching" <=> n + Len(inbox') < Len(actors))
  BY <1>1, <1>3, <1>4, <1>8
<1>10. /\ Taken' = n /\ schedule'.actors = actors /\ schedule'.ordered
       /\ running' = running /\ results' = results
  BY <1>3, <1>6 DEF n, actors
<1> QED BY <1>7, <1>8, <1>9, <1>10 DEF PoolIsInOrder

LEMMA SubmitInOrder ==
    ASSUME RunTypeOK, PoolIsInOrder, Submit
    PROVE  PoolIsInOrder' /\ inbox' \in Seq(Actors)
<1> DEFINE actors == schedule.actors
<1>1. /\ actors \in Seq(Actors) /\ Len(actors) \in Nat
  BY PoolFacts
<1>2. /\ inbox' = actors /\ phase' = "collecting"
      /\ UNCHANGED <<schedule, running, results>>
      /\ Taken = 0
  BY DEF Submit, PoolIsInOrder
<1>3. /\ IsFiniteSet(running) /\ IsFiniteSet(results) /\ running \cap results = {}
      /\ running \cup results = {actors[i] : i \in 1..0}
  BY <1>2 DEF PoolIsInOrder
<1>4. Taken' = 0 /\ schedule'.actors = actors
  BY <1>2 DEF Taken
<1> HIDE DEF actors
<1>5. inbox' = [i \in 1..Len(inbox') |-> actors[0 + i]]
  <2>1. \A i \in 1..Len(actors) : 0 + i = i
    OBVIOUS
  <2>2. actors = [i \in 1..Len(actors) |-> actors[i]]
    BY <1>1
  <2> QED BY <1>2, <2>1, <2>2
<1>6. 0 + Len(inbox') <= Len(actors) /\ ~(0 + Len(inbox') < Len(actors))
  BY <1>1, <1>2
<1> QED BY <1>1, <1>2, <1>3, <1>4, <1>5, <1>6 DEF PoolIsInOrder

LEMMA TakeInOrder ==
    ASSUME RunTypeOK, PoolIsInOrder, NEW x, Take(x)
    PROVE  PoolIsInOrder' /\ inbox' \in Seq(Actors)
<1> DEFINE n == Taken
           actors == schedule.actors
<1>1. /\ actors \in Seq(Actors) /\ Len(actors) \in Nat /\ n \in Nat /\ Len(inbox) \in Nat
      /\ Cardinality(running) \in Nat /\ Cardinality(results) \in Nat
      /\ \A i, j \in 1..Len(actors) : actors[i] = actors[j] => i = j
  BY PoolFacts
<1>2. /\ inbox # <<>> /\ x = Head(inbox) /\ inbox' = Tail(inbox)
      /\ running' = running \cup {x}
      /\ UNCHANGED <<schedule, results, phase>>
  BY DEF Take, runnerVars
<1>3. /\ inbox \in Seq(Actors) /\ inbox = [i \in 1..Len(inbox) |-> actors[n + i]]
      /\ n + Len(inbox) <= Len(actors)
      /\ phase = "dispatching" <=> n + Len(inbox) < Len(actors)
      /\ ~(phase = "dispatching" /\ ~schedule.ordered)
      /\ IsFiniteSet(running) /\ IsFiniteSet(results) /\ running \cap results = {}
      /\ running \cup results = {actors[i] : i \in 1..n}
  BY <1>2 DEF PoolIsInOrder, RunTypeOK
<1>4. /\ Taken = Cardinality(running) + Cardinality(results)
      /\ Taken' = Cardinality(running') + Cardinality(results')
  BY DEF Taken
<1> HIDE DEF n, actors
<1>5. Len(inbox) >= 1 /\ x = actors[n + 1] /\ n + 1 \in 1..Len(actors)
  <2>1. Len(inbox) >= 1 /\ x = inbox[1]
    BY <1>2, <1>3
  <2> QED BY <1>1, <1>3, <2>1
<1>6. x \notin running /\ x \notin results
  <2> SUFFICES ASSUME x \in running \cup results
               PROVE  FALSE
    OBVIOUS
  <2>1. PICK i \in 1..n : x = actors[i]
    BY <1>3
  <2>2. i \in 1..Len(actors) /\ i # n + 1
    BY <1>1, <1>5, <2>1
  <2> QED BY <1>1, <1>5, <2>1, <2>2
<1>7. IsFiniteSet(running') /\ Cardinality(running') = Cardinality(running) + 1
  BY <1>2, <1>3, <1>6, FS_AddElement
<1>8. Taken' = n + 1
  BY <1>1, <1>2, <1>4, <1>7 DEF n
<1>9. running' \cap results' = {} /\ running' \cup results' = {actors[i] : i \in 1..(n + 1)}
  <2>1. \A i \in 1..(n + 1) : i \in 1..n \/ i = n + 1
    BY <1>1
  <2>2. 1..n \subseteq 1..(n + 1) /\ n + 1 \in 1..(n + 1)
    BY <1>1
  <2> QED BY <1>2, <1>3, <1>5, <1>6, <2>1, <2>2
<1>10. /\ inbox' \in Seq(Actors) /\ Len(inbox') = Len(inbox) - 1
       /\ inbox' = [i \in 1..Len(inbox') |-> actors[n + 1 + i]]
  <2>1. /\ inbox' \in Seq(Actors) /\ Len(inbox') = Len(inbox) - 1
        /\ \A i \in 1..Len(inbox') : inbox'[i] = inbox[i + 1]
    BY <1>2, <1>3, <1>5
  <2>2. \A i \in 1..Len(inbox') : inbox'[i] = actors[n + 1 + i]
    <3> TAKE i \in 1..Len(inbox')
    <3>1. i + 1 \in 1..Len(inbox) /\ n + (i + 1) = n + 1 + i
      BY <1>1, <2>1
    <3> QED BY <1>3, <2>1, <3>1
  <2>3. inbox' = [i \in 1..Len(inbox') |-> inbox'[i]]
    BY <2>1
  <2> QED BY <2>1, <2>2, <2>3
<1>11. /\ n + 1 + Len(inbox') <= Len(actors)
       /\ phase' = "dispatching" <=> n + 1 + Len(inbox') < Len(actors)
  BY <1>1, <1>2, <1>3, <1>5, <1>10
<1>12. schedule' = schedule /\ schedule'.actors = actors /\ results' = results /\ phase' = phase
  BY <1>2 DEF actors
<1> QED BY <1>3, <1>7, <1>8, <1>9, <1>10, <1>11, <1>12 DEF PoolIsInOrder

LEMMA ReportInOrder ==
    ASSUME RunTypeOK, PoolIsInOrder, NEW x, Report(x)
    PROVE  PoolIsInOrder'
<1>1. /\ x \in running /\ running' = running \ {x} /\ results' = results \cup {x}
      /\ UNCHANGED <<schedule, inbox, phase>>
  BY DEF Report, runnerVars
<1>2. /\ IsFiniteSet(running) /\ IsFiniteSet(results) /\ running \cap results = {}
      /\ Cardinality(running) \in Nat /\ Cardinality(results) \in Nat
  BY PoolFacts DEF PoolIsInOrder
<1>3. IsFiniteSet(running') /\ Cardinality(running') = Cardinality(running) - 1
  BY <1>1, <1>2, FS_RemoveElement
<1>4. IsFiniteSet(results') /\ Cardinality(results') = Cardinality(results) + 1
  BY <1>1, <1>2, FS_AddElement
<1>5. Taken' = Taken
  BY <1>2, <1>3, <1>4 DEF Taken
<1>6. running' \cup results' = running \cup results /\ running' \cap results' = {}
  BY <1>1, <1>2
<1> QED BY <1>1, <1>3, <1>4, <1>5, <1>6 DEF PoolIsInOrder

\* The runner goes on to the verdict only when everybody has come back.
LEMMA CollectedIsComplete ==
    ASSUME RunTypeOK, PoolIsInOrder, Collected
    PROVE  running = {} /\ inbox = <<>>
<1>1. /\ Cardinality(results) = Len(schedule.actors)
      /\ Taken + Len(inbox) <= Len(schedule.actors)
      /\ Taken = Cardinality(running) + Cardinality(results)
      /\ Cardinality(running) \in Nat /\ Cardinality(results) \in Nat /\ Len(inbox) \in Nat
      /\ IsFiniteSet(running)
  BY PoolFacts DEF Collected, PoolIsInOrder, Taken
<1>2. Cardinality(running) = 0 /\ Len(inbox) = 0
  BY <1>1
<1>3. running = {}
  BY <1>1, <1>2, FS_EmptySet
<1>4. inbox = <<>>
  BY <1>2 DEF RunTypeOK
<1> QED BY <1>3, <1>4

LEMMA PoolStaysInOrder ==
    ASSUME RunTypeOK, PoolIsInOrder, Next \/ UNCHANGED runVars
    PROVE  PoolIsInOrder' /\ inbox' \in Seq(Actors)
<1>1. inbox \in Seq(Actors)
  BY DEF RunTypeOK
<1>2. ASSUME UNCHANGED <<poolVars, schedule>>, phase' = "dispatching" <=> phase = "dispatching"
      PROVE  PoolIsInOrder' /\ inbox' \in Seq(Actors)
  BY <1>1, <1>2, PoolStays DEF poolVars
<1>3. ASSUME NEW x, BarrierStep(x) \/ Timeout(x) \/ ActorStep(x) \/ ActorSuffers(x) \/ WorkerDies(x)
      PROVE  PoolIsInOrder' /\ inbox' \in Seq(Actors)
  <2>1. UNCHANGED <<poolVars, schedule, phase>>
    BY <1>3 DEF BarrierStep, Timeout, ActorStep, ActorSuffers, WorkerDies, runnerVars
  <2> QED BY <1>2, <2>1
<1>4. ASSUME NEW x, Report(x)
      PROVE  PoolIsInOrder' /\ inbox' \in Seq(Actors)
  BY <1>1, <1>4, ReportInOrder DEF Report
<1>5. CASE Collect \/ Read \/ UNCHANGED runVars
  <2>1. UNCHANGED <<poolVars, schedule>> /\ (phase' = "dispatching" <=> phase = "dispatching")
    BY <1>5 DEF Collect, Read, runVars, runnerVars
  <2> QED BY <1>2, <2>1
<1> QED BY <1>3, <1>4, <1>5, DispatchInOrder, SubmitInOrder, TakeInOrder
        DEF Next, Progress, RunnerStep

\* While the oracle reads, and after, nothing goes on but barrier traffic and what
\* is late.
LEMMA RunnerMoves ==
    ASSUME Next \/ UNCHANGED runVars
    PROVE  Dispatch \/ Submit \/ Collect \/ Read \/ UNCHANGED runnerVars
<1>1. \A x : ActorStep(x) \/ Take(x) \/ Report(x) \/ ActorSuffers(x) \/ WorkerDies(x)
                \/ BarrierStep(x) \/ Timeout(x) => UNCHANGED runnerVars
  BY DEF ActorStep, Take, Report, ActorSuffers, WorkerDies, BarrierStep, Timeout
<1>2. UNCHANGED runVars => UNCHANGED runnerVars
  BY DEF runVars
<1> QED BY <1>1, <1>2 DEF Next, Progress, RunnerStep

LEMMA QuietWhileJudging ==
    ASSUME LabRunInv, phase \in {"judging", "judged"}, Next \/ UNCHANGED runVars
    PROVE  /\ UNCHANGED <<poolVars, experiment, late>>
           /\ late = {} => UNCHANGED <<effects, experiment>>
<1> DEFINE quiet == UNCHANGED poolVars /\ UNCHANGED <<experiment, late>>
                    /\ (late = {} => UNCHANGED effects)
<1>1. running = {} /\ inbox = <<>>
  BY DEF LabRunInv, NobodyIsAtWork
<1>2. \A x : ~ActorStep(x) /\ ~Take(x) /\ ~Report(x) /\ ~WorkerDies(x)
  BY <1>1 DEF ActorStep, Take, Report, WorkerDies
<1>3. ~Dispatch /\ ~Submit /\ ~Collect
  BY DEF Dispatch, Submit, Collect
<1>4. UNCHANGED actorVars => UNCHANGED <<experiment, late, effects>>
  BY DEF actorVars, vars, stores, agentVars, lossVars
<1>5. Read \/ UNCHANGED runVars => quiet
  BY <1>4 DEF Read, runVars
<1>6. \A x : BarrierStep(x) \/ Timeout(x) => quiet
  BY <1>4 DEF BarrierStep, Timeout
<1>7. \A x : ActorSuffers(x) => quiet
  <2> SUFFICES ASSUME NEW x, ActorSuffers(x) PROVE quiet
    OBVIOUS
  <2>1. LandLate(x) /\ UNCHANGED poolVars
    BY <1>1 DEF ActorSuffers
  <2>2. x \in late /\ UNCHANGED <<experiment, late>>
    BY <2>1 DEF LandLate, agentVars, lossVars
  <2> QED BY <2>1, <2>2
<1> HIDE DEF quiet
<1>8. quiet
  BY <1>2, <1>3, <1>5, <1>6, <1>7 DEF Next, Progress, RunnerStep
<1> QED BY <1>8 DEF quiet

\* The types, the pool at rest and the readings, after a step.
LEMMA RunTypesStay ==
    ASSUME LabRunInv, Next \/ UNCHANGED runVars
    PROVE  RunTypeOK'
<1>1. RunTypeOK /\ AgentsInv /\ PoolIsInOrder
  BY DEF LabRunInv
<1>2. UNCHANGED schedule
  BY ScheduleStays
<1>3. UNCHANGED experiment
  BY WhoMoves DEF OthersWait
<1>4. gate' \in [Actors -> {"closed", "parked", "released", "open", "aborting", "refused",
                            "dropped"}]
  <2>1. gate \in [Actors -> {"closed", "parked", "released", "open", "aborting", "refused",
                             "dropped"}]
    BY <1>1 DEF RunTypeOK
  <2>2. CASE \E x \in Actors : BarrierStep(x) \/ Timeout(x)
    BY <1>1, <2>2, GatesMove
  <2>3. CASE \E x \in Actors : gate' = [gate EXCEPT ![x] = "closed"]
    BY <2>1, <2>3
  <2> QED BY <1>1, <2>1, <2>2, <2>3, GatesElsewhere
<1>5. /\ phase' \in {"dispatching", "collecting", "judging", "judged", "raised"}
      /\ readings' \in Seq(Nat)
  <2>1. /\ phase \in {"dispatching", "collecting", "judging", "judged", "raised"}
        /\ readings \in Seq(Nat)
    BY <1>1 DEF RunTypeOK
  <2>2. CASE Dispatch \/ Submit \/ Collect
    BY <2>1, <2>2 DEF Dispatch, Submit, Collect
  <2>3. CASE Read
    <3> DEFINE n == Len(readings)
               s == ReadPlan[n + 1]
    <3>1. n \in Nat /\ n < Len(ReadPlan) /\ ReadPlan \in Seq(Services)
      BY <1>1, <2>1, <2>3, PlansAreServices DEF Read, LabRunInv, ReadingsAreTrue
    <3>2. s \in Services
      BY <3>1
    <3>3. TotalCommitted(s) \in Nat
      BY <1>1, <3>2, ReadsAreNumbers
    <3>4. readings' = Append(readings, TotalCommitted(s)) /\ phase' \in {phase, "judged"}
      BY <2>3 DEF Read
    <3> QED BY <2>1, <3>3, <3>4
  <2>4. CASE UNCHANGED runnerVars
    BY <2>1, <2>4 DEF runnerVars
  <2> QED BY <2>2, <2>3, <2>4, RunnerMoves
<1>6. inbox' \in Seq(Actors)
  BY <1>1, PoolStaysInOrder
<1> QED BY <1>1, <1>2, <1>3, <1>4, <1>5, <1>6 DEF RunTypeOK

LEMMA NobodyGoesToWork ==
    ASSUME LabRunInv, Next \/ UNCHANGED runVars
    PROVE  NobodyIsAtWork'
<1>1. CASE phase \in {"judging", "judged"}
  BY <1>1, QuietWhileJudging DEF poolVars, LabRunInv, NobodyIsAtWork
<1>2. CASE phase \notin {"judging", "judged"}
  <2>1. CASE Collect
    <3>1. Collected \/ phase' = "raised"
      BY <2>1 DEF Collect
    <3>2. UNCHANGED poolVars
      BY <2>1 DEF Collect
    <3> QED BY <3>1, <3>2, CollectedIsComplete DEF poolVars, LabRunInv, NobodyIsAtWork
  <2>2. CASE Dispatch \/ Submit
    BY <2>2 DEF Dispatch, Submit, NobodyIsAtWork
  <2>3. CASE Read \/ UNCHANGED runnerVars
    BY <1>2, <2>3 DEF Read, runnerVars, NobodyIsAtWork
  <2> QED BY <2>1, <2>2, <2>3, RunnerMoves
<1> QED BY <1>1, <1>2

LEMMA PlanStays ==
    ASSUME Next \/ UNCHANGED runVars
    PROVE  UNCHANGED ReadPlan
BY ScheduleStays DEF ReadPlan

LEMMA TotalsStay ==
    ASSUME UNCHANGED <<effects, experiment, ReadPlan>>, NEW i
    PROVE  TotalCommitted(ReadPlan[i])' = TotalCommitted(ReadPlan[i])
BY DEF TotalCommitted, Committed, SumOf, Amount, Config

LEMMA ReadingsStayTrue ==
    ASSUME LabRunInv, Next \/ UNCHANGED runVars
    PROVE  ReadingsAreTrue'
<1>1. /\ ReadingsAreTrue /\ readings \in Seq(Nat)
      /\ phase \in {"dispatching", "collecting", "judging", "judged", "raised"}
      /\ Len(ReadPlan) \in {2, 6}
  BY PlansAreServices DEF LabRunInv, RunTypeOK
<1>2. UNCHANGED ReadPlan
  BY PlanStays
<1>3. CASE Dispatch \/ Submit
  BY <1>1, <1>3 DEF Dispatch, Submit, ReadingsAreTrue
<1>4. CASE Collect
  <2>1. readings' = <<>> /\ phase' \in {"judging", "raised"}
    BY <1>1, <1>4 DEF Collect, ReadingsAreTrue
  <2>2. Len(readings') = 0 /\ \A i \in 1..Len(readings') : FALSE
    BY <2>1
  <2>3. Len(ReadPlan) > 0
    BY <1>1
  <2>4. Len(ReadPlan)' > 0
    BY <1>2, <2>3
  <2> QED BY <2>1, <2>2, <2>4 DEF ReadingsAreTrue
<1>5. CASE Read
  <2> DEFINE n == Len(readings)
  <2>1. /\ phase = "judging" /\ n \in Nat /\ n < Len(ReadPlan)
        /\ phase' = IF Len(readings') = Len(ReadPlan) THEN "judged" ELSE "judging"
        /\ readings' = Append(readings, TotalCommitted(ReadPlan[n + 1]))
    BY <1>1, <1>5 DEF Read, ReadingsAreTrue
  <2>2. /\ Len(readings') = n + 1
        /\ \A i \in 1..n : readings'[i] = readings[i]
        /\ readings'[n + 1] = TotalCommitted(ReadPlan[n + 1])
    BY <1>1, <2>1
  <2>3. UNCHANGED late /\ (late = {} => UNCHANGED <<effects, experiment>>)
    BY <2>1, QuietWhileJudging
  <2>4. ASSUME late' = {}, NEW i \in 1..Len(readings')
        PROVE  readings'[i] = TotalCommitted(ReadPlan[i])'
    <3>1. \A j \in 1..n : readings[j] = TotalCommitted(ReadPlan[j])
      BY <2>1, <2>3, <2>4, <1>1 DEF ReadingsAreTrue
    <3>2. TotalCommitted(ReadPlan[i])' = TotalCommitted(ReadPlan[i])
      BY <1>2, <2>3, <2>4, TotalsStay
    <3>3. i \in 1..n \/ i = n + 1
      BY <2>1, <2>2
    <3> QED BY <2>2, <3>1, <3>2, <3>3
  <2> QED BY <1>1, <1>2, <2>1, <2>2, <2>4 DEF ReadingsAreTrue
<1>6. CASE UNCHANGED runnerVars
  <2>1. UNCHANGED <<phase, readings>>
    BY <1>6 DEF runnerVars
  <2>2. CASE phase \notin {"judging", "judged"}
    BY <1>1, <2>1, <2>2 DEF ReadingsAreTrue
  <2>3. CASE phase \in {"judging", "judged"}
    <3>1. UNCHANGED late /\ (late = {} => UNCHANGED <<effects, experiment>>)
      BY <2>3, QuietWhileJudging
    <3>2. ASSUME late' = {}, NEW i \in 1..Len(readings')
          PROVE  readings'[i] = TotalCommitted(ReadPlan[i])'
      <4>1. TotalCommitted(ReadPlan[i])' = TotalCommitted(ReadPlan[i])
        BY <1>2, <3>1, <3>2, TotalsStay
      <4> QED BY <1>1, <2>1, <2>3, <3>1, <3>2, <4>1 DEF ReadingsAreTrue
    <3> QED BY <1>1, <1>2, <2>1, <2>3, <3>2 DEF ReadingsAreTrue
  <2> QED BY <2>2, <2>3
<1> QED BY <1>3, <1>4, <1>5, <1>6, RunnerMoves

-----------------------------------------------------------------------------
(***************************************************************************)
(* The invariant.                                                          *)
(***************************************************************************)
LEMMA AgentsBegin ==
    ASSUME Init
    PROVE  AgentsInv
<1>1. /\ experiment \in Experiments /\ effects = [s \in Services |-> {}]
      /\ hold = [a \in Agents |-> "NONE"] /\ pc = [a \in Agents |-> "idle"]
      /\ reserved = [a \in Agents |-> FALSE] /\ late = {} /\ unheard = {} /\ ignored = {}
  BY DEF Init, AgentsInit, EffectsInit
<1>2. Present \subseteq Agents
  BY <1>1, PresentAreConfigured
<1>3. AgentsTypeOK /\ EffectsAreOwn
  BY <1>1 DEF AgentsTypeOK, EffectsAreOwn, HoldStates, Places
<1>4. BudgetIsKept
  <2>1. {b \in Present : hold[b] \in {"HELD", "COMMITTED"}} = {}
    BY <1>1, <1>2
  <2>2. HeldBudget = 0
    BY <2>1, TotalOfNothing DEF HeldBudget, SumOf
  <2> QED BY <2>2, ExperimentAssumption DEF BudgetIsKept
<1>5. Spenders = {}
  BY <1>1 DEF Spenders, Committed
<1>6. ASSUME NEW a \in Agents PROVE IsSound(a)
  BY <1>1, <1>5 DEF IsSound, IsConfigured, GrantCameFirst, Spending, Settles
<1> QED BY <1>3, <1>4, <1>6 DEF AgentsInv

LEMMA RunsBegin ==
    ASSUME Init
    PROVE  LabRunInv
<1>1. /\ schedule \in Schedules /\ experiment = schedule.experiment
      /\ gate = [x \in Actors |-> "closed"]
      /\ inbox = <<>> /\ running = {} /\ results = {}
      /\ phase = "dispatching" /\ readings = <<>>
  BY DEF Init
<1>2. RunTypeOK
  BY <1>1 DEF RunTypeOK
<1>3. AsksAtCheckpoint
  BY <1>1 DEF AsksAtCheckpoint, Actors
<1>4. PoolIsInOrder
  <2>1. /\ IsFiniteSet(running) /\ Cardinality(running) = 0
        /\ IsFiniteSet(results) /\ Cardinality(results) = 0
    BY <1>1, FS_EmptySet
  <2>2. Taken = 0
    BY <2>1 DEF Taken
  <2>3. schedule.actors \in Seq(Actors) /\ schedule.actors # <<>>
    BY <1>1, ScheduleAssumption
  <2>4. Len(schedule.actors) \in Nat /\ Len(schedule.actors) # 0
    BY <2>3
  <2>5. /\ Len(inbox) = 0 /\ inbox = [i \in 1..0 |-> schedule.actors[0 + i]]
        /\ {schedule.actors[i] : i \in 1..0} = {}
    BY <1>1
  <2> QED BY <1>1, <2>1, <2>2, <2>4, <2>5 DEF PoolIsInOrder
<1>5. NobodyIsAtWork /\ ReadingsAreTrue
  BY <1>1 DEF NobodyIsAtWork, ReadingsAreTrue
<1> QED BY <1>2, <1>3, <1>4, <1>5, AgentsBegin DEF LabRunInv

\* Whoever moves, the agents keep to their invariant.
LEMMA AgentsStaySound ==
    ASSUME LabRunInv, Next \/ UNCHANGED runVars
    PROVE  AgentsInv'
<1>1. AgentsInv /\ RunTypeOK /\ AsksAtCheckpoint /\ PoolIsInOrder
  BY DEF LabRunInv
<1>2. \A x : ActorStep(x) => AgentsInv'
  BY <1>1, ActorStepIsSound
<1>3. \A x : ActorSuffers(x) => AgentsInv'
  BY <1>1, SuffersIsSound
<1>4. \A x : Take(x) => AgentsInv'
  BY <1>1, TakeIsSound
<1>5. \A x : WorkerDies(x) => AgentsInv'
  BY <1>1, DeathIsSound
<1>6. \A x : RunnerStep \/ BarrierStep(x) \/ Timeout(x) \/ Report(x) \/ UNCHANGED runVars
                => AgentsInv'
  BY <1>1, OthersAreSound
<1> QED BY <1>2, <1>3, <1>4, <1>5, <1>6 DEF Next, Progress

\* The invariant holds throughout every run, of any actors on any schedule.
THEOREM Invariance == Spec => []LabRunInv
<1>1. Init => LabRunInv
  BY RunsBegin
<1>2. LabRunInv /\ [Next]_runVars => LabRunInv'
  <2> SUFFICES ASSUME LabRunInv, Next \/ UNCHANGED runVars PROVE LabRunInv'
    OBVIOUS
  <2>1. AgentsInv' /\ RunTypeOK'
    BY AgentsStaySound, RunTypesStay
  <2>2. AsksAtCheckpoint'
    BY AgentsAskAtCheckpoints DEF LabRunInv
  <2>3. PoolIsInOrder'
    BY PoolStaysInOrder DEF LabRunInv
  <2>4. NobodyIsAtWork' /\ ReadingsAreTrue'
    BY NobodyGoesToWork, ReadingsStayTrue
  <2> QED BY <2>1, <2>2, <2>3, <2>4 DEF LabRunInv
<1> QED BY <1>1, <1>2, PTL DEF Spec

-----------------------------------------------------------------------------
(***************************************************************************)
(* What follows from it.                                                   *)
(***************************************************************************)
LEMMA GrantsPrecedeSpending ==
    ASSUME AgentsInv
    PROVE  SpendingWasGranted
<1>1. Spenders \subseteq Agents
  BY SpendersHaveLanded, PresentAreConfigured DEF AgentsInv, AgentsTypeOK
<1>2. \A a \in Spenders : experiment.reservations => hold[a] # "NONE"
  BY <1>1 DEF AgentsInv, IsSound, GrantCameFirst, Spending
<1> QED BY <1>2 DEF SpendingWasGranted

\* Where agents reserve, nobody has an effect whose budget the control service did not
\* grant at some time, in whatever order the agents ask, whatever a model replies and
\* whatever fails (agents/diligent/policy.py, agents/llm/policy.py).
THEOREM NoSpendingWithoutGrant == Spec => []SpendingWasGranted
<1>1. LabRunInv => SpendingWasGranted
  BY GrantsPrecedeSpending DEF LabRunInv
<1> QED BY <1>1, Invariance, PTL

\* If no spender's hold was released, what they have spent is part of what is held.
LEMMA SpendingIsHeld ==
    ASSUME AgentsInv, experiment.reservations, \A a \in Spenders : hold[a] # "RELEASED"
    PROVE  SumOf(Spenders) <= Authorized
<1> DEFINE taking == {b \in Present : hold[b] \in {"HELD", "COMMITTED"}}
<1>1. experiment \in Experiments /\ hold \in [Agents -> HoldStates]
  BY DEF AgentsInv, AgentsTypeOK
<1>2. Spenders \subseteq Present /\ Present \subseteq Agents
  BY <1>1, SpendersHaveLanded, PresentAreConfigured DEF AgentsInv
<1>3. \A a \in Spenders : hold[a] \in {"HELD", "COMMITTED"}
  BY <1>1, <1>2, GrantsPrecedeSpending DEF SpendingWasGranted, HoldStates
<1>4. Spenders \subseteq taking
  BY <1>2, <1>3
<1>5. SumOf(Spenders) <= SumOf(taking) /\ SumOf(taking) <= Authorized
  BY <1>1, <1>4, SumIsMonotone DEF AgentsInv, BudgetIsKept, HeldBudget
<1>6. SumOf(Spenders) \in Nat /\ SumOf(taking) \in Nat /\ Authorized \in Nat
  BY <1>1, <1>2, SumIsNatural, ExperimentAssumption
<1> HIDE DEF taking
<1> QED BY <1>5, <1>6

LEMMA OverspendingIsExplained ==
    ASSUME AgentsInv
    PROVE  OverspendIsExplained
<1> SUFFICES ASSUME experiment.reservations, SumOf(Spenders) > Authorized
             PROVE  \E a \in Spenders : hold[a] = "RELEASED" /\ (a \in unheard \/ Llm(a))
  BY DEF OverspendIsExplained
<1>1. Spenders \subseteq Present /\ Present \subseteq Agents
  BY SpendersHaveLanded, PresentAreConfigured DEF AgentsInv, AgentsTypeOK
<1>2. SumOf(Spenders) \in Nat /\ Authorized \in Nat
  BY <1>1, SumIsNatural, ExperimentAssumption DEF AgentsInv, AgentsTypeOK
<1>3. PICK a \in Spenders : hold[a] = "RELEASED"
  BY <1>2, SpendingIsHeld
<1>4. a \in unheard \/ Llm(a)
  BY <1>1, <1>3 DEF AgentsInv, IsSound, Settles
<1> QED BY <1>3, <1>4

\* Where agents reserve, the case gets more than it may only through an effect whose
\* hold was released: by a diligent agent that did not hear that it has the effect, or
\* by a model that declined and acted.
THEOREM OverspendHasACause == Spec => []OverspendIsExplained
<1>1. LabRunInv => OverspendIsExplained
  BY OverspendingIsExplained DEF LabRunInv
<1> QED BY <1>1, Invariance, PTL

LEMMA LeavingsAreKnown ==
    ASSUME AgentsInv
    PROVE  LeaksAreKnown
<1> SUFFICES ASSUME NEW a \in Present, Ended(a), hold[a] = "HELD",
                    pc[a] \notin {"abandoned", "stopped"}, a \notin unheard \cup ignored
             PROVE  Llm(a) /\ (pc[a] = "raised" \/ a \notin Spenders)
  BY DEF LeaksAreKnown
<1>1. Settles(a)
  BY PresentAreConfigured DEF AgentsInv, AgentsTypeOK, IsSound
<1> QED BY <1>1 DEF Settles, Ended

\* Budget stays held after its agent has ended only if the agent abandoned the case or
\* ran out of steps, did not hear from a service, took no notice of an error that release
\* or commit was answered with, or is a model that raised or lost track of its
\* reservation: nothing else in a run leaks.
THEOREM LeaksHaveACause == Spec => []LeaksAreKnown
<1>1. LabRunInv => LeaksAreKnown
  BY LeavingsAreKnown DEF LabRunInv
<1> QED BY <1>1, Invariance, PTL

\* The oracle adds up the effects of either service, and nobody has one in both.
LEMMA OracleSeesEverySpender ==
    ASSUME AgentsInv
    PROVE  /\ TotalCommitted(ServiceOrder[1]) + TotalCommitted(ServiceOrder[2])
                = SumOf(Spenders)
           /\ ~KeyDuplicated
<1> DEFINE one == Committed(ServiceOrder[1])
           two == Committed(ServiceOrder[2])
<1>1. /\ ServiceOrder[1] # ServiceOrder[2]
      /\ Services = {ServiceOrder[1], ServiceOrder[2]}
  BY ExperimentAssumption
<1>2. /\ experiment \in Experiments /\ Spenders \subseteq Present
      /\ \A s \in Services : Committed(s) = {a \in Spenders : Config(a).target = s}
  BY SpendersHaveLanded DEF AgentsInv, AgentsTypeOK
<1>3. one \cup two = Spenders /\ one \cap two = {}
  <2>1. one \cap two = {}
    BY <1>1, <1>2
  <2>2. \A a \in Spenders : Config(a).target \in Services
    BY <1>2, PresentAreConfigured
  <2> QED BY <1>1, <1>2, <2>1, <2>2
<1>4. SumOf(Spenders) = SumOf(one) + SumOf(two)
  <2>1. one \subseteq Present /\ two \subseteq Present
    BY <1>2, <1>3
  <2> HIDE DEF one, two
  <2> QED BY <1>2, <1>3, <2>1, SumOfParts
<1>5. ~KeyDuplicated
  BY <1>1, <1>3 DEF KeyDuplicated
<1> QED BY <1>4, <1>5 DEF TotalCommitted

LEMMA JudgedIsTrue ==
    ASSUME LabRunInv
    PROVE  VerdictStands
<1> SUFFICES ASSUME phase = "judged", late = {}
             PROVE  /\ JudgedTotal = SumOf(Spenders)
                    /\ ~Diverged /\ Verdict # "INCONCLUSIVE"
  BY DEF VerdictStands
<1>1. /\ Len(readings) = Len(ReadPlan)
      /\ \A i \in 1..Len(ReadPlan) : readings[i] = TotalCommitted(ReadPlan[i])
  BY DEF LabRunInv, ReadingsAreTrue
<1>2. /\ Len(ReadPlan) = IF schedule.ordered THEN 6 ELSE 2
      /\ \A i \in 1..Len(ReadPlan) :
            ReadPlan[i] = IF i \in {1, 3, 5} THEN ServiceOrder[1] ELSE ServiceOrder[2]
  BY PlansAreServices DEF LabRunInv
<1>3. /\ readings[1] = TotalCommitted(ServiceOrder[1])
      /\ readings[2] = TotalCommitted(ServiceOrder[2])
  <2>1. 1 \in 1..Len(ReadPlan) /\ 2 \in 1..Len(ReadPlan)
    BY <1>2
  <2>2. ReadPlan[1] = ServiceOrder[1] /\ ReadPlan[2] = ServiceOrder[2]
    BY <1>2, <2>1
  <2> QED BY <1>1, <2>1, <2>2
<1>4. JudgedTotal = SumOf(Spenders) /\ ~KeyDuplicated
  BY <1>3, OracleSeesEverySpender DEF JudgedTotal, LabRunInv
<1>5. ~Diverged
  <2> SUFFICES ASSUME schedule.ordered
               PROVE  readings[3] + readings[4] = readings[5] + readings[6]
    BY DEF Diverged
  <2>1. {3, 4, 5, 6} \subseteq 1..Len(ReadPlan)
    BY <1>2
  <2>2. /\ ReadPlan[3] = ReadPlan[5]
        /\ ReadPlan[4] = ReadPlan[6]
    BY <1>2, <2>1
  <2>3. readings[3] = readings[5] /\ readings[4] = readings[6]
    BY <1>1, <2>1, <2>2
  <2> QED BY <2>3
<1>6. Verdict # "INCONCLUSIVE"
  BY <1>4 DEF Verdict
<1> QED BY <1>4, <1>5, <1>6

\* What the oracle adds up once every actor has come back, reading one database after
\* the other without a common snapshot, is what all spenders together have, and stays
\* that; only a handler whose client gave up can come later (oracle/quiescence.py).
THEOREM VerdictIsFinal == Spec => []VerdictStands
<1>1. LabRunInv => VerdictStands
  BY JudgedIsTrue
<1> QED BY <1>1, Invariance, PTL

LEMMA DiligentVerdictIsClean ==
    ASSUME LabRunInv
    PROVE  GuardedRunsAreClean
<1> SUFFICES ASSUME phase = "judged", experiment.reservations,
                    \A a \in Present : ~Llm(a) /\ a \notin unheard
             PROVE  Verdict = "CLEAN"
  BY DEF GuardedRunsAreClean
<1>1. AgentsTypeOK /\ Present \subseteq Agents /\ Spenders \subseteq Present
  BY SpendersHaveLanded, PresentAreConfigured DEF LabRunInv, AgentsInv, AgentsTypeOK
<1>2. late = {}
  BY <1>1 DEF AgentsTypeOK, LabRunInv, AgentsInv, IsSound, IsConfigured
<1>3. JudgedTotal = SumOf(Spenders) /\ ~KeyDuplicated
  BY <1>2, JudgedIsTrue, OracleSeesEverySpender DEF VerdictStands, LabRunInv
<1>4. ~(SumOf(Spenders) > Authorized)
  BY <1>1, OverspendingIsExplained DEF OverspendIsExplained, LabRunInv
<1> QED BY <1>3, <1>4 DEF Verdict

\* A run whose agents reserve, are diligent and hear from the services is judged CLEAN,
\* however many agents race and in whatever order they are released: holds that are kept
\* under the ceiling keep the money under it (schedules/runner.py, oracle).
THEOREM ReservationsKeepRunsClean == Spec => []GuardedRunsAreClean
<1>1. LabRunInv => GuardedRunsAreClean
  BY DiligentVerdictIsClean
<1> QED BY <1>1, Invariance, PTL

-----------------------------------------------------------------------------
(***************************************************************************)
(* What agents see.                                                        *)
(***************************************************************************)
AgentMoves(a) == RunAgent(a) \/ Failure(a) \/ LandLate(a) \/ Start(a)
ProjectorMoves(p) == CRM!Proceed(p) \/ CRM!Fail(p) \/ CRM!Start(p, Case, schedule.order)
Redelivers(r) ==
    /\ redelivering[r] # <<>>
    /\ CRM!Redeliver(Head(redelivering[r]), Case)
    /\ redelivering' = [redelivering EXCEPT ![r] = Tail(@)]

\* In a step of the run one actor moves, or none.
LEMMA WhoDoesWhat ==
    ASSUME LabRunInv, Next \/ UNCHANGED runVars
    PROVE  \/ \E a \in Present : AgentMoves(a) /\ UNCHANGED <<crmSide, redelivering>>
           \/ \E p \in Projectors : ProjectorMoves(p) /\ UNCHANGED <<agentSide, redelivering>>
           \/ \E r \in Redeliverers : Redelivers(r) /\ UNCHANGED <<agentSide, crmSide>>
           \/ \E r \in Redeliverers :
                /\ redelivering' = [redelivering EXCEPT ![r] = ServiceOrder]
                /\ UNCHANGED <<vars, crmSide>>
           \/ UNCHANGED actorVars
<1> DEFINE agents == \E a \in Present : AgentMoves(a) /\ UNCHANGED <<crmSide, redelivering>>
           projectors == \E p \in Projectors :
                            ProjectorMoves(p) /\ UNCHANGED <<agentSide, redelivering>>
           redeliverers == \E r \in Redeliverers :
                            Redelivers(r) /\ UNCHANGED <<agentSide, crmSide>>
           begins == \E r \in Redeliverers :
                        /\ redelivering' = [redelivering EXCEPT ![r] = ServiceOrder]
                        /\ UNCHANGED <<vars, crmSide>>
<1>1. AgentsInv /\ RunTypeOK /\ PoolIsInOrder
  BY DEF LabRunInv
<1>2. ASSUME NEW x, ActorStep(x)
      PROVE  agents \/ projectors \/ redeliverers
  <2>1. CASE x \in Agents /\ RunAgent(x) /\ UNCHANGED <<crmSide, redelivering>>
    <3>1. x \in Present
      BY <1>1, <1>2, <2>1, WorkersAreConfigured DEF ActorStep
    <3> QED BY <2>1, <3>1 DEF AgentMoves
  <2>2. CASE x \in Projectors /\ RunProjector(x) /\ UNCHANGED <<agentSide, redelivering>>
    BY <2>2 DEF RunProjector, ProjectorMoves
  <2>3. CASE x \in Redeliverers /\ RunRedeliver(x) /\ UNCHANGED <<agentSide, crmSide>>
    BY <2>3 DEF RunRedeliver, Redelivers
  <2> QED BY <1>2, <2>1, <2>2, <2>3 DEF ActorStep
<1>3. ASSUME NEW x, ActorSuffers(x)
      PROVE  agents
  <2>1. x \in Agents /\ (x \in running \/ x \in late)
    BY <1>3 DEF ActorSuffers, LandLate
  <2>2. x \in Present
    BY <1>1, <2>1, WorkersAreConfigured DEF AgentsInv, IsSound, IsConfigured
  <2> QED BY <1>3, <2>2 DEF ActorSuffers, AgentMoves
<1>4. ASSUME NEW x, Take(x)
      PROVE  agents \/ projectors \/ begins
  <2>1. CASE x \in Agents /\ Start(x) /\ UNCHANGED <<crmSide, redelivering>>
    <3>1. x \in Present
      BY <1>1, <1>4, <2>1, WorkersAreConfigured DEF Take
    <3> QED BY <2>1, <3>1 DEF AgentMoves
  <2>2. CASE x \in Projectors /\ CRM!Start(x, Case, schedule.order)
               /\ UNCHANGED <<agentSide, redelivering>>
    BY <2>2 DEF ProjectorMoves
  <2> QED BY <1>4, <2>1, <2>2 DEF Take
<1>5. ASSUME NEW x, WorkerDies(x)
      PROVE  projectors \/ UNCHANGED actorVars
  BY <1>5 DEF WorkerDies, ProjectorMoves
<1>6. ASSUME NEW x, RunnerStep \/ BarrierStep(x) \/ Timeout(x) \/ Report(x) \/ UNCHANGED runVars
      PROVE  UNCHANGED actorVars
  BY <1>6 DEF RunnerStep, Dispatch, Submit, Collect, Read, BarrierStep, Timeout, Report, runVars
<1> HIDE DEF agents, projectors, redeliverers, begins
<1>7. agents \/ projectors \/ redeliverers \/ begins \/ UNCHANGED actorVars
  BY <1>2, <1>3, <1>4, <1>5, <1>6 DEF Next, Progress
<1> QED BY <1>7 DEF agents, projectors, redeliverers, begins

\* Of an agent's steps, those that see something, and those that decide.
Creates(a) ==
    /\ ~Landed(a)
    /\ CreateEffect(Config(a).target, a, a, Case, NewEventId(Config(a).target))
Observes(a) == ObserveFirst(a) \/ ObserveRest(a) \/ ObserveCrm(a, Projected)
GoesElsewhere(a) ==
    /\ UNCHANGED <<experiment, observed>>
    /\ UNCHANGED pc \/ \E place \in Places \ {"idle", "reading", "readingRest", "declined"} :
                            Goto(a, place)

LEMMA WhatAgentsDo ==
    ASSUME NEW a, AgentMoves(a)
    PROVE  /\ UNCHANGED stores \/ Creates(a)
           /\ \/ Observes(a) /\ UNCHANGED <<stores, experiment>>
              \/ Start(a) /\ UNCHANGED <<stores, experiment, observed>>
              \/ Decide(a) /\ UNCHANGED <<stores, experiment, observed>>
              \/ GoesElsewhere(a)
<1> USE DEF GoesElsewhere
<1>1. CASE Observes(a)
  BY <1>1 DEF Observes, ObserveFirst, ObserveRest, ObserveCrm, Observe
<1>2. CASE Start(a)
  BY <1>2 DEF Start
<1>3. CASE Decide(a)
  BY <1>3 DEF Decide
<1>4. CASE Reserve(a)
  BY <1>4 DEF Reserve, Places
<1>5. CreateRaises(a) => UNCHANGED stores /\ GoesElsewhere(a)
  BY DEF CreateRaises, AfterFailure, Places
<1>6. CASE Authorize(a)
  BY <1>5, <1>6 DEF Authorize, Places
<1>7. CASE Insert(a) \/ Acknowledge(a)
  BY <1>7 DEF Insert, Acknowledge, Creates, Places
<1>8. CASE CreateFails(a) \/ ClientGivesUp(a)
  BY <1>5, <1>8 DEF CreateFails, ClientGivesUp
<1>9. CASE Free(a) \/ Settle(a) \/ RequestFails(a) \/ ErrorIgnored(a)
  BY <1>9 DEF Free, Settle, RequestFails, ErrorIgnored, AfterRelease, AfterCommit,
     AfterDecline, Places
<1>10. CASE ModelReplies(a) \/ StopThinking(a) \/ EndReply(a)
  BY <1>10 DEF ModelReplies, StopThinking, EndReply, Places
<1>11. CASE CallRead(a) \/ CallReserve(a) \/ CallIssue(a) \/ CallDecline(a) \/ CallUnknown(a)
  BY <1>11 DEF CallRead, CallReserve, CallIssue, CallDecline, AfterDecline, CallUnknown,
     Places
<1>12. CASE LandLate(a)
  BY <1>12 DEF LandLate, agentVars, Creates
<1>13. CASE Goto(a, "raised") /\ UNCHANGED <<stores, experiment, observed>>
  BY <1>13 DEF Places
<1>14. CASE AgentStep(a)
  BY <1>1, <1>3, <1>4, <1>6, <1>7, <1>9, <1>10, <1>11, <1>14
     DEF AgentStep, DiligentStep, Create, ModelStep, Observes
<1>15. CASE RunAgent(a)
  <2>1. ObserveCrm(a, Projected) => Observes(a)
    BY DEF Observes
  <2> QED BY <1>1, <1>8, <1>13, <1>14, <1>15, <2>1 DEF RunAgent
<1>16. CASE Failure(a)
  BY <1>8, <1>9, <1>16 DEF Failure
<1> QED BY <1>2, <1>12, <1>15, <1>16 DEF AgentMoves

\* An event tells of an effect of its own, so outboxes hold no more of them than there
\* are agents, and ids do not run out.
LEMMA EventIdsSuffice ==
    ASSUME AgentsInv, EventsAreTrue, NEW a \in Present, ~Landed(a)
    PROVE  NewEventId(Config(a).target) \in EventIds
<1> DEFINE s == Config(a).target
           others == Agents \ {a}
           teller == [v \in outbox[s] |-> v.entity]
<1>1. /\ s \in Services /\ a \in Agents /\ a \notin Spenders
      /\ Spenders \subseteq Agents /\ IsFiniteSet(Agents)
  BY SpendersHaveLanded, PresentAreConfigured, ExperimentAssumption
     DEF AgentsInv, AgentsTypeOK
<1>2. \A v \in outbox[s] : v.entity \in Spenders
  BY <1>1 DEF EventsAreTrue, Spenders
<1>3. teller \in [outbox[s] -> others]
  BY <1>1, <1>2
<1>4. \A v, w \in outbox[s] : teller[v] = teller[w] => v = w
  BY <1>1 DEF EventsAreTrue
<1> HIDE DEF teller
<1>5. IsFiniteSet(others) /\ Cardinality(others) = Cardinality(Agents) - 1
      /\ Cardinality(Agents) \in Nat
  BY <1>1, FS_RemoveElement, FS_CardinalityType
<1>6. teller \in Injection(outbox[s], others)
  BY <1>3, <1>4 DEF Injection, IsInjective
<1> HIDE DEF s, others
<1>7. IsFiniteSet(outbox[s]) /\ Cardinality(outbox[s]) <= Cardinality(others)
  BY <1>5, <1>6, FS_Injection
<1>8. Cardinality(outbox[s]) \in Nat
  BY <1>7, FS_CardinalityType
<1>9. Cardinality(outbox[s]) + 1 \in 1..Cardinality(Agents)
  BY <1>5, <1>7, <1>8
<1> QED BY <1>9, EventsAssumption DEF NewEventId, s

\* What the events of the other services, and those there are, do not notice.
LEMMA EventIsAdded ==
    ASSUME AgentsInv, EventsAreTrue, UNCHANGED experiment, NEW a \in Present, Creates(a)
    PROVE  /\ EventsAreTrue'
           /\ \A s \in Services : outbox[s] \subseteq outbox'[s]
           /\ \A s \in Services : Committed(s) \subseteq Committed(s)'
<1> DEFINE s == Config(a).target
           i == NewEventId(s)
           new == [id |-> i, entity |-> a, case |-> Case, applied |-> FALSE]
           row == [id |-> a, key |-> a, case |-> Case, state |-> "COMMITTED"]
<1>1. /\ s \in Services /\ a \in Agents /\ a \notin Spenders /\ i \in EventIds
  BY SpendersHaveLanded, PresentAreConfigured, EventIdsSuffice
     DEF AgentsInv, AgentsTypeOK, Creates
<1>2. /\ outbox' = [outbox EXCEPT ![s] = @ \cup {new}]
      /\ effects' = [effects EXCEPT ![s] = @ \cup {row}]
  BY DEF Creates, CreateEffect
<1>3. new \in Events /\ new.entity = a /\ row.id = a /\ row.state = "COMMITTED"
  BY <1>1 DEF Events
<1> HIDE DEF new, row, s, i
<1>4. outbox' \in [Services -> SUBSET Events]
  BY <1>1, <1>2, <1>3 DEF EventsAreTrue
<1>5. /\ outbox'[s] = outbox[s] \cup {new} /\ effects'[s] = effects[s] \cup {row}
      /\ \A t \in Services : t # s => outbox'[t] = outbox[t] /\ effects'[t] = effects[t]
  BY <1>1, <1>2 DEF EventsAreTrue, AgentsInv, AgentsTypeOK
<1>6. \A t \in Services : t = s => Committed(t)' = Committed(t) \cup {a}
  BY <1>3, <1>5 DEF Committed
<1>7. \A t \in Services : t # s => Committed(t)' = Committed(t)
  BY <1>5 DEF Committed
<1>8. ASSUME NEW t \in Services, NEW v \in outbox'[t], NEW w \in outbox'[t]
      PROVE  v.entity \in Committed(t)' /\ (v.entity = w.entity => v = w)
  <2>1. \A u \in outbox[t] : u.entity \in Committed(t) /\ u.entity # a
    BY <1>1 DEF EventsAreTrue, Spenders
  <2>2. \A u, x \in outbox[t] : u.entity = x.entity => u = x
    BY DEF EventsAreTrue
  <2>3. (v \in outbox[t] \/ (t = s /\ v = new)) /\ (w \in outbox[t] \/ (t = s /\ w = new))
    BY <1>5
  <2>4. v.entity = w.entity => v = w
    BY <1>3, <2>1, <2>2, <2>3
  <2>5. v.entity \in Committed(t)'
    BY <1>3, <1>6, <1>7, <2>1, <2>3
  <2> QED BY <2>4, <2>5
<1>9. EventsAreTrue'
  BY <1>4, <1>8 DEF EventsAreTrue
<1>10. \A t \in Services : outbox[t] \subseteq outbox'[t]
  BY <1>5
<1> QED BY <1>6, <1>7, <1>9, <1>10

\* Marking and redelivering change no more of an event than whether it is applied.
LEMMA EventIsMarked ==
    ASSUME EventsAreTrue, UNCHANGED effects,
           NEW s \in Services, NEW v \in outbox[s], MarkApplied(s, v)
    PROVE  EventsAreTrue' /\ \A e \in CRM!Refs : CRM!Published(e) => CRM!Published(e)'
<1> DEFINE marked == [v EXCEPT !.applied = TRUE]
<1>1. v \in Events
  BY DEF EventsAreTrue
<1>2. marked \in Events /\ marked.id = v.id /\ marked.entity = v.entity
  BY <1>1 DEF Events
<1> HIDE DEF marked
<1>3. outbox' = [outbox EXCEPT ![s] = (@ \ {v}) \cup {marked}]
  BY DEF MarkApplied, marked
<1>4. outbox' \in [Services -> SUBSET Events]
  BY <1>2, <1>3 DEF EventsAreTrue
<1>5. /\ outbox'[s] = (outbox[s] \ {v}) \cup {marked}
      /\ \A t \in Services \ {s} : outbox'[t] = outbox[t]
  BY <1>3 DEF EventsAreTrue
<1>6. \A t \in Services : Committed(t)' = Committed(t)
  BY DEF Committed
<1>7. \A t \in Services : \A u, w \in outbox'[t] :
        u.entity \in Committed(t) /\ (u.entity = w.entity => u = w)
  BY <1>2, <1>5 DEF EventsAreTrue
<1>8. \A e \in CRM!Refs : CRM!Published(e) => CRM!Published(e)'
  BY <1>2, <1>5 DEF CRM!Published, CRM!Refs
<1> QED BY <1>4, <1>6, <1>7, <1>8 DEF EventsAreTrue

LEMMA EventsAreRedelivered ==
    ASSUME EventsAreTrue, NEW s \in Services, NEW c, CRM!Redeliver(s, c)
    PROVE  EventsAreTrue' /\ \A e \in CRM!Refs : CRM!Published(e) => CRM!Published(e)'
<1> DEFINE Again(v) == IF v.case = c THEN [v EXCEPT !.applied = FALSE] ELSE v
<1>1. \A v \in Events :
        Again(v) \in Events /\ Again(v).id = v.id /\ Again(v).entity = v.entity
  BY DEF Events
<1>2. outbox' = [outbox EXCEPT ![s] = {Again(v) : v \in outbox[s]}] /\ UNCHANGED effects
  BY DEF CRM!Redeliver
<1> HIDE DEF Again
<1>3. /\ outbox'[s] = {Again(v) : v \in outbox[s]}
      /\ \A t \in Services \ {s} : outbox'[t] = outbox[t]
      /\ outbox[s] \subseteq Events
  BY <1>2 DEF EventsAreTrue
<1>4. outbox' \in [Services -> SUBSET Events]
  <2>1. {Again(v) : v \in outbox[s]} \subseteq Events
    BY <1>1, <1>3
  <2> QED BY <1>2, <2>1 DEF EventsAreTrue
<1>5. \A t \in Services : Committed(t)' = Committed(t)
  BY <1>2 DEF Committed
<1>6. ASSUME NEW t \in Services, NEW u \in outbox'[t], NEW w \in outbox'[t]
      PROVE  u.entity \in Committed(t) /\ (u.entity = w.entity => u = w)
  <2>1. CASE t = s
    <3>1. PICK u0 \in outbox[s], w0 \in outbox[s] : u = Again(u0) /\ w = Again(w0)
      BY <1>3, <2>1
    <3>2. u.entity = u0.entity /\ w.entity = w0.entity
      BY <1>1, <1>3, <3>1
    <3> QED BY <2>1, <3>1, <3>2 DEF EventsAreTrue
  <2>2. CASE t # s
    BY <1>3, <2>2 DEF EventsAreTrue
  <2> QED BY <2>1, <2>2
<1>7. ASSUME NEW e \in CRM!Refs, CRM!Published(e)
      PROVE  CRM!Published(e)'
  <2>1. e[1] \in Services
    BY DEF CRM!Refs
  <2>2. CASE e[1] = s
    <3>1. PICK v \in outbox[s] : v.id = e[2]
      BY <1>7, <2>2 DEF CRM!Published
    <3>2. Again(v) \in outbox'[s] /\ Again(v).id = e[2]
      BY <1>1, <1>3, <3>1
    <3> QED BY <2>2, <3>2 DEF CRM!Published
  <2>3. CASE e[1] # s
    BY <1>3, <1>7, <2>1, <2>3 DEF CRM!Published
  <2> QED BY <2>2, <2>3
<1> QED BY <1>4, <1>5, <1>6, <1>7 DEF EventsAreTrue

-----------------------------------------------------------------------------
(***************************************************************************)
(* The CRM, which module ProjectionProofs speaks of, among its agents.     *)
(* Facts of that module do not carry over an INSTANCE.                     *)
(***************************************************************************)
OutboxesGrow ==
    /\ effects' \in [Services -> SUBSET CRM!Rows]
    /\ outbox' \in [Services -> SUBSET CRM!Events]
    /\ \A e \in CRM!Refs : CRM!Published(e) => CRM!Published(e)'

LEMMA OutboxesAreTyped ==
    ASSUME AgentsInv', EventsAreTrue',
           \A e \in CRM!Refs : CRM!Published(e) => CRM!Published(e)'
    PROVE  OutboxesGrow
BY DEF OutboxesGrow, AgentsInv, AgentsTypeOK, EventsAreTrue, Rows, Events, CRM!Rows,
       CRM!Events

\* Whatever the services do leaves the projectors alone.
LEMMA CrmWaits ==
    ASSUME CrmIsExact, OutboxesGrow, UNCHANGED crmSide
    PROVE  CrmIsExact'
<1>1. UNCHANGED <<appliedEvents, crmTotal, crmPc, crmCase, todo, service, batch, event, polled>>
  BY DEF crmSide
<1>2. CRM!TypeOK'
  BY <1>1 DEF CrmIsExact, CRM!TypeOK, OutboxesGrow
<1>3. CRM!TotalIsExact'
  BY <1>1 DEF CrmIsExact, CRM!TotalIsExact, OutboxesGrow
<1>4. CRM!HandedEventsArePublished'
  BY <1>1 DEF CrmIsExact, CRM!TypeOK, CRM!HandedEventsArePublished, OutboxesGrow, CRM!Refs
<1>5. CRM!FoldsAreExclusive'
  BY <1>1 DEF CrmIsExact, CRM!FoldsAreExclusive, CRM!Current
<1> QED BY <1>2, <1>3, <1>4, <1>5 DEF CrmIsExact

LEMMA CrmEnds ==
    ASSUME CrmIsExact, NEW p \in Projectors, NEW outcome \in {"finished", "failed"},
           CRM!End(p, outcome)
    PROVE  CrmIsExact' /\ UNCHANGED <<effects, outbox>>
<1>1. /\ UNCHANGED <<effects, outbox, appliedEvents, crmTotal, crmCase, polled>>
      /\ crmPc' = [crmPc EXCEPT ![p] = outcome]
  BY DEF CRM!End, CRM!Goto, CRM!effectVars, CRM!crmVars
<1>2. CRM!TypeOK'
  BY <1>1 DEF CrmIsExact, CRM!TypeOK, CRM!End
<1>3. /\ crmPc'[p] \notin {"polling", "applying", "inserting", "folding", "marking"}
      /\ \A q \in Projectors \ {p} :
            crmPc'[q] = crmPc[q] /\ service'[q] = service[q] /\ batch'[q] = batch[q]
            /\ event'[q] = event[q]
  BY <1>1 DEF CrmIsExact, CRM!TypeOK, CRM!End
<1>4. CRM!TotalIsExact'
  BY <1>1 DEF CrmIsExact, CRM!TotalIsExact, CRM!Published
<1>5. CRM!HandedEventsArePublished'
  BY <1>1, <1>3 DEF CrmIsExact, CRM!HandedEventsArePublished, CRM!Published
<1>6. CRM!FoldsAreExclusive'
  BY <1>1, <1>3 DEF CrmIsExact, CRM!FoldsAreExclusive, CRM!Current
<1> QED BY <1>1, <1>2, <1>4, <1>5, <1>6 DEF CrmIsExact

LEMMA CrmStarts ==
    ASSUME CrmIsExact, NEW p \in Projectors, NEW order \in Seq(Services),
           CRM!Start(p, Case, order)
    PROVE  CrmIsExact' /\ UNCHANGED <<effects, outbox>>
<1>1. UNCHANGED <<effects, outbox, appliedEvents, crmTotal, service, batch, event>>
  BY DEF CRM!Start, CRM!effectVars, CRM!crmVars
<1>2. CRM!TypeOK'
  BY <1>1 DEF CrmIsExact, CRM!TypeOK, CRM!Start, CRM!Goto
<1>3. /\ crmPc'[p] = "polling"
      /\ \A q \in Projectors \ {p} : crmPc'[q] = crmPc[q]
  BY DEF CrmIsExact, CRM!TypeOK, CRM!Start, CRM!Goto
<1>4. CRM!TotalIsExact'
  BY <1>1 DEF CrmIsExact, CRM!TotalIsExact, CRM!Published
<1>5. CRM!HandedEventsArePublished'
  BY <1>1, <1>3 DEF CrmIsExact, CRM!HandedEventsArePublished, CRM!Published
<1>6. CRM!FoldsAreExclusive'
  BY <1>1, <1>3 DEF CrmIsExact, CRM!FoldsAreExclusive, CRM!Current
<1> QED BY <1>1, <1>2, <1>4, <1>5, <1>6 DEF CrmIsExact

LEMMA CrmPolls ==
    ASSUME CrmIsExact, NEW p \in Projectors, CRM!Poll(p)
    PROVE  CrmIsExact' /\ UNCHANGED <<effects, outbox>>
<1> DEFINE s == Head(todo[p])
           ids == CRM!Unapplied(s, crmCase[p])
<1>1. /\ UNCHANGED <<effects, outbox, appliedEvents, crmTotal, crmCase, event>>
      /\ crmPc' = [crmPc EXCEPT ![p] = "applying"]
      /\ service' = [service EXCEPT ![p] = s]
      /\ batch' = [batch EXCEPT ![p] = ids]
      /\ polled' = [polled EXCEPT ![p] = @ \cup ({s} \X ids)]
      /\ todo' = [todo EXCEPT ![p] = Tail(@)]
      /\ todo[p] # <<>>
  BY DEF CRM!Poll, CRM!Goto, CRM!effectVars, CRM!crmVars
<1>2. s \in Services /\ Tail(todo[p]) \in Seq(Services)
  BY <1>1 DEF CrmIsExact, CRM!TypeOK
<1>3. ids \subseteq EventIds /\ \A i \in ids : CRM!Published(<<s, i>>)
  BY <1>2 DEF CrmIsExact, CRM!TypeOK, CRM!Unapplied, CRM!Published, CRM!Events
<1> HIDE DEF s, ids
<1>4. {s} \X ids \subseteq CRM!Refs
  BY <1>2, <1>3 DEF CRM!Refs
<1>5. CRM!TypeOK'
  BY <1>1, <1>2, <1>3, <1>4 DEF CrmIsExact, CRM!TypeOK
<1>6. /\ crmPc'[p] = "applying" /\ service'[p] = s /\ batch'[p] = ids
      /\ \A q \in Projectors \ {p} :
            crmPc'[q] = crmPc[q] /\ service'[q] = service[q] /\ batch'[q] = batch[q]
  BY <1>1 DEF CrmIsExact, CRM!TypeOK
<1>7. CRM!TotalIsExact'
  BY <1>1 DEF CrmIsExact, CRM!TotalIsExact, CRM!Published
<1>8. CRM!HandedEventsArePublished'
  BY <1>1, <1>2, <1>3, <1>6 DEF CrmIsExact, CRM!HandedEventsArePublished, CRM!Published
<1>9. CRM!FoldsAreExclusive'
  BY <1>1, <1>6 DEF CrmIsExact, CRM!FoldsAreExclusive, CRM!Current
<1> QED BY <1>1, <1>5, <1>7, <1>8, <1>9 DEF CrmIsExact

LEMMA CrmChecks ==
    ASSUME CrmIsExact, NEW p \in Projectors, CRM!CheckApplied(p)
    PROVE  CrmIsExact' /\ UNCHANGED <<effects, outbox>>
<1>1. PICK i \in batch[p] :
        /\ event' = [event EXCEPT ![p] = i]
        /\ crmPc' = [crmPc EXCEPT ![p] =
                        IF CRM!AlreadyApplied(p, i) THEN "marking" ELSE "inserting"]
  BY DEF CRM!CheckApplied, CRM!Goto
<1>2. /\ UNCHANGED <<effects, outbox, appliedEvents, crmTotal, crmCase, todo, service, batch,
                      polled>>
      /\ crmPc[p] = "applying"
  BY DEF CRM!CheckApplied, CRM!effectVars, CRM!crmVars
<1>3. i \in EventIds
  BY DEF CrmIsExact, CRM!TypeOK
<1>4. CRM!TypeOK'
  BY <1>1, <1>2, <1>3 DEF CrmIsExact, CRM!TypeOK
<1>5. /\ event'[p] = i
      /\ crmPc'[p] \in {"marking", "inserting"}
      /\ \A q \in Projectors \ {p} : crmPc'[q] = crmPc[q] /\ event'[q] = event[q]
  BY <1>1 DEF CrmIsExact, CRM!TypeOK
<1>6. CRM!TotalIsExact'
  BY <1>2 DEF CrmIsExact, CRM!TotalIsExact, CRM!Published
<1>7. CRM!HandedEventsArePublished'
  BY <1>1, <1>2, <1>5 DEF CrmIsExact, CRM!HandedEventsArePublished, CRM!Published
<1>8. CRM!FoldsAreExclusive'
  BY <1>2, <1>5 DEF CrmIsExact, CRM!FoldsAreExclusive, CRM!Current
<1> QED BY <1>2, <1>4, <1>6, <1>7, <1>8 DEF CrmIsExact

LEMMA CrmInserts ==
    ASSUME CrmIsExact, NEW p \in Projectors, CRM!InsertApplied(p)
    PROVE  CrmIsExact' /\ UNCHANGED <<effects, outbox>>
<1>1. /\ UNCHANGED <<effects, outbox, appliedEvents, crmTotal, crmCase, todo, service, batch,
                      event, polled>>
      /\ crmPc[p] = "inserting" /\ crmPc' = [crmPc EXCEPT ![p] = "folding"]
  BY DEF CRM!InsertApplied, CRM!Goto, CRM!effectVars, CRM!crmVars
<1>2. CRM!TypeOK'
  BY <1>1 DEF CrmIsExact, CRM!TypeOK
<1>3. /\ crmPc'[p] = "folding"
      /\ \A q \in Projectors \ {p} : crmPc'[q] = crmPc[q]
  BY <1>1 DEF CrmIsExact, CRM!TypeOK
<1>4. /\ CRM!Current(p) \notin appliedEvents
      /\ \A q \in Projectors \ {p} : crmPc[q] = "folding" => CRM!Current(q) # CRM!Current(p)
  BY DEF CRM!InsertApplied, CRM!KeyFree, CRM!BeingInserted
<1>5. CRM!TotalIsExact'
  BY <1>1 DEF CrmIsExact, CRM!TotalIsExact, CRM!Published
<1>6. CRM!HandedEventsArePublished'
  BY <1>1, <1>3 DEF CrmIsExact, CRM!HandedEventsArePublished, CRM!Published
<1>7. CRM!FoldsAreExclusive'
  BY <1>1, <1>3, <1>4 DEF CrmIsExact, CRM!FoldsAreExclusive, CRM!Current
<1> QED BY <1>1, <1>2, <1>5, <1>6, <1>7 DEF CrmIsExact

LEMMA CrmFolds ==
    ASSUME CrmIsExact, NEW p \in Projectors, CRM!Fold(p)
    PROVE  CrmIsExact' /\ UNCHANGED <<effects, outbox>>
<1>1. /\ UNCHANGED <<effects, outbox, crmCase, todo, service, batch, event, polled>>
      /\ crmPc[p] = "folding" /\ crmPc' = [crmPc EXCEPT ![p] = "marking"]
      /\ crmTotal' = [crmTotal EXCEPT ![CRM!Current(p)] = @ + 1]
      /\ appliedEvents' = appliedEvents \cup {CRM!Current(p)}
  BY DEF CRM!Fold, CRM!Goto, CRM!effectVars
<1>2. CRM!Current(p) \in CRM!Refs /\ CRM!Published(CRM!Current(p))
  BY <1>1 DEF CrmIsExact, CRM!TypeOK, CRM!HandedEventsArePublished, CRM!Current, CRM!Refs
<1>3. CRM!TypeOK'
  BY <1>1, <1>2 DEF CrmIsExact, CRM!TypeOK
<1>4. /\ crmPc'[p] = "marking"
      /\ \A q \in Projectors \ {p} : crmPc'[q] = crmPc[q]
      /\ \A q \in Projectors : CRM!Current(q)' = CRM!Current(q)
      /\ \A e \in CRM!Refs : CRM!Published(e)' = CRM!Published(e)
  BY <1>1 DEF CrmIsExact, CRM!TypeOK, CRM!Current, CRM!Published
<1>5. CRM!TotalIsExact'
  <2>1. CRM!Current(p) \notin appliedEvents /\ crmTotal[CRM!Current(p)] = 0
    BY <1>1, <1>2 DEF CrmIsExact, CRM!FoldsAreExclusive, CRM!TotalIsExact
  <2>2. /\ crmTotal'[CRM!Current(p)] = 1
        /\ \A e \in CRM!Refs \ {CRM!Current(p)} : crmTotal'[e] = crmTotal[e]
    BY <1>1, <1>2, <2>1 DEF CrmIsExact, CRM!TypeOK
  <2> QED BY <1>1, <1>2, <1>4, <2>2 DEF CrmIsExact, CRM!TotalIsExact
<1>6. CRM!HandedEventsArePublished'
  BY <1>1, <1>4 DEF CrmIsExact, CRM!HandedEventsArePublished, CRM!Published
<1>7. CRM!FoldsAreExclusive'
  BY <1>1, <1>4 DEF CrmIsExact, CRM!FoldsAreExclusive
<1> QED BY <1>1, <1>3, <1>5, <1>6, <1>7 DEF CrmIsExact

LEMMA CrmGoesOn ==
    ASSUME CrmIsExact, NEW p \in Projectors, CRM!NextService(p)
    PROVE  CrmIsExact' /\ UNCHANGED <<effects, outbox>>
<1>1. /\ UNCHANGED <<effects, outbox, appliedEvents, crmTotal, crmCase, todo, service, batch,
                      event, polled>>
      /\ crmPc' = [crmPc EXCEPT ![p] = "polling"]
  BY DEF CRM!NextService, CRM!Goto, CRM!effectVars, CRM!crmVars
<1>2. CRM!TypeOK'
  BY <1>1 DEF CrmIsExact, CRM!TypeOK
<1>3. /\ crmPc'[p] = "polling"
      /\ \A q \in Projectors \ {p} : crmPc'[q] = crmPc[q]
  BY <1>1 DEF CrmIsExact, CRM!TypeOK
<1>4. CRM!TotalIsExact'
  BY <1>1 DEF CrmIsExact, CRM!TotalIsExact, CRM!Published
<1>5. CRM!HandedEventsArePublished' /\ CRM!FoldsAreExclusive'
  BY <1>1, <1>3 DEF CrmIsExact, CRM!HandedEventsArePublished, CRM!FoldsAreExclusive,
                    CRM!Current, CRM!Published
<1> QED BY <1>1, <1>2, <1>4, <1>5 DEF CrmIsExact

LEMMA CrmMarks ==
    ASSUME AgentsInv', EventsAreTrue, CrmIsExact, NEW p \in Projectors, CRM!Mark(p)
    PROVE  EventsAreTrue' /\ CrmIsExact'
<1>1. /\ UNCHANGED <<appliedEvents, crmTotal, crmCase, todo, service, polled>>
      /\ crmPc[p] = "marking" /\ crmPc' = [crmPc EXCEPT ![p] = "applying"]
      /\ batch' = [batch EXCEPT ![p] = @ \ {event[p]}]
      /\ event' = [event EXCEPT ![p] = NoEvent]
  BY DEF CRM!Mark, CRM!MarkedLast, CRM!RestOf, CRM!Goto, CRM!crmVars
<1>2. PICK v \in outbox[service[p]] : MarkApplied(service[p], v)
  BY DEF CRM!Mark, CRM!MarkApplied, MarkApplied
<1>3. service[p] \in Services
  BY <1>1 DEF CrmIsExact, CRM!HandedEventsArePublished
<1>4. EventsAreTrue' /\ OutboxesGrow
  BY <1>2, <1>3, EventIsMarked, OutboxesAreTyped DEF MarkApplied
<1>5. CRM!TypeOK'
  BY <1>1, <1>4 DEF CrmIsExact, CRM!TypeOK, OutboxesGrow
<1>6. /\ crmPc'[p] = "applying" /\ batch'[p] = batch[p] \ {event[p]}
      /\ \A q \in Projectors \ {p} :
            crmPc'[q] = crmPc[q] /\ batch'[q] = batch[q] /\ event'[q] = event[q]
  BY <1>1 DEF CrmIsExact, CRM!TypeOK
<1>7. CRM!TotalIsExact'
  BY <1>1, <1>4 DEF CrmIsExact, CRM!TotalIsExact, OutboxesGrow
<1>8. CRM!HandedEventsArePublished'
  BY <1>1, <1>4, <1>6 DEF CrmIsExact, CRM!TypeOK, CRM!HandedEventsArePublished,
                          OutboxesGrow, CRM!Refs
<1>9. CRM!FoldsAreExclusive'
  BY <1>1, <1>6 DEF CrmIsExact, CRM!FoldsAreExclusive, CRM!Current
<1> QED BY <1>4, <1>5, <1>7, <1>8, <1>9 DEF CrmIsExact

LEMMA EventsStay ==
    ASSUME EventsAreTrue, UNCHANGED <<effects, outbox>>
    PROVE  EventsAreTrue' /\ \A e \in CRM!Refs : CRM!Published(e) => CRM!Published(e)'
BY DEF EventsAreTrue, Committed, CRM!Published

LEMMA ProjectorsAreExact ==
    ASSUME RunTypeOK, AgentsInv', EventsAreTrue, CrmIsExact, NEW p \in Projectors,
           ProjectorMoves(p)
    PROVE  EventsAreTrue' /\ CrmIsExact'
<1>1. CASE CRM!Mark(p)
  BY <1>1, CrmMarks
<1>2. CASE CRM!Poll(p) \/ CRM!CheckApplied(p) \/ CRM!InsertApplied(p)
  BY <1>2, CrmPolls, CrmChecks, CrmInserts, EventsStay
<1>3. CASE CRM!Fold(p) \/ CRM!NextService(p)
  BY <1>3, CrmFolds, CrmGoesOn, EventsStay
<1>4. CASE CRM!InsertFails(p) \/ CRM!Finish(p) \/ CRM!Fail(p)
  BY <1>4, CrmEnds, EventsStay DEF CRM!InsertFails, CRM!Finish, CRM!Fail
<1>5. CASE CRM!Start(p, Case, schedule.order)
  <2>1. schedule.order \in Seq(Services)
    BY ScheduleAssumption DEF RunTypeOK
  <2> QED BY <1>5, <2>1, CrmStarts, EventsStay
<1> QED BY <1>1, <1>2, <1>3, <1>4, <1>5 DEF ProjectorMoves, CRM!Proceed

LEMMA AgentsTellOfWhatTheyDo ==
    ASSUME AgentsInv, AgentsInv', EventsAreTrue, CrmIsExact, NEW a \in Present, AgentMoves(a),
           UNCHANGED crmSide
    PROVE  EventsAreTrue' /\ CrmIsExact'
<1>1. UNCHANGED experiment /\ (UNCHANGED stores \/ Creates(a))
  BY WhatAgentsDo DEF GoesElsewhere
<1>2. CASE UNCHANGED stores
  BY <1>2, EventsStay, OutboxesAreTyped, CrmWaits DEF stores
<1>3. CASE Creates(a)
  <2>1. EventsAreTrue' /\ \A s \in Services : outbox[s] \subseteq outbox'[s]
    BY <1>1, <1>3, EventIsAdded
  <2>2. \A e \in CRM!Refs : CRM!Published(e) => CRM!Published(e)'
    BY <2>1 DEF CRM!Published, CRM!Refs
  <2> QED BY <2>1, <2>2, OutboxesAreTyped, CrmWaits
<1> QED BY <1>1, <1>2, <1>3

LEMMA RedeliveriesAreTrue ==
    ASSUME AgentsInv', EventsAreTrue, CrmIsExact, redelivering \in [Redeliverers -> Seq(Services)],
           NEW r \in Redeliverers, Redelivers(r), UNCHANGED crmSide
    PROVE  /\ EventsAreTrue' /\ CrmIsExact'
           /\ redelivering' \in [Redeliverers -> Seq(Services)]
<1>1. /\ redelivering[r] \in Seq(Services) /\ redelivering[r] # <<>>
      /\ CRM!Redeliver(Head(redelivering[r]), Case)
      /\ redelivering' = [redelivering EXCEPT ![r] = Tail(@)]
  BY DEF Redelivers
<1>2. Head(redelivering[r]) \in Services /\ Tail(redelivering[r]) \in Seq(Services)
  BY <1>1
<1>3. /\ EventsAreTrue'
      /\ \A e \in CRM!Refs : CRM!Published(e) => CRM!Published(e)'
  BY <1>1, <1>2, EventsAreRedelivered
<1>4. redelivering' \in [Redeliverers -> Seq(Services)]
  BY <1>1, <1>2
<1> QED BY <1>3, <1>4, OutboxesAreTyped, CrmWaits

LEMMA ViewsStayExact ==
    ASSUME LabRunInv, AgentsInv', Next \/ UNCHANGED runVars,
           EventsAreTrue, CrmIsExact, redelivering \in [Redeliverers -> Seq(Services)]
    PROVE  /\ EventsAreTrue' /\ CrmIsExact'
           /\ redelivering' \in [Redeliverers -> Seq(Services)]
<1>1. AgentsInv /\ RunTypeOK
  BY DEF LabRunInv
<1>2. CASE \E a \in Present : AgentMoves(a) /\ UNCHANGED <<crmSide, redelivering>>
  BY <1>1, <1>2, AgentsTellOfWhatTheyDo
<1>3. CASE \E p \in Projectors : ProjectorMoves(p) /\ UNCHANGED <<agentSide, redelivering>>
  BY <1>1, <1>3, ProjectorsAreExact
<1>4. CASE \E r \in Redeliverers : Redelivers(r) /\ UNCHANGED <<agentSide, crmSide>>
  BY <1>4, RedeliveriesAreTrue
<1>5. CASE \E r \in Redeliverers : /\ redelivering' = [redelivering EXCEPT ![r] = ServiceOrder]
                                   /\ UNCHANGED <<vars, crmSide>>
  <2>1. ServiceOrder \in Seq(Services)
    BY OrderIsOfServices
  <2>2. redelivering' \in [Redeliverers -> Seq(Services)]
    BY <1>5, <2>1
  <2>3. UNCHANGED <<effects, outbox>> /\ UNCHANGED crmSide
    BY <1>5 DEF vars, stores
  <2> QED BY <2>2, <2>3, EventsStay, OutboxesAreTyped, CrmWaits
<1>6. CASE UNCHANGED actorVars
  BY <1>6, EventsStay, OutboxesAreTyped, CrmWaits DEF actorVars, vars, stores
<1> QED BY <1>2, <1>3, <1>4, <1>5, <1>6, WhoDoesWhat

\* The CRM's total is one of effects there are, each counted once.
LEMMA ProjectedIsSpent ==
    ASSUME AgentsInv, EventsAreTrue, CrmIsExact
    PROVE  Projected \in Nat /\ Projected <= SumOf(Spenders)
<1> DEFINE Told(e) == CHOOSE v \in outbox[e[1]] : v.id = e[2]
           teller == [e \in appliedEvents |-> Told(e).entity]
           amount == [a \in Spenders |-> Amount(a)]
           projected == [e \in appliedEvents |-> ProjectedAmount(e)]
<1>1. /\ experiment \in Experiments /\ Spenders \subseteq Present
      /\ \A s \in Services : Committed(s) = {a \in Spenders : Config(a).target = s}
  BY SpendersHaveLanded DEF AgentsInv, AgentsTypeOK
<1>2. IsFiniteSet(Spenders) /\ \A a \in Spenders : amount[a] = Amount(a) /\ Amount(a) \in Nat
  BY <1>1, PresentAreConfigured, FS_Subset
<1>3. ASSUME NEW e \in appliedEvents
      PROVE  /\ e[1] \in Services /\ e = <<e[1], e[2]>> /\ crmTotal[e] = 1
             /\ Told(e) \in outbox[e[1]] /\ Told(e).id = e[2]
  <2>1. e \in CRM!Refs
    BY <1>3 DEF CrmIsExact, CRM!TypeOK
  <2>2. crmTotal[e] = 1 /\ CRM!Published(e)
    BY <1>3, <2>1 DEF CrmIsExact, CRM!TotalIsExact
  <2> QED BY <2>1, <2>2 DEF CRM!Refs, CRM!Published
<1>4. ASSUME NEW e \in appliedEvents
      PROVE  Told(e).entity \in Spenders /\ Config(Told(e).entity).target = e[1]
  BY <1>1, <1>3 DEF EventsAreTrue
<1>5. ASSUME NEW e \in appliedEvents, NEW f \in appliedEvents, Told(e).entity = Told(f).entity
      PROVE  e = f
  <2>1. e[1] = f[1]
    BY <1>4, <1>5
  <2>2. Told(e) = Told(f)
    BY <1>3, <1>5, <2>1 DEF EventsAreTrue
  <2> QED BY <1>3, <2>1, <2>2
<1>6. \A e \in appliedEvents : teller[e] = Told(e).entity
  OBVIOUS
<1>7. ASSUME NEW e \in appliedEvents
      PROVE  projected[e] = amount[teller[e]]
  <2>1. projected[e] = crmTotal[e] * Amount(Told(e).entity)
    BY DEF ProjectedAmount
  <2>2. crmTotal[e] = 1 /\ Told(e).entity \in Spenders
    BY <1>3, <1>4
  <2> HIDE DEF projected, amount, Told
  <2>3. Amount(Told(e).entity) \in Nat /\ amount[Told(e).entity] = Amount(Told(e).entity)
    BY <1>2, <2>2
  <2>4. teller[e] = Told(e).entity
    BY <1>6
  <2> HIDE DEF teller
  <2> QED BY <2>1, <2>2, <2>3, <2>4
<1> HIDE DEF Told, amount, projected
<1>8. teller \in [appliedEvents -> Spenders]
  BY <1>4
<1> HIDE DEF teller
<1>9. \A e, f \in appliedEvents : teller[e] = teller[f] => e = f
  BY <1>5, <1>6
<1>10. \A a \in Spenders : amount[a] \in Nat
  BY <1>2
<1>11. /\ Total(projected, appliedEvents) \in Nat
       /\ Total(projected, appliedEvents) <= Total(amount, Spenders)
  BY <1>2, <1>7, <1>8, <1>9, <1>10, TotalByName
<1> QED BY <1>11 DEF Projected, SumOf, amount, projected

\* What was spent stays spent.
LEMMA SpendingGrows ==
    ASSUME LabRunInv, LabRunInv', EventsAreTrue, Next \/ UNCHANGED runVars
    PROVE  /\ UNCHANGED experiment
           /\ SumOf(Spenders)' \in Nat /\ SumOf(Spenders) <= SumOf(Spenders)'
           /\ \A s \in Services :
                TotalCommitted(s)' \in Nat /\ TotalCommitted(s) <= TotalCommitted(s)'
<1>1. UNCHANGED experiment
  BY ScheduleStays DEF LabRunInv, RunTypeOK
<1>2. AgentsInv /\ AgentsInv' /\ experiment \in Experiments
  BY DEF LabRunInv, AgentsInv, AgentsTypeOK
<1>3. UNCHANGED effects \/ \E a \in Present : Creates(a)
  <2>1. \A a \in Present : AgentMoves(a) => UNCHANGED effects \/ Creates(a)
    BY WhatAgentsDo DEF stores
  <2>2. \A p \in Projectors : ProjectorMoves(p) => UNCHANGED effects
    BY CrmSpendsNothing DEF ProjectorMoves
  <2>3. \A r \in Redeliverers : Redelivers(r) => UNCHANGED effects
    BY DEF Redelivers, CRM!Redeliver
  <2>4. UNCHANGED actorVars \/ UNCHANGED vars => UNCHANGED effects
    BY DEF actorVars, vars, stores
  <2> QED BY <2>1, <2>2, <2>3, <2>4, WhoDoesWhat
<1>4. \A s \in Services : Committed(s) \subseteq Committed(s)'
  <2>1. CASE UNCHANGED effects
    BY <2>1 DEF Committed
  <2>2. CASE \E a \in Present : Creates(a)
    BY <1>1, <1>2, <2>2, EventIsAdded
  <2> QED BY <1>3, <2>1, <2>2
<1>5. Spenders \subseteq Spenders'
  BY <1>4 DEF Spenders
<1>6. Present' = Present /\ \A a : Amount(a)' = Amount(a)
  BY <1>1 DEF Present, Amount, Config
<1>7. Spenders' \subseteq Present /\ \A s \in Services : Committed(s)' \subseteq Spenders'
  <2>1. Spenders' \subseteq Present'
    BY <1>2 DEF AgentsInv, AgentsTypeOK, EffectsAreOwn, Spenders, Committed
  <2> QED BY <1>6, <2>1 DEF Spenders
<1>8. /\ SumOf(Spenders)' = SumOf(Spenders')
      /\ \A s \in Services : TotalCommitted(s)' = SumOf(Committed(s)')
  BY <1>6 DEF SumOf, TotalCommitted
<1> QED BY <1>1, <1>2, <1>4, <1>5, <1>7, <1>8, SumIsMonotone, SumIsNatural DEF TotalCommitted

LEMMA ReadsAreSpent ==
    ASSUME AgentsInv
    PROVE  /\ SumOf(Spenders) \in Nat
           /\ TotalCommitted(ServiceOrder[1]) \in Nat /\ TotalCommitted(ServiceOrder[2]) \in Nat
           /\ TotalCommitted(ServiceOrder[1]) <= SumOf(Spenders)
           /\ TotalCommitted(ServiceOrder[1]) + TotalCommitted(ServiceOrder[2]) = SumOf(Spenders)
<1>1. ServiceOrder[1] \in Services /\ ServiceOrder[2] \in Services
  BY ExperimentAssumption
<1>2. /\ TotalCommitted(ServiceOrder[1]) \in Nat
      /\ TotalCommitted(ServiceOrder[2]) \in Nat
  BY <1>1, ReadsAreNumbers
<1> QED BY <1>2, OracleSeesEverySpender

\* What an agent saw remains true wherever it goes from there, and it declines only for
\* what it saw.
LEMMA SightsStay ==
    ASSUME LabRunInv, LabRunInv', EventsAreTrue, Next \/ UNCHANGED runVars,
           observed \in [Agents -> Nat], NEW a \in Agents, SeesNoMore(a),
           observed'[a] = observed[a],
           pc'[a] \in {"idle", "reading"} => pc[a] \in {"idle", "reading"},
           pc'[a] = "readingRest" => pc[a] = "readingRest",
           pc'[a] = "declined" => pc[a] = "declined" \/ WouldExceed(a)
    PROVE  SeesNoMore(a)'
<1>1. /\ UNCHANGED experiment
      /\ SumOf(Spenders)' \in Nat /\ SumOf(Spenders) <= SumOf(Spenders)'
      /\ TotalCommitted(ServiceOrder[1])' \in Nat
      /\ TotalCommitted(ServiceOrder[1]) <= TotalCommitted(ServiceOrder[1])'
  BY SpendingGrows, ExperimentAssumption
<1>2. SumOf(Spenders) \in Nat /\ TotalCommitted(ServiceOrder[1]) \in Nat
  BY ReadsAreSpent DEF LabRunInv
<1>3. observed[a] \in Nat
  OBVIOUS
<1>4. Amount(a)' = Amount(a)
  BY <1>1 DEF Amount, Config
<1> QED BY <1>1, <1>2, <1>3, <1>4 DEF SeesNoMore, WouldExceed

\* An agent adds what a service answers, or takes what the CRM does.
LEMMA ObservingIsTrue ==
    ASSUME AgentsInv, EventsAreTrue, CrmIsExact, observed \in [Agents -> Nat],
           NEW a \in Agents, SeesNoMore(a), Observes(a), UNCHANGED <<stores, experiment>>
    PROVE  /\ observed' \in [Agents -> Nat]
           /\ \A b \in Agents \ {a} : observed'[b] = observed[b] /\ pc'[b] = pc[b]
           /\ SeesNoMore(a)'
<1> DEFINE one == TotalCommitted(ServiceOrder[1])
           two == TotalCommitted(ServiceOrder[2])
           all == SumOf(Spenders)
<1>1. /\ one \in Nat /\ two \in Nat /\ all \in Nat /\ one <= all /\ one + two = all
      /\ Projected \in Nat /\ Projected <= all
  BY ReadsAreSpent, ProjectedIsSpent
<1>2. one' = one /\ all' = all
  BY DEF stores, TotalCommitted, SumOf, Spenders, Committed, Amount, Config
<1>3. pc \in [Agents -> Places] /\ observed[a] \in Nat
  BY DEF AgentsInv, AgentsTypeOK
<1>4. PICK n \in {one, two, Projected} :
        /\ observed' = [observed EXCEPT ![a] = @ + n]
        /\ \/ n = one /\ pc[a] = "reading" /\ pc' = [pc EXCEPT ![a] = "readingRest"]
           \/ n = two /\ pc[a] = "readingRest" /\ pc' = [pc EXCEPT ![a] = "deciding"]
           \/ n = Projected /\ pc[a] = "reading" /\ pc' = [pc EXCEPT ![a] = "deciding"]
  BY DEF Observes, ObserveFirst, ObserveRest, ObserveCrm, Observe, Goto
<1>5. /\ pc[a] = "reading" => observed[a] = 0
      /\ pc[a] = "readingRest" => observed[a] <= one
  BY DEF SeesNoMore
<1> HIDE DEF one, two, all
<1>6. n \in Nat
  BY <1>1, <1>4
<1>7. /\ observed' \in [Agents -> Nat] /\ observed'[a] = observed[a] + n
      /\ \A b \in Agents \ {a} : observed'[b] = observed[b] /\ pc'[b] = pc[b]
  BY <1>3, <1>4, <1>6
<1>8. /\ pc'[a] \in {"readingRest", "deciding"}
      /\ pc'[a] = "readingRest" => observed'[a] <= one
      /\ observed'[a] <= all
  BY <1>1, <1>3, <1>4, <1>5, <1>7
<1>9. SeesNoMore(a)'
  BY <1>2, <1>8 DEF SeesNoMore, one, all
<1> QED BY <1>7, <1>9

LEMMA ViewsStayTrue ==
    ASSUME LabRunInv, LabRunInv', ViewsInv, Next \/ UNCHANGED runVars
    PROVE  observed' \in [Agents -> Nat] /\ \A a \in Agents : SeesNoMore(a)'
<1>1. /\ AgentsInv /\ pc \in [Agents -> Places] /\ Present \subseteq Agents
      /\ EventsAreTrue /\ CrmIsExact /\ observed \in [Agents -> Nat]
      /\ \A a \in Agents : SeesNoMore(a)
  BY PresentAreConfigured DEF LabRunInv, AgentsInv, AgentsTypeOK, ViewsInv
<1>2. CASE UNCHANGED <<pc, observed>>
  BY <1>1, <1>2, SightsStay
<1>3. ASSUME NEW a \in Present, AgentMoves(a)
      PROVE  observed' \in [Agents -> Nat] /\ \A b \in Agents : SeesNoMore(b)'
  <2>1. \A b \in Agents \ {a} : pc'[b] = pc[b]
    BY <1>1, <1>3, AgentMovesAlone DEF AgentMoves, OthersWait, Goto
  <2>2. CASE Observes(a) /\ UNCHANGED <<stores, experiment>>
    BY <1>1, <2>1, <2>2, ObservingIsTrue, SightsStay
  <2>3. CASE UNCHANGED observed /\ (Start(a) \/ Decide(a) \/ GoesElsewhere(a))
    <3>1. /\ pc'[a] \in {"idle", "reading"} => pc[a] \in {"idle", "reading"}
          /\ pc'[a] = "readingRest" => pc[a] = "readingRest"
          /\ pc'[a] = "declined" => pc[a] = "declined" \/ WouldExceed(a)
      <4>1. CASE Start(a)
        BY <1>1, <4>1 DEF Start, Goto
      <4>2. CASE Decide(a)
        BY <1>1, <4>2 DEF Decide, Goto
      <4>3. CASE GoesElsewhere(a)
        BY <1>1, <4>3 DEF GoesElsewhere, Goto
      <4> QED BY <2>3, <4>1, <4>2, <4>3
    <3> QED BY <1>1, <2>1, <2>3, <3>1, SightsStay
  <2> QED BY <1>3, <2>2, <2>3, WhatAgentsDo DEF GoesElsewhere
<1>4. UNCHANGED agentSide \/ UNCHANGED vars \/ UNCHANGED actorVars => UNCHANGED <<pc, observed>>
  BY DEF agentSide, vars, actorVars, agentVars
<1>5. LabRunInv /\ (Next \/ UNCHANGED runVars)
  OBVIOUS
<1> QED BY <1>2, <1>3, <1>4, <1>5, WhoDoesWhat

LEMMA ViewsBegin ==
    ASSUME Init
    PROVE  ViewsInv
<1>1. /\ outbox = [s \in Services |-> {}] /\ CRM!Init
      /\ redelivering = [r \in Redeliverers |-> <<>>]
      /\ observed = [a \in Agents |-> 0] /\ pc = [a \in Agents |-> "idle"]
  BY DEF Init, AgentsInit, EffectsInit
<1>2. EventsAreTrue
  BY <1>1 DEF EventsAreTrue
<1>3. CRM!TypeOK
  BY <1>1 DEF CRM!Init, CRM!EffectsInit, CRM!TypeOK, CRM!Refs
<1>4. CRM!HandedEventsArePublished /\ CRM!FoldsAreExclusive /\ CRM!TotalIsExact
  BY <1>1 DEF CRM!Init, CRM!HandedEventsArePublished, CRM!FoldsAreExclusive, CRM!TotalIsExact
<1>5. SumOf(Spenders) \in Nat
  BY AgentsBegin, ReadsAreSpent
<1>6. ASSUME NEW a \in Agents PROVE SeesNoMore(a)
  BY <1>1, <1>5 DEF SeesNoMore
<1>7. redelivering \in [Redeliverers -> Seq(Services)] /\ observed \in [Agents -> Nat]
  BY <1>1
<1> QED BY <1>2, <1>3, <1>4, <1>6, <1>7 DEF ViewsInv, CrmIsExact

LEMMA ViewsAreTrue == Spec => []ViewsInv
<1>1. LabRunInv /\ LabRunInv' /\ ViewsInv /\ [Next]_runVars => ViewsInv'
  <2> SUFFICES ASSUME LabRunInv, LabRunInv', ViewsInv, Next \/ UNCHANGED runVars
               PROVE  ViewsInv'
    OBVIOUS
  <2>1. /\ EventsAreTrue' /\ CrmIsExact'
        /\ redelivering' \in [Redeliverers -> Seq(Services)]
    BY ViewsStayExact DEF ViewsInv, LabRunInv
  <2> QED BY <2>1, ViewsStayTrue DEF ViewsInv
<1> QED BY <1>1, ViewsBegin, Invariance, PTL DEF Spec

\* A diligent agent that declines is right to: whatever it saw, from the services one
\* after the other or from the CRM's projection, however stale, redelivered or partly
\* projected (agents/diligent/policy.py, observed_compensation and DiligentAgent.handle),
\* its action would have broken the ceiling.
THEOREM DeclinesAreJustified == Spec => []DeclinesAreEarned
<1>1. ASSUME LabRunInv, ViewsInv PROVE DeclinesAreEarned
  <2>1. Present \subseteq Agents /\ \A a \in Present : Amount(a) \in Nat
    BY <1>1, PresentAreConfigured DEF LabRunInv, AgentsInv, AgentsTypeOK
  <2>2. SumOf(Spenders) \in Nat /\ Authorized \in Nat
    BY <1>1, ReadsAreSpent, ExperimentAssumption DEF LabRunInv
  <2>3. ASSUME NEW a \in Present, pc[a] = "declined"
        PROVE  SumOf(Spenders) + Amount(a) > Authorized
    <3>1. /\ observed[a] \in Nat /\ observed[a] <= SumOf(Spenders)
          /\ observed[a] + Amount(a) > Authorized
      BY <1>1, <2>1, <2>3 DEF ViewsInv, SeesNoMore
    <3> QED BY <2>1, <2>2, <3>1
  <2> QED BY <2>3 DEF DeclinesAreEarned
<1> QED BY <1>1, Invariance, ViewsAreTrue, PTL

\* A step of the run is one of the CRM's, or of the services' it hears of, or none.
LEMMA StepsAreProjected ==
    ASSUME LabRunInv, LabRunInv', ViewsInv, Next \/ UNCHANGED runVars
    PROVE  CRM!Next \/ UNCHANGED CRM!vars
<1> USE DEF CRM!vars, CRM!effectVars, CRM!crmVars, CRM!projectorVars
<1>1. /\ AgentsInv /\ EventsAreTrue /\ schedule \in Schedules /\ Present \subseteq Agents
      /\ redelivering \in [Redeliverers -> Seq(Services)]
  BY PresentAreConfigured DEF LabRunInv, AgentsInv, AgentsTypeOK, ViewsInv, RunTypeOK
<1>2. ASSUME NEW a \in Present, AgentMoves(a), UNCHANGED crmSide
      PROVE  CRM!Next \/ UNCHANGED CRM!vars
  <2>1. CASE UNCHANGED stores
    BY <1>2, <2>1 DEF stores, crmSide
  <2>2. CASE Creates(a)
    <3>1. /\ Config(a).target \in Services /\ NewEventId(Config(a).target) \in EventIds
      BY <1>1, <2>2, EventIdsSuffice, PresentAreConfigured DEF Creates, AgentsInv, AgentsTypeOK
    <3>2. CRM!Unmade(a)
      BY <1>1, <2>2 DEF CRM!Unmade, Creates, Landed, AgentsInv, EffectsAreOwn
    <3>3. CRM!CreateEffect(Config(a).target, a, a, Case, NewEventId(Config(a).target))
      BY <2>2 DEF Creates, CreateEffect, CRM!CreateEffect
    <3>4. UNCHANGED <<CRM!crmVars, CRM!projectorVars>>
      BY <1>2 DEF crmSide
    <3>5. CRM!Publishing(Config(a).target)
      BY <1>1, <3>1, <3>2, <3>3, <3>4 DEF CRM!Publishing
    <3> QED BY <3>1, <3>5 DEF CRM!Next
  <2> QED BY <1>2, <2>1, <2>2, WhatAgentsDo
<1>3. ASSUME NEW p \in Projectors, ProjectorMoves(p)
      PROVE  CRM!Next
  <2>1. schedule.order \in {s.order : s \in Schedules}
    BY <1>1
  <2> QED BY <1>3, <2>1 DEF ProjectorMoves, CRM!Next
<1>4. ASSUME NEW r \in Redeliverers, Redelivers(r), UNCHANGED crmSide
      PROVE  CRM!Next
  <2>1. Head(redelivering[r]) \in Services /\ CRM!Redeliver(Head(redelivering[r]), Case)
    BY <1>1, <1>4 DEF Redelivers
  <2>2. CRM!Publishing(Head(redelivering[r]))
    BY <1>4, <2>1 DEF CRM!Publishing, crmSide
  <2> QED BY <2>1, <2>2 DEF CRM!Next
<1>5. UNCHANGED <<vars, crmSide>> \/ UNCHANGED actorVars => UNCHANGED CRM!vars
  BY DEF actorVars, vars, stores, crmSide
<1> QED BY <1>2, <1>3, <1>4, <1>5, WhoDoesWhat DEF LabRunInv

\* Every run of the lab is, seen from the CRM (apps/crm/projector.py), a behaviour of
\* module Projection: its agents create each effect once, with an event id of its own, and
\* its redeliveries, refusals and dying workers are among those that module allows.
THEOREM RunsImplementProjection == Spec => ImplementsProjection
<1>1. Init => CRM!Init
  BY DEF Init
<1>2. LabRunInv /\ LabRunInv' /\ ViewsInv /\ [Next]_runVars => [CRM!Next]_(CRM!vars)
  BY StepsAreProjected
<1> QED BY <1>1, <1>2, Invariance, ViewsAreTrue, PTL DEF Spec, CRM!Spec, ImplementsProjection

-----------------------------------------------------------------------------
(***************************************************************************)
(* The reservations of a run keep the promise of the control service.      *)
(***************************************************************************)
\* What an agent does to the reservations table, or has done to it by a request it never
\* hears of: it takes what is granted, gives it back, or spends what it took.
LEMMA WhatHoldsDo ==
    ASSUME AgentsInv, NEW a \in Present, AgentMoves(a)
    PROVE  /\ UNCHANGED experiment
           /\ \/ UNCHANGED hold
              \/ Grants(a) /\ hold' = HoldTaken(a)
              \/ hold' = HoldReleased(a)
              \/ hold[a] # "NONE" /\ hold' = HoldCommitted(a)
<1> DEFINE moves == \/ UNCHANGED hold
                    \/ Grants(a) /\ hold' = HoldTaken(a)
                    \/ hold' = HoldReleased(a)
                    \/ hold[a] # "NONE" /\ hold' = HoldCommitted(a)
<1>1. UNCHANGED experiment
  BY AgentMovesAlone DEF AgentMoves, OthersWait
<1>2. reserved[a] => hold[a] # "NONE"
  BY PresentAreConfigured DEF AgentsInv, AgentsTypeOK, IsSound, GrantCameFirst
<1>3. Observes(a) \/ Start(a) \/ Decide(a) \/ LandLate(a) => UNCHANGED hold
  BY DEF Observes, ObserveFirst, ObserveRest, ObserveCrm, Observe, Start, Decide, LandLate
<1>4. Create(a) \/ CreateFails(a) \/ ClientGivesUp(a) => UNCHANGED hold
  BY DEF Create, Authorize, Insert, Acknowledge, CreateFails, ClientGivesUp, CreateRaises
<1>5. Reserve(a) => moves
  BY DEF Reserve
<1>6. Free(a) \/ Settle(a) => moves
  BY <1>2 DEF Free, Settle
<1>7. CallReserve(a) \/ CallDecline(a) => moves
  BY DEF CallReserve, CallDecline
<1>8. \/ ModelReplies(a) \/ StopThinking(a) \/ EndReply(a) \/ CallRead(a) \/ CallIssue(a)
      \/ CallUnknown(a)
      => UNCHANGED hold
  BY DEF ModelReplies, StopThinking, EndReply, CallRead, CallIssue, CallUnknown
<1>9. RequestFails(a) => moves
  BY <1>2 DEF RequestFails, AsksToCommit
<1> HIDE DEF moves
<1>10. UNCHANGED hold => moves
  BY DEF moves
<1>11. AgentStep(a) => moves
  BY <1>3, <1>4, <1>5, <1>6, <1>7, <1>8, <1>10
     DEF AgentStep, DiligentStep, ModelStep, Observes
<1>12. RunAgent(a) => moves
  BY <1>3, <1>4, <1>10, <1>11 DEF RunAgent, Observes
<1>13. Failure(a) => moves
  BY <1>4, <1>9, <1>10 DEF Failure, ErrorIgnored
<1>14. moves
  BY <1>3, <1>10, <1>12, <1>13 DEF AgentMoves
<1> QED BY <1>1, <1>14 DEF moves

\* The budget a promise is made from is the budget that agents hold.
LEMMA FitsIsBudget ==
    ASSUME AgentsInv, NEW n
    PROVE  Promise!Fits(Case, n) <=> HeldBudget + n <= Authorized
<1> DEFINE held == {b \in Present : hold[b] \in {"HELD", "COMMITTED"}}
           rows == Promise!Budgeted(Case)
           ofAgent == [b \in held |-> Amount(b)]
           ofRow == [h \in rows |-> h.amount]
           rowOf == [b \in held |-> HoldRow(b)]
           agentOf == [h \in rows |-> h.key]
<1>1. /\ \A b \in held : HoldRow(b) \in rows
      /\ \A h \in rows : h.key \in held /\ h = HoldRow(h.key)
  BY DEF Promise!Budgeted, HoldRows, HoldRow
<1>2. IsFiniteSet(held) /\ \A b \in held : ofAgent[b] \in Nat
  BY SumIsNatural, PresentAreConfigured DEF AgentsInv, AgentsTypeOK
<1>3. /\ rowOf \in [held -> rows]
      /\ \A x, y \in held : rowOf[x] = rowOf[y] => x = y
      /\ \A b \in held : ofAgent[b] = ofRow[rowOf[b]]
  BY <1>1 DEF HoldRow
<1>4. /\ agentOf \in [rows -> held]
      /\ \A x, y \in rows : agentOf[x] = agentOf[y] => x = y
      /\ \A h \in rows : ofRow[h] = ofAgent[agentOf[h]]
  <2>1. \A h \in rows : h.amount = Amount(h.key)
    BY <1>1 DEF HoldRow
  <2> QED BY <1>1, <2>1
<1> HIDE DEF held, rows, ofAgent, ofRow, rowOf, agentOf
<1>5. IsFiniteSet(rows) /\ \A h \in rows : ofRow[h] \in Nat
  <2>1. rowOf \in Surjection(held, rows)
    <3>1. \A h \in rows : \E b \in held : rowOf[b] = h
      BY <1>1 DEF rowOf
    <3> QED BY <1>3, <3>1 DEF Surjection
  <2>2. IsFiniteSet(rows)
    BY <1>2, <2>1, FS_Surjection
  <2> QED BY <1>2, <1>4, <2>2
<1>6. Total(ofRow, rows) = Total(ofAgent, held)
  <2>1. Total(ofRow, rows) \in Nat /\ Total(ofRow, rows) <= Total(ofAgent, held)
    BY <1>2, <1>4, TotalByName
  <2>2. Total(ofAgent, held) \in Nat /\ Total(ofAgent, held) <= Total(ofRow, rows)
    BY <1>3, <1>5, TotalByName
  <2> QED BY <2>1, <2>2
<1>7. Promise!Total(ofRow, rows) = Total(ofRow, rows)
  BY DEF Promise!Total, Promise!UnitsOf, Promise!Cardinality, Total, UnitsOf, Cardinality
<1> QED BY <1>6, <1>7 DEF Promise!Fits, HeldBudget, SumOf, held, rows, ofAgent, ofRow

\* A row is added, changed, or neither.
LEMMA OneRowMoves ==
    ASSUME AgentsInv, UNCHANGED experiment, NEW a \in Present, NEW state,
           hold' = [hold EXCEPT ![a] = state], state # "NONE"
    PROVE  /\ hold[a] = "NONE" =>
                HoldRows' = HoldRows \cup {Promise!Row(a, Case, Amount(a), state)}
           /\ hold[a] # "NONE" => Promise!Settle(HoldRow(a), state) /\ HoldRow(a) \in HoldRows
           /\ hold[a] = state => HoldRows' = HoldRows
<1>1. Present' = Present /\ a \in Agents /\ \A b : Amount(b)' = Amount(b)
  BY PresentAreConfigured DEF AgentsInv, AgentsTypeOK, Present, Amount, Config
<1>2. \A b \in Present : hold'[b] = IF b = a THEN state ELSE hold[b]
  BY <1>1, PresentAreConfigured DEF AgentsInv, AgentsTypeOK
<1>3. /\ HoldRow(a)' = Promise!Row(a, Case, Amount(a), state)
      /\ HoldRow(a)' = [HoldRow(a) EXCEPT !.state = state]
  BY <1>1, <1>2 DEF HoldRow, Promise!Row
<1>4. \A b \in Present : b # a => HoldRow(b)' = HoldRow(b) /\ (hold'[b] = hold[b])
  BY <1>1, <1>2 DEF HoldRow
<1>5. \A b \in Present : HoldRow(b) = HoldRow(a) => b = a
  BY DEF HoldRow
<1>6. \A h : h \in HoldRows' <=> h = HoldRow(a)' \/ \E b \in Present \ {a} :
                                            hold[b] # "NONE" /\ h = HoldRow(b)
  BY <1>1, <1>2, <1>4 DEF HoldRows
<1>7. \A h : h \in HoldRows <=> (hold[a] # "NONE" /\ h = HoldRow(a)) \/
                              \E b \in Present \ {a} : hold[b] # "NONE" /\ h = HoldRow(b)
  BY DEF HoldRows
<1>8. CASE hold[a] = "NONE"
  BY <1>3, <1>6, <1>7, <1>8
<1>9. CASE hold[a] # "NONE"
  <2>1. HoldRows' = (HoldRows \ {HoldRow(a)}) \cup {HoldRow(a)'}
    BY <1>5, <1>6, <1>7, <1>9
  <2>2. HoldRow(a) \in HoldRows
    BY <1>7, <1>9
  <2>3. hold[a] = state => HoldRow(a)' = HoldRow(a)
    BY <1>1, <1>2 DEF HoldRow
  <2> QED BY <1>3, <1>9, <2>1, <2>2, <2>3 DEF Promise!Settle
<1> QED BY <1>8, <1>9

LEMMA AgentsAreGranted ==
    ASSUME AgentsInv, NEW a \in Present, AgentMoves(a)
    PROVE  Promise!ReservationsNext \/ UNCHANGED HoldRows
<1> DEFINE kept == Promise!ReservationsNext \/ UNCHANGED HoldRows
<1>1. UNCHANGED experiment /\ a \in Agents
  BY WhatHoldsDo, PresentAreConfigured DEF AgentsInv, AgentsTypeOK
<1>2. UNCHANGED hold => kept
  BY <1>1 DEF HoldRows, HoldRow, Present, Amount, Config
<1>3. CASE Grants(a) /\ hold[a] = "NONE" /\ hold' = HoldTaken(a)
  <2>1. hold' = [hold EXCEPT ![a] = "HELD"]
    BY <1>3, HoldsMove
  <2>2. HoldRows' = HoldRows \cup {Promise!Row(a, Case, Amount(a), "HELD")}
    BY <1>1, <1>3, <2>1, OneRowMoves
  <2>3. Promise!IsNew(a)
    BY <1>3 DEF Promise!IsNew, HoldRows, HoldRow
  <2>4. Promise!Fits(Case, Amount(a))
    BY <1>3, FitsIsBudget DEF Grants
  <2>5. Amount(a) \in UNION {{e.config[b].amount : b \in DOMAIN e.config} : e \in Experiments}
    BY DEF AgentsInv, AgentsTypeOK, Amount, Config, Present
  <2> QED BY <1>1, <2>2, <2>3, <2>4, <2>5 DEF Promise!ReservationsNext, Promise!Take
<1>4. CASE hold[a] # "NONE" /\ hold' = HoldTaken(a)
  BY <1>2, <1>4, HoldsMove
<1>5. CASE hold' = HoldReleased(a)
  <2>1. CASE hold[a] = "HELD"
    <3>1. hold' = [hold EXCEPT ![a] = "RELEASED"]
      BY <1>5, <2>1, HoldsMove
    <3>2. Promise!Settle(HoldRow(a), "RELEASED") /\ HoldRow(a) \in HoldRows
      BY <1>1, <2>1, <3>1, OneRowMoves
    <3> QED BY <2>1, <3>2 DEF Promise!ReservationsNext, Promise!Release, HoldRow
  <2>2. CASE hold[a] # "HELD"
    BY <1>2, <1>5, <2>2, HoldsMove
  <2> QED BY <2>1, <2>2
<1>6. CASE hold[a] # "NONE" /\ hold' = HoldCommitted(a)
  <2>1. CASE hold[a] = "RELEASED"
    BY <1>2, <1>6, <2>1, HoldsMove
  <2>2. CASE hold[a] # "RELEASED"
    <3>1. hold' = [hold EXCEPT ![a] = "COMMITTED"]
      BY <1>6, <2>2, HoldsMove
    <3>2. Promise!Settle(HoldRow(a), "COMMITTED") /\ HoldRow(a) \in HoldRows
      BY <1>1, <1>6, <3>1, OneRowMoves
    <3> QED BY <2>2, <3>2 DEF Promise!ReservationsNext, Promise!Commit, HoldRow
  <2> QED BY <2>1, <2>2
<1> QED BY <1>2, <1>3, <1>4, <1>5, <1>6, WhatHoldsDo

\* Every run keeps, of its reservations table, the promise that theorem ReserveIsAtomic of
\* module ControlProofs shows the control service to keep: each hold of the agents is
\* granted against the budget all others have at that moment, and settled once, also when
\* answers are lost and workers die.
THEOREM RunsImplementReservations == Spec => ImplementsReservations
<1>1. Init => Promise!ReservationsInit
  BY PresentAreConfigured DEF Init, AgentsInit, Promise!ReservationsInit, HoldRows
<1>2. LabRunInv /\ [Next]_runVars => [Promise!ReservationsNext]_HoldRows
  <2> SUFFICES ASSUME LabRunInv, Next \/ UNCHANGED runVars
               PROVE  Promise!ReservationsNext \/ UNCHANGED HoldRows
    OBVIOUS
  <2>1. \A a \in Present :
            AgentMoves(a) => Promise!ReservationsNext \/ UNCHANGED HoldRows
    BY AgentsAreGranted DEF LabRunInv
  <2>2. UNCHANGED agentSide \/ UNCHANGED vars \/ UNCHANGED actorVars => UNCHANGED HoldRows
    BY DEF agentSide, vars, actorVars, HoldRows, HoldRow, Present, Amount, Config
  <2> QED BY <2>1, <2>2, WhoDoesWhat
<1> QED BY <1>1, <1>2, Invariance, PTL
        DEF Spec, ImplementsReservations, Promise!ReservationsSpec
=============================================================================
