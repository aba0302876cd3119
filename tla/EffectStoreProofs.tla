-------------------------- MODULE EffectStoreProofs --------------------------
(***************************************************************************)
(* Theorems about a service that owns effects, for any number of requests, *)
(* keys and cases, and that it keeps what module Effects promises.         *)
(***************************************************************************)
EXTENDS EffectStore, FiniteSetTheorems, TLAPS

-----------------------------------------------------------------------------
(***************************************************************************)
(* The inductive invariant: what holds between any two steps.              *)
(***************************************************************************)
HasCommitted(r) == pc[r] \in {"committed", "acknowledged", "unacknowledged"}

RequestsHaveInput ==
    \A r \in Requests :
        /\ pc[r] \in {"looking", "inserting", "publishing", "replayed"} => Creates(r)
        /\ HasWritten(r) /\ ~Creates(r) => \E e \in refunds : e.id = input[r]

\* The rows there are, are those of the creations that committed.
RowsAreCreations ==
    /\ \A e \in refunds :
        /\ HasCommitted(e.id) /\ Creates(e.id)
        /\ e.key = input[e.id].key /\ e.case = input[e.id].case
    /\ \A r \in Requests :
        HasCommitted(r) /\ Creates(r) => \E e \in refunds : e.id = r
    /\ \A d, e \in refunds : d.id = e.id \/ d.key = e.key => d = e
    /\ \A r \in Requests : pc[r] = "replayed" => KeyTaken(input[r].key)

\* What a transaction has written and not committed nobody else has, or can commit
\* before it.
WritesAreExclusive ==
    \A r \in Requests :
        /\ HasWritten(r) /\ Creates(r) => KeyFree(r)
        /\ HasLogged(r) => SequenceFree(r)

\* A number that was computed leaves no gap, however long ago that was.
NumbersContinue ==
    \A r \in Requests : pc[r] \in {"logging", "publishing", "committing"} =>
        /\ seq[r] > 0
        /\ seq[r] = 1 \/ SequenceTaken(CaseOf(r), seq[r] - 1)

\* One decision for each creation, and one for a void at least.
DecisionsAgree ==
    /\ IsFiniteSet(decisionLog)
    /\ \A l \in decisionLog : \E e \in refunds : e.id = l.entity /\ e.case = l.case
    /\ \A l, m \in decisionLog :
        l.entity = m.entity /\ l.to = "COMMITTED" /\ m.to = "COMMITTED" => l = m
    /\ \A e \in refunds :
        /\ \E l \in decisionLog : l.entity = e.id /\ l.to = "COMMITTED"
        /\ e.state = "VOIDED" <=> \E l \in decisionLog : l.entity = e.id /\ l.to = "VOIDED"

\* One event for each creation, under an id that nobody else has or will have.
EventsAgree ==
    /\ \A v \in events :
        /\ \E e \in refunds : e.id = v.entity /\ e.case = v.case
        /\ v.id < nextId
    /\ \A v, w \in events : v.id = w.id \/ v.entity = w.entity => v = w
    /\ \A e \in refunds : \E v \in events : v.entity = e.id
    /\ \A r \in Requests : pc[r] = "committing" /\ Creates(r) =>
        /\ eventId[r] \in 1..(nextId - 1)
        /\ \A v \in events : v.id # eventId[r]
        /\ \A s \in Requests \ {r} :
            pc[s] = "committing" /\ Creates(s) => eventId[s] # eventId[r]

EffectStoreInv ==
    /\ RequestsHaveInput
    /\ RowsAreCreations
    /\ WritesAreExclusive
    /\ NumbersContinue
    /\ DecisionsAgree
    /\ HistoryIsReplayable
    /\ EventsAgree

Inv == TypeOK /\ EffectStoreInv

-----------------------------------------------------------------------------
(***************************************************************************)
(* What the operators are.                                                 *)
(***************************************************************************)
\* The case of a void is that of the row it is about.
LEMMA CaseOfVoid ==
    ASSUME RowsAreCreations, NEW r \in Requests, ~Creates(r),
           NEW e \in refunds, e.id = input[r]
    PROVE  CaseOf(r) = e.case
<1> DEFINE f == CHOOSE d \in refunds : d.id = input[r]
<1>1. f \in refunds /\ f.id = input[r]
  OBVIOUS
<1>2. f = e
  BY <1>1 DEF RowsAreCreations
<1> QED BY <1>2 DEF CaseOf

LEMMA CasesAreCases ==
    ASSUME Inv, NEW r \in Requests, HasWritten(r)
    PROVE  CaseOf(r) \in Cases
<1>1. CASE Creates(r)
  BY <1>1 DEF CaseOf, Creates, Inputs
<1>2. CASE ~Creates(r)
  <2>1. PICK e \in refunds : e.id = input[r]
    BY <1>2 DEF Inv, EffectStoreInv, RequestsHaveInput
  <2>2. e.case \in Cases
    BY DEF Inv, TypeOK, Refunds
  <2> QED BY <1>2, <2>1, <2>2, CaseOfVoid DEF Inv, EffectStoreInv
<1> QED BY <1>1, <1>2

\* The last number of a case is how many decisions it has.
LEMMA LastIsCount ==
    ASSUME DecisionsAgree, HistoryIsReplayable, NEW c \in Cases
    PROVE  /\ Cardinality(Entries(c)) \in Nat
           /\ LastSequence(c) = Cardinality(Entries(c))
<1> DEFINE n == Cardinality(Entries(c))
<1>1. IsFiniteSet(Entries(c))
  <2>1. Entries(c) \subseteq decisionLog
    BY DEF Entries
  <2> QED BY <2>1, FS_Subset DEF DecisionsAgree
<1>2. n \in Nat
  BY <1>1, FS_CardinalityType
<1>3. {l.sequence : l \in Entries(c)} \cup {0} = 0..n
  <2>1. {l.sequence : l \in Entries(c)} = 1..n
    BY DEF HistoryIsReplayable
  <2> HIDE DEF n
  <2> QED BY <1>2, <2>1
<1>4. Max(0..n) = n
  <2> HIDE DEF n
  <2>1. n \in 0..n /\ \A y \in 0..n : n >= y
    BY <1>2
  <2>2. \A x \in 0..n : (\A y \in 0..n : x >= y) => x = n
    BY <1>2
  <2> QED BY <2>1, <2>2 DEF Max
<1> QED BY <1>2, <1>3, <1>4 DEF LastSequence

\* Numbers are taken without a gap.
LEMMA TakenNumbers ==
    ASSUME HistoryIsReplayable, NEW c \in Cases, NEW n
    PROVE  SequenceTaken(c, n) <=> n \in 1..Cardinality(Entries(c))
<1>1. SequenceTaken(c, n) <=> n \in {l.sequence : l \in Entries(c)}
  BY DEF SequenceTaken, Entries
<1> QED BY <1>1 DEF HistoryIsReplayable

\* Whoever may log is the next of its case.
LEMMA FreeNumberIsNext ==
    ASSUME Inv, NEW r \in Requests, HasWritten(r),
           pc[r] \in {"logging", "publishing", "committing"},
           ~SequenceTaken(CaseOf(r), seq[r])
    PROVE  seq[r] = Cardinality(Entries(CaseOf(r))) + 1
<1> DEFINE n == Cardinality(Entries(CaseOf(r)))
<1>1. CaseOf(r) \in Cases
  BY CasesAreCases
<1>2. n \in Nat
  BY <1>1, LastIsCount DEF Inv, EffectStoreInv
<1>3. seq[r] \notin 1..n
  BY <1>1, TakenNumbers DEF Inv, EffectStoreInv
<1>4. seq[r] = 1 \/ seq[r] - 1 \in 1..n
  BY <1>1, TakenNumbers DEF Inv, EffectStoreInv, NumbersContinue
<1>5. seq[r] \in Nat /\ seq[r] > 0
  BY DEF Inv, TypeOK, EffectStoreInv, NumbersContinue
<1> HIDE DEF n
<1>6. seq[r] = n + 1
  BY <1>2, <1>3, <1>4, <1>5
<1> QED BY <1>6 DEF n

-----------------------------------------------------------------------------
(***************************************************************************)
(* What steps do.                                                          *)
(***************************************************************************)
\* Every step but a COMMIT and the projectors' calls leaves the tables alone.
Moves ==
    \E r \in Requests :
        \/ Arrive(r) \/ Look(r) \/ Insert(r) \/ InsertFails(r) \/ Update(r)
        \/ NumberDecision(r) \/ AppendDecision(r) \/ AppendFails(r) \/ Publish(r)
        \/ Acknowledge(r) \/ Crash(r)

Projects ==
    \/ \E v \in events : MarkEventApplied(v)
    \/ \E c \in Cases : RedeliverEvents(c)

LEMMA Steps ==
    [Next]_vars <=> \/ Moves \/ Projects \/ UNCHANGED vars
                    \/ \E r \in Requests : CommitCreate(r) \/ CommitVoid(r)
BY DEF Next, Proceed, Moves, Projects

LEMMA MovesLeaveTables == ASSUME Moves PROVE UNCHANGED tables
BY DEF Moves, Arrive, Create, Void, Look, Insert, InsertFails, Update, NumberDecision,
   AppendDecision, AppendFails, Publish, PublishedLater, Acknowledge, Crash, tables

\* The row a creation leaves, and its entry and event.
Created(r) ==
    [id |-> r, key |-> input[r].key, case |-> input[r].case, state |-> "COMMITTED"]

LEMMA CreatedType ==
    ASSUME Inv, NEW r \in Requests, CommitCreate(r)
    PROVE  /\ Created(r) \in Refunds
           /\ NewEvent(r, eventId[r]) \in Events
           /\ Entry(r, r, "COMMITTED") \in Decisions
           /\ CaseOf(r) = input[r].case /\ input[r].case \in Cases
<1>1. input[r].key \in Keys /\ input[r].case \in Cases
  BY DEF CommitCreate, Creates, Inputs
<1>2. CaseOf(r) = input[r].case
  BY DEF CommitCreate, CaseOf
<1>3. seq[r] \in Nat \ {0} /\ eventId[r] \in 1..MaxId
  BY DEF CommitCreate, Inv, TypeOK, EffectStoreInv, NumbersContinue, EventsAgree
<1> QED BY <1>1, <1>2, <1>3 DEF Created, Refunds, NewEvent, Events, Entry, Decisions

\* A void changes the state of the one row it is about.
LEMMA VoidedRows ==
    ASSUME Inv, NEW r \in Requests, CommitVoid(r)
    PROVE  /\ refunds' \subseteq Refunds
           /\ \A e \in refunds : \E d \in refunds' :
                /\ d.id = e.id /\ d.key = e.key /\ d.case = e.case
                /\ d.state = IF e.id = input[r] THEN "VOIDED" ELSE e.state
           /\ \A d \in refunds' : \E e \in refunds :
                /\ d.id = e.id /\ d.key = e.key /\ d.case = e.case
                /\ d.state = IF e.id = input[r] THEN "VOIDED" ELSE e.state
           /\ \A d, e \in refunds' : d.id = e.id \/ d.key = e.key => d = e
<1> DEFINE After(e) == IF e.id = input[r] THEN [e EXCEPT !.state = "VOIDED"] ELSE e
<1>1. \A e \in Refunds :
        /\ After(e) \in Refunds
        /\ After(e).id = e.id /\ After(e).key = e.key /\ After(e).case = e.case
        /\ After(e).state = IF e.id = input[r] THEN "VOIDED" ELSE e.state
  BY DEF Refunds
<1>2. refunds' = {After(e) : e \in refunds}
  BY DEF CommitVoid
<1>3. refunds \subseteq Refunds
  BY DEF Inv, TypeOK
<1> HIDE DEF After
<1>4. refunds' \subseteq Refunds
  BY <1>1, <1>2, <1>3
<1>5. \A d, e \in refunds' : d.id = e.id \/ d.key = e.key => d = e
  <2> SUFFICES ASSUME NEW d \in refunds', NEW e \in refunds', d.id = e.id \/ d.key = e.key
               PROVE  d = e
    OBVIOUS
  <2>1. PICK b \in refunds : d = After(b)
    BY <1>2
  <2>2. PICK c \in refunds : e = After(c)
    BY <1>2
  <2> QED BY <1>1, <1>3, <2>1, <2>2 DEF Inv, EffectStoreInv, RowsAreCreations
<1> QED BY <1>1, <1>2, <1>3, <1>4, <1>5

\* The projectors' calls change whether events are applied.
LEMMA ProjectedEvents ==
    ASSUME Inv, Projects
    PROVE  /\ events' \subseteq Events
           /\ \A v \in events : \E w \in events' :
                w.id = v.id /\ w.entity = v.entity /\ w.case = v.case
           /\ \A w \in events' : \E v \in events :
                w.id = v.id /\ w.entity = v.entity /\ w.case = v.case
           /\ \A v, w \in events' :
                v.id = w.id \/ v.entity = w.entity => v = w
<1> DEFINE Set(v, b) == [v EXCEPT !.applied = b]
<1>1. \A v \in Events, b \in BOOLEAN :
        /\ Set(v, b) \in Events
        /\ Set(v, b).id = v.id /\ Set(v, b).entity = v.entity /\ Set(v, b).case = v.case
  BY DEF Events
<1>2. events \subseteq Events
  BY DEF Inv, TypeOK
<1>3. \A v, w \in events : v.id = w.id \/ v.entity = w.entity => v = w
  BY DEF Inv, EffectStoreInv, EventsAgree
<1>4. ASSUME NEW u \in events, MarkEventApplied(u)
      PROVE  \E f \in [events -> events'] :
                /\ \A v \in events : f[v] \in {v, Set(v, TRUE)}
                /\ events' = {f[v] : v \in events}
  <2> DEFINE f == [v \in events |-> IF v = u THEN Set(u, TRUE) ELSE v]
  <2>1. events' = (events \ {u}) \cup {Set(u, TRUE)}
    BY <1>4 DEF MarkEventApplied
  <2> HIDE DEF Set
  <2>2. events' = {f[v] : v \in events}
    BY <2>1
  <2> QED BY <2>2
<1>5. ASSUME NEW c \in Cases, RedeliverEvents(c)
      PROVE  \E f \in [events -> events'] :
                /\ \A v \in events : f[v] \in {v, Set(v, FALSE)}
                /\ events' = {f[v] : v \in events}
  <2> DEFINE f == [v \in events |-> IF v.case = c THEN Set(v, FALSE) ELSE v]
  <2>1. events' = {f[v] : v \in events}
    BY <1>5 DEF RedeliverEvents
  <2> HIDE DEF Set
  <2> QED BY <2>1
<1>6. PICK f \in [events -> events'] :
                /\ \A v \in events : f[v] \in {v, Set(v, TRUE), Set(v, FALSE)}
                /\ events' = {f[v] : v \in events}
  BY <1>4, <1>5 DEF Projects
<1> HIDE DEF Set
<1>7. \A v \in events : /\ f[v] \in Events
                        /\ f[v].id = v.id /\ f[v].entity = v.entity /\ f[v].case = v.case
  BY <1>1, <1>2, <1>6
<1> QED BY <1>3, <1>6, <1>7

\* A step is of one request at most.
Same(r) == /\ pc'[r] = pc[r] /\ input'[r] = input[r]
           /\ seq'[r] = seq[r] /\ eventId'[r] = eventId[r]

LEMMA OneRequestSteps ==
    ASSUME TypeOK, [Next]_vars
    PROVE  \/ \A r \in Requests : Same(r)
           \/ \E r \in Requests :
                /\ Arrive(r) \/ Proceed(r) \/ Crash(r)
                /\ \A s \in Requests \ {r} : Same(s)
<1>1. CASE UNCHANGED vars
  BY <1>1 DEF vars, Same
<1>2. CASE Projects
  BY <1>2 DEF Projects, MarkEventApplied, RedeliverEvents, Same
<1>3. ASSUME NEW r \in Requests, Arrive(r) \/ Proceed(r) \/ Crash(r), NEW s \in Requests \ {r}
      PROVE  Same(s)
  <2> USE <1>3 DEF TypeOK, Goto, Same
  <2>1. CASE Arrive(r)
    BY <2>1 DEF Arrive, Create, Void
  <2>2. CASE Crash(r)
    BY <2>2 DEF Crash
  <2>3. CASE Look(r) \/ Insert(r) \/ InsertFails(r) \/ Update(r) \/ NumberDecision(r)
    BY <2>3 DEF Look, Insert, InsertFails, Update, NumberDecision
  <2>4. CASE AppendDecision(r) \/ AppendFails(r) \/ Publish(r)
    BY <2>4 DEF AppendDecision, AppendFails, Publish
  <2>5. CASE CommitCreate(r) \/ CommitVoid(r) \/ Acknowledge(r)
    BY <2>5 DEF CommitCreate, CommitVoid, Acknowledge
  <2> QED BY <2>1, <2>2, <2>3, <2>4, <2>5 DEF Proceed
<1> QED BY <1>1, <1>2, <1>3 DEF Next, Projects

\* What a request asked for stays; it comes to write, to log and to an answer on a
\* known way.
LEMMA RequestSteps ==
    ASSUME TypeOK, [Next]_vars, NEW r \in Requests
    PROVE  /\ pc[r] # "idle" => input'[r] = input[r]
           /\ pc'[r] = "looking" => input'[r] \in Inputs \/ pc[r] = "looking"
           /\ pc'[r] = "inserting" => pc[r] \in {"looking", "inserting"}
           /\ pc'[r] = "replayed" => pc[r] = "replayed" \/ Look(r)
           /\ HasWritten(r)' => HasWritten(r) \/ Insert(r) \/ Update(r)
           /\ pc'[r] \in {"logging", "publishing", "committing"} =>
                \/ /\ pc[r] \in {"logging", "publishing", "committing"}
                   /\ seq'[r] = seq[r]
                \/ NumberDecision(r)
           /\ HasLogged(r)' =>
                /\ HasLogged(r) \/ AppendDecision(r)
                /\ seq'[r] = seq[r]
           /\ pc'[r] = "publishing" =>
                pc[r] = "publishing" \/ (pc[r] = "logging" /\ Creates(r))
           /\ pc'[r] = "committing" /\ Creates(r)' =>
                \/ pc[r] = "committing" /\ eventId'[r] = eventId[r]
                \/ Publish(r)
           /\ HasCommitted(r) => HasCommitted(r)'
           /\ HasCommitted(r)' => HasCommitted(r) \/ CommitCreate(r) \/ CommitVoid(r)
<1> USE DEF TypeOK, Goto, Same, Creates, HasWritten, HasLogged, HasCommitted
<1>1. CASE Same(r)
  BY <1>1
<1>2. CASE Arrive(r)
  BY <1>2 DEF Arrive, Create, Void
<1>3. CASE Crash(r)
  BY <1>3 DEF Crash
<1>4. CASE Look(r)
  BY <1>4 DEF Look
<1>5. CASE Insert(r) \/ InsertFails(r) \/ Update(r)
  BY <1>5 DEF Insert, InsertFails, Update
<1>6. CASE NumberDecision(r)
  BY <1>6 DEF NumberDecision
<1>7. CASE AppendDecision(r) \/ AppendFails(r)
  BY <1>7 DEF AppendDecision, AppendFails
<1>8. CASE Publish(r)
  BY <1>8 DEF Publish
<1>9. CASE CommitCreate(r) \/ CommitVoid(r) \/ Acknowledge(r)
  BY <1>9 DEF CommitCreate, CommitVoid, Acknowledge
<1>10. Same(r) \/ Arrive(r) \/ Proceed(r) \/ Crash(r)
  BY OneRequestSteps
<1> QED BY <1>1, <1>2, <1>3, <1>4, <1>5, <1>6, <1>7, <1>8, <1>9, <1>10 DEF Proceed

\* Rows stay, but for their state; a new one is that of the creation that commits.
LEMMA RowsAfter ==
    ASSUME Inv, [Next]_vars
    PROVE  /\ refunds' \subseteq Refunds
           /\ \A e \in refunds : \E d \in refunds' :
                d.id = e.id /\ d.key = e.key /\ d.case = e.case
           /\ \A d \in refunds' :
                \/ \E e \in refunds : d.id = e.id /\ d.key = e.key /\ d.case = e.case
                \/ d.id \in Requests /\ CommitCreate(d.id) /\ d = Created(d.id)
           /\ \A d, e \in refunds' : d.id = e.id \/ d.key = e.key => d = e
<1>0. /\ refunds \subseteq Refunds
      /\ \A d, e \in refunds : d.id = e.id \/ d.key = e.key => d = e
  BY DEF Inv, TypeOK, EffectStoreInv, RowsAreCreations
<1>1. CASE Moves \/ Projects \/ UNCHANGED vars
  <2>1. refunds' = refunds
    BY <1>1, MovesLeaveTables DEF tables, vars, Projects, MarkEventApplied, RedeliverEvents
  <2> QED BY <1>0, <2>1
<1>2. ASSUME NEW r \in Requests, CommitCreate(r)
      PROVE  /\ refunds' \subseteq Refunds
             /\ \A e \in refunds : e \in refunds'
             /\ \A d \in refunds' : d \in refunds \/ d = Created(r)
             /\ \A d, e \in refunds' : d.id = e.id \/ d.key = e.key => d = e
             /\ Created(r).id = r
  <2>1. refunds' = refunds \cup {Created(r)}
    BY <1>2 DEF CommitCreate, Created
  <2>2. \A e \in refunds : e.id # r /\ e.key # Created(r).key
    BY <1>2 DEF Inv, EffectStoreInv, RowsAreCreations, WritesAreExclusive, HasCommitted,
       HasWritten, KeyFree, KeyTaken, CommitCreate, Created
  <2>3. Created(r) \in Refunds /\ Created(r).id = r
    BY <1>2, CreatedType DEF Created
  <2> QED BY <1>0, <2>1, <2>2, <2>3
<1>3. ASSUME NEW r \in Requests, CommitVoid(r)
      PROVE  /\ refunds' \subseteq Refunds
             /\ \A e \in refunds : \E d \in refunds' :
                  d.id = e.id /\ d.key = e.key /\ d.case = e.case
             /\ \A d \in refunds' : \E e \in refunds :
                  d.id = e.id /\ d.key = e.key /\ d.case = e.case
             /\ \A d, e \in refunds' : d.id = e.id \/ d.key = e.key => d = e
  BY <1>3, VoidedRows
<1> QED BY <1>1, <1>2, <1>3, Steps

\* So the case of a request that writes stays.
LEMMA CaseStays ==
    ASSUME Inv, [Next]_vars, NEW r \in Requests, HasWritten(r)
    PROVE  CaseOf(r)' = CaseOf(r) /\ input'[r] = input[r]
<1>1. input'[r] = input[r]
  BY RequestSteps DEF Inv, HasWritten
<1>2. CASE Creates(r)
  BY <1>1, <1>2 DEF CaseOf, Creates
<1>3. CASE ~Creates(r)
  <2>1. PICK e \in refunds : e.id = input[r]
    BY <1>3 DEF Inv, EffectStoreInv, RequestsHaveInput
  <2>2. CaseOf(r) = e.case
    BY <1>3, <2>1, CaseOfVoid DEF Inv, EffectStoreInv
  <2>3. PICK d \in refunds' : d.id = e.id /\ d.case = e.case
    BY RowsAfter
  <2> DEFINE f == CHOOSE x \in refunds' : x.id = input'[r]
  <2>4. f \in refunds' /\ f.id = input'[r]
    BY <1>1, <2>1, <2>3
  <2>5. f = d
    BY <1>1, <2>1, <2>3, <2>4, RowsAfter
  <2>6. CaseOf(r)' = f.case
    BY <1>1, <1>3 DEF CaseOf, Creates
  <2> QED BY <1>1, <2>2, <2>3, <2>5, <2>6
<1> QED BY <1>2, <1>3

\* The log grows by the decision of the one request that commits.
LEMMA LogAfter ==
    ASSUME Inv, [Next]_vars
    PROVE  \/ decisionLog' = decisionLog
           \/ \E r \in Requests, entity \in Requests, to \in {"COMMITTED", "VOIDED"} :
                /\ pc[r] = "committing" /\ pc'[r] = "committed"
                /\ decisionLog' = decisionLog \cup {Entry(r, entity, to)}
<1>1. CASE Moves \/ Projects \/ UNCHANGED vars
  BY <1>1, MovesLeaveTables DEF tables, vars, Projects, MarkEventApplied, RedeliverEvents
<1>2. ASSUME NEW r \in Requests, CommitCreate(r)
      PROVE  /\ pc[r] = "committing" /\ pc'[r] = "committed"
             /\ decisionLog' = decisionLog \cup {Entry(r, r, "COMMITTED")}
  BY <1>2 DEF CommitCreate, Goto, Inv, TypeOK
<1>3. ASSUME NEW r \in Requests, CommitVoid(r)
      PROVE  /\ pc[r] = "committing" /\ pc'[r] = "committed"
             /\ input[r] \in Requests
             /\ decisionLog' = decisionLog \cup {Entry(r, input[r], "VOIDED")}
  <2>1. PICK e \in refunds : e.id = input[r]
    BY <1>3 DEF CommitVoid, Inv, EffectStoreInv, RequestsHaveInput, HasWritten
  <2>2. e.id \in Requests
    BY DEF Inv, TypeOK, Refunds
  <2> QED BY <1>3, <2>1, <2>2 DEF CommitVoid, VoidLogged, Goto, Inv, TypeOK
<1> QED BY <1>1, <1>2, <1>3, Steps

-----------------------------------------------------------------------------
(***************************************************************************)
(* The invariant.                                                          *)
(***************************************************************************)
LEMMA InitInv == Init => Inv
<1> SUFFICES ASSUME Init PROVE Inv
  OBVIOUS
<1>1. TypeOK
  BY EffectStoreAssumption DEF Init, TypeOK
<1>2. \A r \in Requests : pc[r] = "idle"
  BY DEF Init
<1>3. RequestsHaveInput /\ RowsAreCreations /\ WritesAreExclusive /\ NumbersContinue
  BY <1>2 DEF Init, RequestsHaveInput, RowsAreCreations, WritesAreExclusive, NumbersContinue,
     HasWritten, HasLogged, HasCommitted
<1>4. DecisionsAgree /\ EventsAgree
  BY <1>2, FS_EmptySet DEF Init, DecisionsAgree, EventsAgree
<1>5. HistoryIsReplayable
  <2>1. \A c \in Cases : Entries(c) = {}
    BY DEF Init, Entries
  <2>2. \A c \in Cases : {l.sequence : l \in Entries(c)} = 1..Cardinality(Entries(c))
    BY <2>1, FS_EmptySet
  <2> QED BY <2>2 DEF Init, HistoryIsReplayable
<1> QED BY <1>1, <1>3, <1>4, <1>5 DEF Inv, EffectStoreInv

LEMMA StepType == Inv /\ [Next]_vars => TypeOK'
<1> SUFFICES ASSUME Inv, [Next]_vars PROVE TypeOK'
  OBVIOUS
<1>1. refunds' \subseteq Refunds
  BY RowsAfter
<1>2. events' \subseteq Events
  <2>1. CASE Moves \/ UNCHANGED vars \/ \E r \in Requests : CommitVoid(r)
    BY <2>1, MovesLeaveTables DEF tables, vars, CommitVoid, Inv, TypeOK
  <2>2. CASE Projects
    BY <2>2, ProjectedEvents
  <2>3. ASSUME NEW r \in Requests, CommitCreate(r) PROVE events' \subseteq Events
    BY <2>3, CreatedType DEF CommitCreate, Inv, TypeOK
  <2> QED BY <2>1, <2>2, <2>3, Steps
<1>3. decisionLog' \subseteq Decisions
  <2>1. ASSUME NEW r \in Requests, NEW entity \in Requests, NEW to \in {"COMMITTED", "VOIDED"},
               pc[r] = "committing"
        PROVE  Entry(r, entity, to) \in Decisions
    <3>1. CaseOf(r) \in Cases
      BY <2>1, CasesAreCases DEF HasWritten
    <3>2. seq[r] \in Nat \ {0}
      BY <2>1 DEF Inv, TypeOK, EffectStoreInv, NumbersContinue
    <3> QED BY <3>1, <3>2 DEF Entry, Decisions
  <2> QED BY <2>1, LogAfter DEF Inv, TypeOK
<1> DEFINE Ok == /\ nextId' \in 1..(MaxId + 1) /\ eventId' \in [Requests -> 0..MaxId]
                 /\ pc' \in [Requests -> Answers \cup
                       {"idle", "looking", "inserting", "updating", "numbering", "logging",
                        "publishing", "committing", "committed"}]
                 /\ input' \in [Requests -> Inputs \cup Requests \cup {NoInput}]
                 /\ seq' \in [Requests -> Nat]
<1>4. Ok
  <2> USE EffectStoreAssumption DEF TypeOK, Inv, Goto, Answers
  <2>1. CASE UNCHANGED vars
    BY <2>1 DEF vars
  <2>2. CASE Projects
    BY <2>2 DEF Projects, MarkEventApplied, RedeliverEvents
  <2>3. ASSUME NEW r \in Requests, Arrive(r)
        PROVE  Ok
    BY <2>3 DEF Arrive, Create, Void
  <2>4. ASSUME NEW r \in Requests,
               Crash(r) \/ Look(r) \/ Insert(r) \/ InsertFails(r) \/ Update(r)
        PROVE  Ok
    BY <2>4 DEF Crash, Look, Insert, InsertFails, Update
  <2>5. ASSUME NEW r \in Requests, NumberDecision(r)
        PROVE  Ok
    <3>1. CaseOf(r) \in Cases
      BY <2>5, CasesAreCases DEF NumberDecision, HasWritten
    <3>2. LastSequence(CaseOf(r)) + 1 \in Nat
      BY <3>1, LastIsCount DEF EffectStoreInv
    <3> QED BY <2>5, <3>2 DEF NumberDecision
  <2>6. ASSUME NEW r \in Requests, AppendDecision(r) \/ AppendFails(r) \/ Acknowledge(r)
        PROVE  Ok
    BY <2>6 DEF AppendDecision, AppendFails, Acknowledge
  <2>7. ASSUME NEW r \in Requests, Publish(r)
        PROVE  Ok
    <3>1. nextId \in 0..MaxId /\ nextId + 1 \in 1..(MaxId + 1)
      BY <2>7 DEF Publish
    <3> QED BY <2>7, <3>1 DEF Publish
  <2>8. ASSUME NEW r \in Requests, CommitCreate(r) \/ CommitVoid(r)
        PROVE  Ok
    BY <2>8 DEF CommitCreate, CommitVoid
  <2> HIDE DEF TypeOK, Inv, Goto, Answers, Ok
  <2>9. \/ UNCHANGED vars \/ Projects
        \/ \E r \in Requests : Arrive(r) \/ Proceed(r) \/ Crash(r)
    BY DEF Next, Projects
  <2> QED BY <2>1, <2>2, <2>3, <2>4, <2>5, <2>6, <2>7, <2>8, <2>9 DEF Proceed
<1> QED BY <1>1, <1>2, <1>3, <1>4 DEF TypeOK

LEMMA StepInputs == Inv /\ [Next]_vars => RequestsHaveInput'
<1> SUFFICES ASSUME Inv, [Next]_vars, NEW r \in Requests
             PROVE  /\ pc'[r] \in {"looking", "inserting", "publishing", "replayed"} =>
                         input'[r] \in Inputs
                    /\ HasWritten(r)' /\ input'[r] \notin Inputs =>
                         \E e \in refunds' : e.id = input'[r]
  BY DEF RequestsHaveInput, Creates
<1> USE DEF Inv, EffectStoreInv, RequestsHaveInput, Creates
<1>1. ASSUME pc'[r] \in {"looking", "inserting", "publishing", "replayed"}
      PROVE  input'[r] \in Inputs
  BY <1>1, RequestSteps DEF Look
<1>2. ASSUME HasWritten(r)', input'[r] \notin Inputs
      PROVE  \E e \in refunds' : e.id = input'[r]
  <2>1. /\ HasWritten(r) \/ Insert(r) \/ Update(r)
        /\ input'[r] = input[r]
    BY <1>2, RequestSteps DEF HasWritten, Insert, Update
  <2>2. \E e \in refunds : e.id = input[r]
    <3>1. CASE HasWritten(r)
      BY <1>2, <2>1, <3>1
    <3>2. CASE Insert(r)
      BY <1>2, <2>1, <3>2 DEF Insert
    <3>3. CASE Update(r)
      BY <1>2, <3>3 DEF Update, HasWritten, Goto, TypeOK
    <3> QED BY <2>1, <3>1, <3>2, <3>3
  <2> QED BY <2>1, <2>2, RowsAfter
<1> QED BY <1>1, <1>2

LEMMA StepRows == Inv /\ [Next]_vars => RowsAreCreations'
<1> SUFFICES ASSUME Inv, [Next]_vars PROVE RowsAreCreations'
  OBVIOUS
<1> USE DEF Inv, EffectStoreInv, RowsAreCreations, Creates
<1>1. ASSUME NEW d \in refunds'
      PROVE  /\ HasCommitted(d.id)' /\ Creates(d.id)'
             /\ d.key = input'[d.id].key /\ d.case = input'[d.id].case
  <2>1. ASSUME NEW e \in refunds, d.id = e.id, d.key = e.key, d.case = e.case
        PROVE  <1>1!2
    <3>1. d.id \in Requests
      BY RowsAfter DEF Refunds
    <3>2. HasCommitted(d.id) /\ Creates(d.id) /\ d.key = input[d.id].key
                             /\ d.case = input[d.id].case
      BY <2>1
    <3>3. HasCommitted(d.id)' /\ input'[d.id] = input[d.id]
      BY <3>1, <3>2, RequestSteps DEF HasCommitted
    <3> QED BY <3>2, <3>3
  <2>2. ASSUME d.id \in Requests, CommitCreate(d.id), d = Created(d.id)
        PROVE  <1>1!2
    <3>1. input' = input /\ Creates(d.id) /\ pc'[d.id] = "committed"
      BY <2>2 DEF CommitCreate, Goto, TypeOK
    <3>2. Created(d.id).key = input[d.id].key /\ Created(d.id).case = input[d.id].case
      BY DEF Created
    <3> QED BY <2>2, <3>1, <3>2 DEF HasCommitted
  <2> QED BY <2>1, <2>2, RowsAfter
<1>2. ASSUME NEW r \in Requests, HasCommitted(r)', Creates(r)'
      PROVE  \E d \in refunds' : d.id = r
  <2>1. CASE HasCommitted(r)
    <3>1. Creates(r)
      BY <1>2, <2>1, RequestSteps DEF HasCommitted
    <3>2. PICK e \in refunds : e.id = r
      BY <2>1, <3>1
    <3> QED BY <3>2, RowsAfter
  <2>2. CASE CommitCreate(r)
    <3>1. Created(r) \in refunds'
      BY <2>2 DEF CommitCreate, Created
    <3> QED BY <3>1 DEF Created
  <2>3. CASE CommitVoid(r)
    BY <1>2, <2>3 DEF CommitVoid
  <2> QED BY <1>2, <2>1, <2>2, <2>3, RequestSteps
<1>3. ASSUME NEW r \in Requests, pc'[r] = "replayed" PROVE KeyTaken(input[r].key)'
  <2>1. pc[r] # "idle" /\ (pc[r] = "replayed" \/ Look(r))
    BY <1>3, RequestSteps DEF Look
  <2>2. input'[r] = input[r] /\ KeyTaken(input[r].key)
    BY <1>3, <2>1, RequestSteps DEF Look, Found, Goto, TypeOK
  <2> QED BY <2>2, RowsAfter DEF KeyTaken
<1> QED BY <1>1, <1>2, <1>3, RowsAfter

\* Keys: the INSERT waits for others with the key, and others wait for it.
LEMMA StepKeys ==
    ASSUME Inv, [Next]_vars, NEW r \in Requests, HasWritten(r)', Creates(r)'
    PROVE  KeyFree(r)'
<1>0. /\ input'[r] = input[r] /\ Creates(r)
      /\ pc[r] # "updating"
      /\ HasWritten(r) \/ Insert(r)
  <2>1. HasWritten(r) \/ Insert(r) \/ Update(r)
    BY RequestSteps DEF Inv
  <2>2. input'[r] = input[r]
    BY <2>1, RequestSteps DEF Inv, HasWritten, Insert, Update
  <2>3. CASE Update(r)
    <3>1. pc[r] = "updating" /\ (\E e \in refunds : e.id = input[r])
      BY <2>3 DEF Update, HasWritten, Goto, Inv, TypeOK
    <3>2. input[r] \in Requests
      BY <3>1 DEF Inv, TypeOK, Refunds
    <3> QED BY <2>2, <3>2, EffectStoreAssumption DEF Creates
  <2> QED BY <2>1, <2>2, <2>3 DEF Creates, HasWritten, Insert
<1>1. KeyFree(r)
  BY <1>0 DEF Inv, EffectStoreInv, WritesAreExclusive, Insert
<1>2. ~\E d \in refunds' : d.key = input[r].key
  <2>1. ASSUME NEW d \in refunds', d.key = input[r].key PROVE FALSE
    <3>1. CASE \E e \in refunds : d.key = e.key
      BY <1>1, <2>1, <3>1 DEF KeyFree, KeyTaken
    <3>2. CASE d.id \in Requests /\ CommitCreate(d.id) /\ d = Created(d.id)
      <4>1. pc[d.id] = "committing" /\ pc'[d.id] = "committed" /\ Creates(d.id)
        BY <3>2 DEF CommitCreate, Goto, Inv, TypeOK
      <4>2. d.id # r
        BY <4>1 DEF HasWritten
      <4>3. input[d.id].key = d.key
        BY <3>2 DEF Created
      <4> QED BY <1>1, <2>1, <3>2, <4>1, <4>2, <4>3 DEF KeyFree, KeyPending, HasWritten
    <3> QED BY <3>1, <3>2, RowsAfter
  <2> QED BY <2>1
<1>3. ASSUME NEW s \in Requests \ {r}, HasWritten(s)', Creates(s)',
             input'[s].key = input'[r].key
      PROVE  FALSE
  <2>1. HasWritten(s) \/ Insert(s) \/ Update(s)
    BY <1>3, RequestSteps DEF Inv
  <2>2. input'[s] = input[s]
    BY <2>1, RequestSteps DEF Inv, HasWritten, Insert, Update
  <2>3. CASE HasWritten(s)
    BY <1>0, <1>1, <1>3, <2>2, <2>3 DEF KeyFree, KeyPending, Creates
  <2>4. CASE Insert(s)
    <3>1. KeyFree(s)
      BY <2>4 DEF Insert
    <3>2. pc'[r] = pc[r]
      BY <2>4 DEF Insert, Goto, Inv, TypeOK
    <3>3. HasWritten(r)
      BY <3>2 DEF HasWritten
    <3> QED BY <1>0, <1>3, <2>2, <3>1, <3>3 DEF KeyFree, KeyPending
  <2>5. CASE Update(s)
    <3>1. \E e \in refunds : e.id = input[s]
      BY <1>3, <2>5 DEF Update, HasWritten, Goto, Inv, TypeOK
    <3>2. input[s] \in Requests
      BY <3>1 DEF Inv, TypeOK, Refunds
    <3> QED BY <1>3, <2>2, <3>2, EffectStoreAssumption DEF Creates
  <2> QED BY <2>1, <2>3, <2>4, <2>5
<1> QED BY <1>0, <1>2, <1>3 DEF KeyFree, KeyPending, KeyTaken

\* Numbers: so does the INSERT of the log entry.
LEMMA StepSequences ==
    ASSUME Inv, [Next]_vars, NEW r \in Requests, HasLogged(r)'
    PROVE  SequenceFree(r)'
<1>1. /\ HasWritten(r) /\ seq'[r] = seq[r]
      /\ HasLogged(r) \/ AppendDecision(r)
  BY RequestSteps DEF Inv, HasWritten, HasLogged, AppendDecision
<1>2. CaseOf(r)' = CaseOf(r)
  BY <1>1, CaseStays
<1>3. SequenceFree(r)
  BY <1>1 DEF Inv, EffectStoreInv, WritesAreExclusive, AppendDecision
<1>4. ASSUME NEW l \in decisionLog', l.case = CaseOf(r), l.sequence = seq[r] PROVE FALSE
  <2>1. CASE l \in decisionLog
    BY <1>3, <1>4, <2>1 DEF SequenceFree, SequenceTaken
  <2>2. ASSUME NEW s \in Requests, NEW entity \in Requests, NEW to,
               pc[s] = "committing", pc'[s] = "committed", l = Entry(s, entity, to)
        PROVE  FALSE
    <3>1. s # r
      BY <2>2 DEF HasLogged
    <3>2. CaseOf(s) = CaseOf(r) /\ seq[s] = seq[r]
      BY <1>4, <2>2 DEF Entry
    <3> QED BY <1>3, <2>2, <3>1, <3>2 DEF SequenceFree, SequencePending, HasLogged
  <2> QED BY <2>1, <2>2, LogAfter
<1>5. ASSUME NEW s \in Requests \ {r}, HasLogged(s)', CaseOf(s)' = CaseOf(r),
             seq'[s] = seq[r]
      PROVE  FALSE
  <2>1. /\ HasWritten(s) /\ seq'[s] = seq[s]
        /\ HasLogged(s) \/ AppendDecision(s)
    BY <1>5, RequestSteps DEF Inv, HasWritten, HasLogged, AppendDecision
  <2>2. CaseOf(s)' = CaseOf(s)
    BY <2>1, CaseStays
  <2>3. CASE HasLogged(s)
    BY <1>3, <1>5, <2>1, <2>2, <2>3 DEF SequenceFree, SequencePending
  <2>4. CASE AppendDecision(s)
    <3>1. pc'[r] = pc[r]
      BY <2>4 DEF AppendDecision, Goto, Inv, TypeOK
    <3>2. HasLogged(r)
      BY <3>1 DEF HasLogged
    <3>3. SequenceFree(s)
      BY <2>4 DEF AppendDecision
    <3> QED BY <1>5, <2>1, <2>2, <3>2, <3>3 DEF SequenceFree, SequencePending
  <2> QED BY <2>1, <2>3, <2>4
<1>6. ~SequenceTaken(CaseOf(r), seq[r])'
  BY <1>1, <1>2, <1>4 DEF SequenceTaken
<1>7. ~SequencePending(r)'
  BY <1>1, <1>2, <1>5 DEF SequencePending
<1> QED BY <1>1, <1>2, <1>6, <1>7 DEF SequenceFree, SequenceTaken

LEMMA StepExclusive == Inv /\ [Next]_vars => WritesAreExclusive'
BY StepKeys, StepSequences DEF WritesAreExclusive

LEMMA StepNumbers == Inv /\ [Next]_vars => NumbersContinue'
<1> SUFFICES ASSUME Inv, [Next]_vars, NEW r \in Requests,
                    pc'[r] \in {"logging", "publishing", "committing"}
             PROVE  /\ seq'[r] > 0
                    /\ \/ seq'[r] = 1
                       \/ \E l \in decisionLog' :
                            l.case = CaseOf(r)' /\ l.sequence = seq'[r] - 1
  BY DEF NumbersContinue, SequenceTaken
<1>1. HasWritten(r)
  BY RequestSteps DEF Inv, HasWritten, NumberDecision
<1>2. CaseOf(r)' = CaseOf(r) /\ CaseOf(r) \in Cases
  BY <1>1, CaseStays, CasesAreCases
<1>3. \A n : SequenceTaken(CaseOf(r), n) => \E l \in decisionLog' :
                                              l.case = CaseOf(r)' /\ l.sequence = n
  BY <1>2, LogAfter DEF SequenceTaken
<1>4. CASE /\ pc[r] \in {"logging", "publishing", "committing"}
           /\ seq'[r] = seq[r]
  <2>1. /\ seq'[r] > 0
        /\ seq'[r] = 1 \/ SequenceTaken(CaseOf(r), seq'[r] - 1)
    BY <1>4 DEF Inv, EffectStoreInv, NumbersContinue
  <2> QED BY <1>3, <2>1 DEF SequenceTaken
<1>5. CASE NumberDecision(r)
  <2> DEFINE n == Cardinality(Entries(CaseOf(r)))
  <2>1. n \in Nat /\ seq'[r] = n + 1
    BY <1>2, <1>5, LastIsCount DEF NumberDecision, Inv, TypeOK, EffectStoreInv
  <2>2. \A i : i \in 1..n => SequenceTaken(CaseOf(r), i)
    BY <1>2, TakenNumbers DEF Inv, EffectStoreInv
  <2> HIDE DEF n
  <2>3. /\ seq'[r] > 0
        /\ seq'[r] = 1 \/ SequenceTaken(CaseOf(r), seq'[r] - 1)
    <3>1. seq'[r] - 1 = n
      BY <2>1
    <3>2. n = 0 \/ n \in 1..n
      BY <2>1
    <3> QED BY <2>1, <2>2, <3>1, <3>2
  <2> QED BY <1>3, <2>3 DEF SequenceTaken
<1> QED BY <1>4, <1>5, RequestSteps DEF Inv

\* A committed decision has the number after the last of its case.
LEMMA LogGrows ==
    ASSUME Inv, NEW r \in Requests, pc[r] = "committing",
           NEW entity \in Requests, NEW to \in {"COMMITTED", "VOIDED"},
           decisionLog' = decisionLog \cup {Entry(r, entity, to)}
    PROVE  /\ IsFiniteSet(decisionLog')
           /\ Entry(r, entity, to).sequence = Cardinality(Entries(CaseOf(r))) + 1
           /\ \A c \in Cases :
                {l.sequence : l \in Entries(c)}' = 1..Cardinality(Entries(c)')
<1> DEFINE new == Entry(r, entity, to)
           b == CaseOf(r)
           n == Cardinality(Entries(b))
<1>0. /\ new.case = b /\ new.sequence = seq[r]
      /\ b \in Cases
  BY CasesAreCases DEF Entry, HasWritten
<1>1. IsFiniteSet(decisionLog)
  BY DEF Inv, EffectStoreInv, DecisionsAgree
<1>2. seq[r] = n + 1
  BY FreeNumberIsNext DEF Inv, EffectStoreInv, WritesAreExclusive, HasWritten, HasLogged,
     SequenceFree
<1>3. n \in Nat
  BY <1>0, LastIsCount DEF Inv, EffectStoreInv
<1>4. IsFiniteSet(Entries(b)) /\ new \notin Entries(b)
  <2>1. Entries(b) \subseteq decisionLog
    BY DEF Entries
  <2>2. ~SequenceTaken(b, seq[r])
    BY DEF Inv, EffectStoreInv, WritesAreExclusive, HasLogged, SequenceFree
  <2>3. new \notin Entries(b)
    BY <1>0, <2>2 DEF Entries, SequenceTaken
  <2> QED BY <1>1, <2>1, <2>3, FS_Subset
<1>5. {l.sequence : l \in Entries(b)} = 1..n
  BY <1>0 DEF Inv, EffectStoreInv, HistoryIsReplayable
<1> HIDE DEF new, b, n
<1>6. \A c \in Cases : {l \in decisionLog' : l.case = c} =
                       IF c = b THEN Entries(c) \cup {new} ELSE Entries(c)
  BY <1>0 DEF Entries, new
<1>7. Cardinality(Entries(b) \cup {new}) = n + 1
  BY <1>4, FS_AddElement DEF n
<1>8. {l.sequence : l \in Entries(b) \cup {new}} = 1..(n + 1)
  <2>1. {l.sequence : l \in Entries(b) \cup {new}} =
        {l.sequence : l \in Entries(b)} \cup {new.sequence}
    OBVIOUS
  <2> QED BY <1>0, <1>2, <1>3, <1>5, <2>1
<1>9. ASSUME NEW c \in Cases
      PROVE  {l.sequence : l \in {m \in decisionLog' : m.case = c}} =
             1..Cardinality({m \in decisionLog' : m.case = c})
  <2>1. CASE c = b
    BY <1>6, <1>7, <1>8, <2>1
  <2>2. CASE c # b
    BY <1>6, <2>2 DEF Inv, EffectStoreInv, HistoryIsReplayable
  <2> QED BY <2>1, <2>2
<1>10. IsFiniteSet(decisionLog')
  BY <1>1, FS_AddElement
<1> QED BY <1>0, <1>2, <1>9, <1>10 DEF Entries, new, b, n

LEMMA StepLog == Inv /\ [Next]_vars => DecisionsAgree' /\ HistoryIsReplayable'
<1> SUFFICES ASSUME Inv, [Next]_vars PROVE DecisionsAgree' /\ HistoryIsReplayable'
  OBVIOUS
<1>0. DecisionsAgree /\ HistoryIsReplayable
  BY DEF Inv, EffectStoreInv
<1>1. CASE Moves \/ Projects \/ UNCHANGED vars
  <2>1. refunds' = refunds /\ decisionLog' = decisionLog
    BY <1>1, MovesLeaveTables DEF tables, vars, Projects, MarkEventApplied, RedeliverEvents
  <2> QED BY <1>0, <2>1 DEF DecisionsAgree, HistoryIsReplayable, Entries
<1>2. ASSUME NEW r \in Requests, CommitCreate(r)
      PROVE  DecisionsAgree' /\ HistoryIsReplayable'
  <2> DEFINE new == Entry(r, r, "COMMITTED")
  <2>1. /\ decisionLog' = decisionLog \cup {new}
        /\ refunds' = refunds \cup {Created(r)}
        /\ pc[r] = "committing"
    BY <1>2 DEF CommitCreate, Created
  <2>2. /\ new.entity = r /\ new.to = "COMMITTED" /\ new.case = input[r].case
        /\ Created(r).id = r /\ Created(r).case = input[r].case
        /\ Created(r).state = "COMMITTED"
    BY <1>2, CreatedType DEF Created, Entry
  <2>3. \A e \in refunds : e.id # r
    BY <2>1 DEF Inv, EffectStoreInv, RowsAreCreations, HasCommitted
  <2>4. \A l \in decisionLog : l.entity # r
    BY <1>0, <2>3 DEF DecisionsAgree
  <2>5. /\ IsFiniteSet(decisionLog')
        /\ \A c \in Cases :
                {l.sequence : l \in Entries(c)}' = 1..Cardinality(Entries(c)')
    BY <2>1, LogGrows
  <2> HIDE DEF new
  <2>6. \A l \in decisionLog' : \E e \in refunds' : e.id = l.entity /\ e.case = l.case
    BY <1>0, <2>1, <2>2 DEF DecisionsAgree
  <2>7. \A l, m \in decisionLog' :
            l.entity = m.entity /\ l.to = "COMMITTED" /\ m.to = "COMMITTED" => l = m
    BY <1>0, <2>1, <2>2, <2>4 DEF DecisionsAgree
  <2>8. ASSUME NEW e \in refunds'
        PROVE  /\ \E l \in decisionLog' : l.entity = e.id /\ l.to = "COMMITTED"
               /\ e.state = "VOIDED" <=>
                    \E l \in decisionLog' : l.entity = e.id /\ l.to = "VOIDED"
    <3>1. CASE e \in refunds
      BY <1>0, <2>1, <2>2, <2>3, <3>1 DEF DecisionsAgree
    <3>2. CASE e = Created(r)
      BY <2>1, <2>2, <2>4, <3>2
    <3> QED BY <2>1, <3>1, <3>2
  <2>9. \A l, m \in decisionLog' :
            l.entity = m.entity /\ l.to = "COMMITTED" /\ m.to = "VOIDED" =>
                l.sequence < m.sequence
    BY <1>0, <2>1, <2>2, <2>4 DEF HistoryIsReplayable
  <2> QED BY <2>5, <2>6, <2>7, <2>8, <2>9 DEF DecisionsAgree, HistoryIsReplayable
<1>3. ASSUME NEW r \in Requests, CommitVoid(r)
      PROVE  DecisionsAgree' /\ HistoryIsReplayable'
  <2> DEFINE new == Entry(r, input[r], "VOIDED")
  <2>1. /\ decisionLog' = decisionLog \cup {new}
        /\ pc[r] = "committing" /\ ~Creates(r)
    BY <1>3 DEF CommitVoid, VoidLogged
  <2>2. PICK e \in refunds : e.id = input[r]
    BY <2>1 DEF Inv, EffectStoreInv, RequestsHaveInput, HasWritten
  <2>3. input[r] \in Requests /\ e.case \in Cases
    BY <2>2 DEF Inv, TypeOK, Refunds
  <2>4. CaseOf(r) = e.case
    BY <2>1, <2>2, CaseOfVoid DEF Inv, EffectStoreInv
  <2>5. new.entity = input[r] /\ new.to = "VOIDED" /\ new.case = e.case
    BY <2>4 DEF Entry
  <2>6. /\ IsFiniteSet(decisionLog')
        /\ new.sequence = Cardinality(Entries(e.case)) + 1
        /\ \A c \in Cases :
                {l.sequence : l \in Entries(c)}' = 1..Cardinality(Entries(c)')
    BY <2>1, <2>3, <2>4, LogGrows
  <2>7. \A l \in decisionLog : l.entity = input[r] => l.case = e.case
    BY <1>0, <2>2 DEF DecisionsAgree, Inv, EffectStoreInv, RowsAreCreations
  <2>8. ASSUME NEW l \in decisionLog, l.entity = input[r]
        PROVE  l.sequence < new.sequence
    <3>1. l.sequence \in {m.sequence : m \in Entries(e.case)}
      BY <2>7, <2>8 DEF Entries
    <3>2. l.sequence \in 1..Cardinality(Entries(e.case))
      BY <1>0, <2>3, <3>1 DEF HistoryIsReplayable
    <3>3. Cardinality(Entries(e.case)) \in Nat
      BY <1>0, <2>3, LastIsCount
    <3> QED BY <2>6, <3>2, <3>3
  <2> HIDE DEF new
  <2>9. /\ \A d \in refunds' : \E x \in refunds :
             /\ d.id = x.id /\ d.case = x.case
             /\ d.state = IF x.id = input[r] THEN "VOIDED" ELSE x.state
        /\ \A x \in refunds : \E d \in refunds' : d.id = x.id /\ d.case = x.case
    BY <1>3, VoidedRows
  <2>10. \A l \in decisionLog' : \E d \in refunds' : d.id = l.entity /\ d.case = l.case
    <3>1. \A l \in decisionLog' : \E x \in refunds : x.id = l.entity /\ x.case = l.case
      BY <1>0, <2>1, <2>2, <2>5 DEF DecisionsAgree
    <3> QED BY <2>9, <3>1
  <2>11. \A l, m \in decisionLog' :
            l.entity = m.entity /\ l.to = "COMMITTED" /\ m.to = "COMMITTED" => l = m
    BY <1>0, <2>1, <2>5 DEF DecisionsAgree
  <2>12. ASSUME NEW d \in refunds'
         PROVE  /\ \E l \in decisionLog' : l.entity = d.id /\ l.to = "COMMITTED"
                /\ d.state = "VOIDED" <=>
                    \E l \in decisionLog' : l.entity = d.id /\ l.to = "VOIDED"
    <3>1. PICK x \in refunds :
            /\ d.id = x.id
            /\ d.state = IF x.id = input[r] THEN "VOIDED" ELSE x.state
      BY <2>9
    <3>2. /\ \E l \in decisionLog : l.entity = x.id /\ l.to = "COMMITTED"
          /\ x.state = "VOIDED" <=> \E l \in decisionLog : l.entity = x.id /\ l.to = "VOIDED"
      BY <1>0 DEF DecisionsAgree
    <3> QED BY <2>1, <2>5, <3>1, <3>2
  <2>13. \A l, m \in decisionLog' :
            l.entity = m.entity /\ l.to = "COMMITTED" /\ m.to = "VOIDED" =>
                l.sequence < m.sequence
    BY <1>0, <2>1, <2>5, <2>8 DEF HistoryIsReplayable
  <2> QED BY <2>6, <2>10, <2>11, <2>12, <2>13 DEF DecisionsAgree, HistoryIsReplayable
<1> QED BY <1>1, <1>2, <1>3, Steps

LEMMA StepEvents == Inv /\ [Next]_vars => EventsAgree'
<1> SUFFICES ASSUME Inv, [Next]_vars PROVE EventsAgree'
  OBVIOUS
<1>0. /\ EventsAgree
      /\ nextId \in Nat /\ events \subseteq Events
      /\ \A v \in events : v.id \in Nat
  BY DEF Inv, EffectStoreInv, TypeOK, Events
<1> DEFINE Taken(r) ==
        /\ eventId'[r] \in 1..(nextId' - 1)
        /\ \A v \in events' : v.id # eventId'[r]
        /\ \A s \in Requests \ {r} :
             pc'[s] = "committing" /\ Creates(s)' => eventId'[s] # eventId'[r]
           Shown ==
        /\ \A v \in events' :
             /\ \E e \in refunds' : e.id = v.entity /\ e.case = v.case
             /\ v.id < nextId'
        /\ \A v, w \in events' : v.id = w.id \/ v.entity = w.entity => v = w
        /\ \A e \in refunds' : \E v \in events' : v.entity = e.id
\* Rows and events.
<1>1. Shown
  <2>1. CASE Moves \/ UNCHANGED vars
    <3>1. /\ refunds' = refunds /\ events' = events
          /\ nextId' \in {nextId, nextId + 1}
      <4>1. CASE UNCHANGED vars
        BY <4>1 DEF vars
      <4>2. CASE Moves
        BY <4>2 DEF Moves, Arrive, Create, Void, Look, Insert, InsertFails, Update, NumberDecision,
           AppendDecision, AppendFails, Publish, PublishedLater, Acknowledge, Crash, tables
      <4> QED BY <2>1, <4>1, <4>2
    <3>2. \A v \in events : v.id < nextId'
      BY <1>0, <3>1 DEF EventsAgree
    <3> QED BY <1>0, <3>1, <3>2 DEF EventsAgree
  <2>2. CASE Projects
    <3>1. refunds' = refunds /\ nextId' = nextId
      BY <2>2 DEF Projects, MarkEventApplied, RedeliverEvents
    <3> QED BY <1>0, <2>2, <3>1, ProjectedEvents DEF EventsAgree
  <2>3. ASSUME NEW r \in Requests, CommitVoid(r) PROVE Shown
    <3>1. events' = events /\ nextId' = nextId
      BY <2>3 DEF CommitVoid
    <3>2. /\ \A e \in refunds : \E d \in refunds' : d.id = e.id /\ d.case = e.case
          /\ \A d \in refunds' : \E e \in refunds : d.id = e.id
      BY <2>3, VoidedRows
    <3> QED BY <1>0, <3>1, <3>2 DEF EventsAgree
  <2>4. ASSUME NEW r \in Requests, CommitCreate(r) PROVE Shown
    <3> DEFINE new == NewEvent(r, eventId[r])
    <3>1. /\ events' = events \cup {new} /\ refunds' = refunds \cup {Created(r)}
          /\ nextId' = nextId /\ pc[r] = "committing" /\ Creates(r)
      BY <2>4 DEF CommitCreate, Created
    <3>2. /\ new.id = eventId[r] /\ new.entity = r /\ new.case = input[r].case
          /\ Created(r).id = r /\ Created(r).case = input[r].case
      BY DEF NewEvent, Created
    <3>3. eventId[r] \in 1..(nextId - 1) /\ \A v \in events : v.id # eventId[r]
      BY <1>0, <3>1 DEF EventsAgree
    <3>4. \A e \in refunds : e.id # r
      BY <3>1 DEF Inv, EffectStoreInv, RowsAreCreations, HasCommitted
    <3>5. \A v \in events : v.entity # r
      BY <1>0, <3>4 DEF EventsAgree
    <3>6. eventId[r] < nextId
      BY <1>0, <3>3
    <3> HIDE DEF new
    <3>7. \A v \in events' :
             /\ \E e \in refunds' : e.id = v.entity /\ e.case = v.case
             /\ v.id < nextId'
      BY <1>0, <3>1, <3>2, <3>6 DEF EventsAgree
    <3>8. \A v, w \in events' : v.id = w.id \/ v.entity = w.entity => v = w
      BY <1>0, <3>1, <3>2, <3>3, <3>5 DEF EventsAgree
    <3>9. \A e \in refunds' : \E v \in events' : v.entity = e.id
      BY <1>0, <3>1, <3>2 DEF EventsAgree
    <3> QED BY <3>7, <3>8, <3>9
  <2> QED BY <2>1, <2>2, <2>3, <2>4, Steps
\* Numbers of events that are yet to be committed.
<1>2. nextId' \in Nat /\ nextId <= nextId'
  <2>1. CASE UNCHANGED vars \/ Projects
    BY <1>0, <2>1 DEF vars, Projects, MarkEventApplied, RedeliverEvents
  <2>2. ASSUME NEW r \in Requests, Arrive(r) \/ Crash(r) PROVE nextId' = nextId
    BY <2>2 DEF Arrive, Create, Void, Crash
  <2>3. ASSUME NEW r \in Requests, Proceed(r) PROVE nextId' \in {nextId, nextId + 1}
    BY <2>3 DEF Proceed, Look, Insert, InsertFails, Update, NumberDecision,
       AppendDecision, AppendFails, Publish, CommitCreate, CommitVoid, Acknowledge
  <2> QED BY <1>0, <2>1, <2>2, <2>3 DEF Next, Projects
<1>3. \A r \in Requests : Publish(r) =>
        /\ eventId'[r] = nextId /\ nextId' = nextId + 1 /\ events' = events
        /\ nextId \in Nat \ {0}
        /\ \A s \in Requests \ {r} : eventId'[s] = eventId[s] /\ pc'[s] = pc[s]
  BY DEF Publish, PublishedLater, Goto, Inv, TypeOK
<1>4. ASSUME NEW r \in Requests, pc'[r] = "committing", Creates(r)' PROVE Taken(r)
  <2>1. CASE pc[r] = "committing" /\ eventId'[r] = eventId[r]
    <3>1. Creates(r)
      BY <1>4, <2>1, RequestSteps DEF Inv, Creates
    <3>2. /\ eventId[r] \in 1..(nextId - 1)
          /\ \A v \in events : v.id # eventId[r]
          /\ \A s \in Requests \ {r} :
               pc[s] = "committing" /\ Creates(s) => eventId[s] # eventId[r]
      BY <1>0, <2>1, <3>1 DEF EventsAgree
    <3>3. eventId'[r] \in 1..(nextId' - 1)
      BY <1>0, <1>2, <2>1, <3>2
    <3>4. \A v \in events' : v.id # eventId[r]
      <4>1. CASE Projects
        BY <3>2, <4>1, ProjectedEvents
      <4>2. CASE Moves \/ UNCHANGED vars \/ \E s \in Requests : CommitVoid(s)
        BY <3>2, <4>2, MovesLeaveTables DEF tables, vars, CommitVoid
      <4>3. ASSUME NEW s \in Requests, CommitCreate(s)
            PROVE  \A v \in events' : v.id # eventId[r]
        <5>1. /\ events' = events \cup {NewEvent(s, eventId[s])}
              /\ pc[s] = "committing" /\ Creates(s) /\ pc'[s] = "committed"
          BY <4>3 DEF CommitCreate, Goto, Inv, TypeOK
        <5>2. s # r
          BY <1>4, <5>1
        <5>3. NewEvent(s, eventId[s]).id # eventId[r]
          BY <3>2, <5>1, <5>2 DEF NewEvent
        <5> QED BY <3>2, <5>1, <5>3
      <4> QED BY <4>1, <4>2, <4>3, Steps
    <3>5. ASSUME NEW s \in Requests \ {r}, pc'[s] = "committing", Creates(s)'
          PROVE  eventId'[s] # eventId[r]
      <4>1. CASE pc[s] = "committing" /\ eventId'[s] = eventId[s]
        <5>1. Creates(s)
          BY <3>5, <4>1, RequestSteps DEF Inv, Creates
        <5> QED BY <3>2, <4>1, <5>1
      <4>2. CASE Publish(s)
        BY <1>0, <1>3, <3>2, <4>2
      <4> QED BY <3>5, <4>1, <4>2, RequestSteps DEF Inv
    <3> QED BY <2>1, <3>3, <3>4, <3>5
  <2>2. CASE Publish(r)
    <3>1. \A v \in events' : v.id < nextId
      BY <1>0, <1>3, <2>2 DEF EventsAgree
    <3>2. ASSUME NEW s \in Requests \ {r}, pc'[s] = "committing", Creates(s)'
          PROVE  eventId'[s] # nextId
      <4>1. pc[s] = "committing" /\ eventId'[s] = eventId[s]
        BY <1>3, <2>2, <3>2
      <4>2. Creates(s)
        BY <3>2, <4>1, RequestSteps DEF Inv, Creates
      <4>3. eventId[s] \in 1..(nextId - 1)
        BY <1>0, <4>1, <4>2 DEF EventsAgree
      <4> QED BY <1>0, <4>1, <4>3
    <3> QED BY <1>0, <1>3, <2>2, <3>1, <3>2
  <2> QED BY <1>4, <2>1, <2>2, RequestSteps DEF Inv
<1> QED BY <1>1, <1>4 DEF EventsAgree, Creates

\* The invariant holds.
THEOREM Invariance == Spec => []Inv
<1>1. Inv /\ [Next]_vars => Inv'
  BY StepType, StepInputs, StepRows, StepExclusive, StepNumbers, StepLog, StepEvents
     DEF Inv, EffectStoreInv
<1> QED BY <1>1, InitInv, PTL DEF Spec

-----------------------------------------------------------------------------
(***************************************************************************)
(* What it shows.                                                          *)
(***************************************************************************)
\* The state of a service has its type.
THEOREM TypeCorrect == Spec => []TypeOK
BY Invariance, PTL DEF Inv

\* Effect, log and outbox tell the same story, whatever fails half way.
THEOREM TablesAreOneStory == Spec => []TablesAgree
<1>1. Inv => TablesAgree
  <2> SUFFICES ASSUME Inv PROVE TablesAgree
    OBVIOUS
  <2>0. DecisionsAgree /\ EventsAgree
    BY DEF Inv, EffectStoreInv
  <2>1. ASSUME NEW e \in refunds
        PROVE  /\ Cardinality({v \in events : v.entity = e.id}) = 1
               /\ Cardinality({l \in decisionLog : l.entity = e.id /\ l.to = "COMMITTED"}) = 1
               /\ e.state = "VOIDED" <=>
                    \E l \in decisionLog : l.entity = e.id /\ l.to = "VOIDED"
    <3>1. PICK v \in events : {w \in events : w.entity = e.id} = {v}
      BY <2>0 DEF EventsAgree
    <3>2. PICK l \in decisionLog :
            {m \in decisionLog : m.entity = e.id /\ m.to = "COMMITTED"} = {l}
      BY <2>0 DEF DecisionsAgree
    <3> QED BY <2>0, <3>1, <3>2, FS_Singleton DEF DecisionsAgree
  <2> QED BY <2>0, <2>1 DEF TablesAgree, DecisionsAgree, EventsAgree
<1> QED BY <1>1, Invariance, PTL

\* The decisions of a case are numbered without a gap, creation before void, though a
\* number is computed by one statement and written by another.
THEOREM HistoryCanBeReplayed == Spec => []HistoryIsReplayable
<1>1. Inv => HistoryIsReplayable
  BY DEF Inv, EffectStoreInv
<1> QED BY <1>1, Invariance, PTL

\* One effect for a key, and answers that stay true.
THEOREM AnswersStayTrue == Spec => []AnswersAreTrue
<1>1. Inv => AnswersAreTrue
  <2> SUFFICES ASSUME Inv PROVE AnswersAreTrue
    OBVIOUS
  <2>0. RowsAreCreations /\ EventsAgree
    BY DEF Inv, EffectStoreInv
  <2>1. \A d, e \in refunds : d # e => d.id # e.id /\ d.key # e.key
    BY <2>0 DEF RowsAreCreations
  <2>2. ASSUME NEW r \in Requests, pc[r] = "failed"
        PROVE  ~\E e \in refunds, v \in events : e.id = r \/ v.entity = r
    <3>1. \A e \in refunds : e.id # r
      BY <2>0, <2>2 DEF RowsAreCreations, HasCommitted
    <3> QED BY <2>0, <3>1 DEF EventsAgree
  <2>3. ASSUME NEW r \in Requests, pc[r] \in {"acknowledged", "unacknowledged"}, Creates(r)
        PROVE  \E e \in refunds : e.id = r /\ e.key = input[r].key
    BY <2>0, <2>3 DEF RowsAreCreations, HasCommitted
  <2> QED BY <2>0, <2>1, <2>2, <2>3 DEF AnswersAreTrue, RowsAreCreations
<1> QED BY <1>1, Invariance, PTL

-----------------------------------------------------------------------------
(***************************************************************************)
(* Refinement.                                                             *)
(***************************************************************************)
LEMMA RefinesCreate ==
    ASSUME Inv, NEW r \in Requests, CommitCreate(r)
    PROVE  Promise!CreateEffect(Service, r, input[r].key, input[r].case, eventId[r])
<1>1. \A e \in refunds : e.id # r /\ e.key # input[r].key
  BY DEF Inv, EffectStoreInv, RowsAreCreations, WritesAreExclusive, HasCommitted,
     HasWritten, KeyFree, KeyTaken, CommitCreate
<1>2. \A v \in events : v.id # eventId[r]
  BY DEF Inv, EffectStoreInv, EventsAgree, CommitCreate
<1>3. /\ refunds' = refunds \cup {[id |-> r, key |-> input[r].key, case |-> input[r].case,
                                   state |-> "COMMITTED"]}
      /\ events' = events \cup {[id |-> eventId[r], entity |-> r, case |-> input[r].case,
                                 applied |-> FALSE]}
  BY DEF CommitCreate, NewEvent
<1> QED BY <1>1, <1>2, <1>3 DEF Promise!CreateEffect

LEMMA RefinesVoid ==
    ASSUME Inv, NEW r \in Requests, CommitVoid(r)
    PROVE  \E e \in refunds : Promise!VoidEffect(Service, e)
<1>1. PICK e \in refunds : e.id = input[r]
  BY DEF CommitVoid, Inv, EffectStoreInv, RequestsHaveInput, HasWritten
<1>2. \A d \in refunds : d.id = input[r] => d = e
  BY <1>1 DEF Inv, EffectStoreInv, RowsAreCreations
<1> DEFINE After(d) == [d EXCEPT !.state = "VOIDED"]
<1>3. refunds' = {IF d.id = input[r] THEN After(d) ELSE d : d \in refunds}
  BY DEF CommitVoid
<1>4. refunds' = (refunds \ {e}) \cup {After(e)}
  <2> HIDE DEF After
  <2> QED BY <1>1, <1>2, <1>3
<1>5. UNCHANGED events
  BY DEF CommitVoid
<1> QED BY <1>4, <1>5 DEF Promise!VoidEffect

LEMMA RefinesProjects ==
    ASSUME Inv, Projects PROVE Promise!StoreNext(Service)
<1>1. ASSUME NEW v \in events, MarkEventApplied(v) PROVE Promise!MarkApplied(Service, v)
  BY <1>1 DEF MarkEventApplied, Promise!MarkApplied
<1>2. ASSUME NEW c \in Cases, RedeliverEvents(c) PROVE Promise!Redeliver(Service, c)
  BY <1>2 DEF RedeliverEvents, Promise!Redeliver
<1> QED BY <1>1, <1>2 DEF Projects, Promise!StoreNext

LEMMA RefinesStep == Inv /\ [Next]_vars => [Promise!EffectsNext]_Promise!effectVars
<1> SUFFICES ASSUME Inv, [Next]_vars
             PROVE  Promise!StoreNext(Service) \/ UNCHANGED Promise!effectVars
  BY DEF Promise!EffectsNext
<1>1. CASE Moves \/ UNCHANGED vars
  <2>1. refunds' = refunds /\ events' = events
    BY <1>1, MovesLeaveTables DEF tables, vars
  <2> QED BY <2>1 DEF Promise!effectVars
<1>2. CASE Projects
  BY <1>2, RefinesProjects
<1>3. ASSUME NEW r \in Requests, CommitCreate(r) PROVE Promise!StoreNext(Service)
  <2>1. /\ input[r].key \in Keys /\ input[r].case \in Cases
        /\ eventId[r] \in 1..MaxId
    BY <1>3 DEF CommitCreate, Creates, Inputs, Inv, TypeOK, EffectStoreInv, EventsAgree
  <2> QED BY <1>3, <2>1, RefinesCreate DEF Promise!StoreNext
<1>4. ASSUME NEW r \in Requests, CommitVoid(r) PROVE Promise!StoreNext(Service)
  BY <1>4, RefinesVoid DEF Promise!StoreNext
<1> QED BY <1>1, <1>2, <1>3, <1>4, Steps

\* The service, with its statements, collisions and crashes, keeps what Effects promises.
THEOREM Refinement == Spec => ImplementsEffects
<1>1. Init => Promise!EffectsInit
  BY DEF Init, Promise!EffectsInit
<1>2. Inv /\ [Next]_vars => [Promise!EffectsNext]_Promise!effectVars
  BY RefinesStep
<1> QED BY <1>1, <1>2, Invariance, PTL DEF Spec, ImplementsEffects, Promise!EffectsSpec

-----------------------------------------------------------------------------
(***************************************************************************)
(* Nobody waits for somebody who waits.                                    *)
(***************************************************************************)
\* A statement waits for another transaction's write of the same key, row or number, and
\* fails as soon as such a write is committed.
AwaitsKey(r) == pc[r] = "inserting" /\ ~KeyTaken(input[r].key) /\ KeyPending(r)
AwaitsRow(r) == pc[r] = "updating" /\ (\E e \in refunds : e.id = input[r]) /\ RowPending(r)
AwaitsNumber(r) ==
    pc[r] = "logging" /\ ~SequenceTaken(CaseOf(r), seq[r]) /\ SequencePending(r)

SomebodyGoesOn ==
    (\E r \in Requests : Underway(r)) =>
        \E r \in Requests :
            Underway(r) /\ ~AwaitsKey(r) /\ ~AwaitsRow(r) /\ ~AwaitsNumber(r)

\* Creations and voids never hold each other up, however many there are of them: keys and
\* rows are waited for before anything is written, a number after that, and whoever has
\* logged under its number waits for nothing.
THEOREM NoDeadlock == Spec => []SomebodyGoesOn
<1>1. SomebodyGoesOn
  <2> SUFFICES ASSUME NEW r \in Requests, Underway(r)
               PROVE  \E s \in Requests :
                        Underway(s) /\ ~AwaitsKey(s) /\ ~AwaitsRow(s) /\ ~AwaitsNumber(s)
    BY DEF SomebodyGoesOn
  <2> USE DEF AwaitsKey, AwaitsRow, AwaitsNumber, Underway, Answers, HasWritten, HasLogged
  <2>1. CASE \E s \in Requests : HasLogged(s)
    BY <2>1
  <2>2. CASE /\ \A s \in Requests : ~HasLogged(s)
             /\ \E s \in Requests : pc[s] \in {"numbering", "logging"}
    <3>1. \A s \in Requests : ~SequencePending(s)
      BY <2>2 DEF SequencePending
    <3> QED BY <2>2, <3>1
  <2>3. CASE \A s \in Requests : ~HasWritten(s)
    <3>1. \A s \in Requests : ~KeyPending(s) /\ ~RowPending(s)
      BY <2>3 DEF KeyPending, RowPending
    <3> QED BY <2>3, <3>1
  <2> QED BY <2>1, <2>2, <2>3
<1> QED BY <1>1, PTL
=============================================================================
