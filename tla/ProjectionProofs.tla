-------------------------- MODULE ProjectionProofs --------------------------
(***************************************************************************)
(* Theorems about the CRM's projection, for any number of services,        *)
(* events, cases and projectors.                                           *)
(***************************************************************************)
EXTENDS Projection, TLAPS

Inv == TypeOK /\ ProjectionInv

-----------------------------------------------------------------------------
(***************************************************************************)
(* What the services do to their outboxes.                                 *)
(***************************************************************************)
\* Whatever a service does, its state keeps its type and no event disappears.
OutboxGrows ==
    /\ effects' \in [Services -> SUBSET Rows]
    /\ outbox' \in [Services -> SUBSET Events]
    /\ \A e \in Refs : Published(e) => Published(e)'

LEMMA CreatedEvents ==
    ASSUME TypeOK, NEW s \in Services, NEW r \in Requests, NEW k \in Keys,
           NEW c \in Cases, NEW i \in EventIds, CreateEffect(s, r, k, c, i)
    PROVE  /\ OutboxGrows
           /\ \A t \in Services : \A v \in outbox'[t] : v.applied => v \in outbox[t]
<1>1. /\ [id |-> r, key |-> k, case |-> c, state |-> "COMMITTED"] \in Rows
      /\ [id |-> i, entity |-> r, case |-> c, applied |-> FALSE] \in Events
  BY DEF Rows, Events
<1>2. /\ effects' \in [Services -> SUBSET Rows]
      /\ outbox' \in [Services -> SUBSET Events]
  BY <1>1 DEF TypeOK, CreateEffect
<1>3. \A t \in Services : outbox[t] \subseteq outbox'[t]
  BY DEF TypeOK, CreateEffect
<1>4. \A e \in Refs : Published(e) => Published(e)'
  BY <1>3 DEF Published, Refs
<1>5. \A t \in Services : \A v \in outbox'[t] :
        v \in outbox[t] \/ v = [id |-> i, entity |-> r, case |-> c, applied |-> FALSE]
  BY DEF TypeOK, CreateEffect
<1> QED BY <1>2, <1>4, <1>5 DEF OutboxGrows

LEMMA MarkedEvents ==
    ASSUME TypeOK, NEW s \in Services, NEW v \in outbox[s], MarkApplied(s, v)
    PROVE  /\ OutboxGrows
           /\ \A t \in Services : \A w \in outbox'[t] :
                w \in outbox[t] \/ (t = s /\ w.id = v.id)
<1> DEFINE w == [v EXCEPT !.applied = TRUE]
<1>1. v \in Events
  BY DEF TypeOK
<1>2. w \in Events /\ w.id = v.id
  BY <1>1 DEF Events
<1> HIDE DEF w
<1>3. outbox' = [outbox EXCEPT ![s] = (@ \ {v}) \cup {w}]
  BY DEF MarkApplied, w
<1>4. outbox' \in [Services -> SUBSET Events]
  BY <1>2, <1>3 DEF TypeOK
<1>5. /\ outbox'[s] = (outbox[s] \ {v}) \cup {w}
      /\ \A t \in Services \ {s} : outbox'[t] = outbox[t]
  BY <1>3 DEF TypeOK
<1>6. \A e \in Refs : Published(e) => Published(e)'
  BY <1>2, <1>5 DEF Published, Refs
<1>7. effects' \in [Services -> SUBSET Rows]
  BY DEF MarkApplied, TypeOK
<1> QED BY <1>2, <1>4, <1>5, <1>6, <1>7 DEF OutboxGrows

LEMMA RedeliveredEvents ==
    ASSUME TypeOK, NEW s \in Services, NEW c \in Cases, Redeliver(s, c)
    PROVE  /\ OutboxGrows
           /\ \A t \in Services : \A v \in outbox'[t] : v.applied => v \in outbox[t]
<1> DEFINE Again(v) == IF v.case = c THEN [v EXCEPT !.applied = FALSE] ELSE v
<1>1. \A v \in Events : /\ Again(v) \in Events
                        /\ Again(v).id = v.id
                        /\ Again(v).applied => Again(v) = v
  BY DEF Events
<1>2. outbox' = [outbox EXCEPT ![s] = {Again(v) : v \in outbox[s]}]
  BY DEF Redeliver
<1> HIDE DEF Again
<1>3. /\ outbox'[s] = {Again(v) : v \in outbox[s]}
      /\ \A t \in Services \ {s} : outbox'[t] = outbox[t]
      /\ outbox[s] \subseteq Events
  BY <1>2 DEF TypeOK
<1>4. {Again(v) : v \in outbox[s]} \subseteq Events
  BY <1>1, <1>3
<1>5. outbox' \in [Services -> SUBSET Events]
  BY <1>2, <1>4 DEF TypeOK
<1>6. ASSUME NEW e \in Refs, Published(e)
      PROVE  Published(e)'
  <2>1. e[1] \in Services
    BY DEF Refs
  <2>2. CASE e[1] = s
    <3>1. PICK v \in outbox[s] : v.id = e[2]
      BY <1>6, <2>2 DEF Published
    <3>2. Again(v) \in outbox'[s] /\ Again(v).id = e[2]
      BY <1>1, <1>3, <3>1
    <3> QED BY <2>2, <3>2 DEF Published
  <2>3. CASE e[1] # s
    BY <1>3, <1>6, <2>1, <2>3 DEF Published
  <2> QED BY <2>2, <2>3
<1>7. \A t \in Services : \A v \in outbox'[t] : v.applied => v \in outbox[t]
  BY <1>1, <1>3
<1>8. effects' \in [Services -> SUBSET Rows]
  BY DEF Redeliver, TypeOK
<1> QED BY <1>5, <1>6, <1>7, <1>8 DEF OutboxGrows

-----------------------------------------------------------------------------
(***************************************************************************)
(* The invariant holds initially, and each step preserves it.              *)
(***************************************************************************)
LEMMA Initially == Init => Inv
<1> SUFFICES ASSUME Init PROVE Inv
  OBVIOUS
<1>1. TypeOK
  BY DEF Init, EffectsInit, TypeOK, Refs
<1>2. ProjectionInv
  BY DEF Init, EffectsInit, ProjectionInv, TotalIsExact, NothingIsLost,
         HandedEventsArePublished, FoldsAreExclusive, MarkedIsFolded, LeftIsInHand
<1> QED BY <1>1, <1>2 DEF Inv

\* A step of the services leaves the projectors alone.
LEMMA ServiceStep ==
    ASSUME Inv, NEW s \in Services, Publishing(s)
    PROVE  Inv'
<1>1. /\ OutboxGrows
      /\ \A t \in Services : \A v \in outbox'[t] : v.applied => v \in outbox[t]
  BY CreatedEvents, RedeliveredEvents DEF Inv, Publishing
<1>2. UNCHANGED <<appliedEvents, total, pc, case, todo, service, batch, event, polled>>
  BY DEF Publishing, crmVars, projectorVars
<1>3. TypeOK'
  BY <1>1, <1>2 DEF Inv, TypeOK, OutboxGrows
<1>4. TotalIsExact'
  BY <1>1, <1>2 DEF Inv, ProjectionInv, TotalIsExact, OutboxGrows
<1>5. NothingIsLost'
  BY <1>1, <1>2 DEF Inv, ProjectionInv, NothingIsLost
<1>6. HandedEventsArePublished'
  BY <1>1, <1>2 DEF Inv, TypeOK, ProjectionInv, HandedEventsArePublished, OutboxGrows, Refs
<1>7. FoldsAreExclusive' /\ MarkedIsFolded' /\ LeftIsInHand'
  BY <1>2 DEF Inv, ProjectionInv, FoldsAreExclusive, MarkedIsFolded, LeftIsInHand, Current
<1> QED BY <1>3, <1>4, <1>5, <1>6, <1>7 DEF Inv, ProjectionInv

\* Whoever ends a run has nothing in hand any more.
LEMMA EndStep ==
    ASSUME Inv, NEW p \in Projectors, NEW outcome \in {"finished", "failed"},
           End(p, outcome)
    PROVE  Inv'
<1>1. /\ UNCHANGED <<effects, outbox, appliedEvents, total, case, polled>>
      /\ pc' = [pc EXCEPT ![p] = outcome]
  BY DEF End, Goto, effectVars, crmVars
<1>2. TypeOK'
  BY <1>1 DEF Inv, TypeOK, End
<1>3. /\ pc'[p] \notin {"polling", "applying", "inserting", "folding", "marking"}
      /\ \A q \in Projectors \ {p} :
            pc'[q] = pc[q] /\ service'[q] = service[q] /\ batch'[q] = batch[q] /\ event'[q] = event[q]
  BY <1>1 DEF Inv, TypeOK, End
<1>4. TotalIsExact' /\ NothingIsLost'
  BY <1>1 DEF Inv, ProjectionInv, TotalIsExact, NothingIsLost, Published
<1>5. HandedEventsArePublished'
  BY <1>1, <1>3 DEF Inv, ProjectionInv, HandedEventsArePublished, Published
<1>6. FoldsAreExclusive' /\ MarkedIsFolded'
  BY <1>1, <1>3 DEF Inv, ProjectionInv, FoldsAreExclusive, MarkedIsFolded, Current
<1>7. LeftIsInHand'
  BY <1>1, <1>3 DEF Inv, ProjectionInv, LeftIsInHand
<1> QED BY <1>2, <1>4, <1>5, <1>6, <1>7 DEF Inv, ProjectionInv

LEMMA StartStep ==
    ASSUME Inv, NEW p \in Projectors, NEW c \in Cases, NEW order \in Orders,
           Start(p, c, order)
    PROVE  Inv'
<1>1. UNCHANGED <<effects, outbox, appliedEvents, total, service, batch, event>>
  BY DEF Start, effectVars, crmVars
<1>2. TypeOK'
  BY <1>1, ProjectionAssumption DEF Inv, TypeOK, Start, Goto
<1>3. /\ pc'[p] = "polling" /\ polled'[p] = {}
      /\ \A q \in Projectors \ {p} : pc'[q] = pc[q] /\ polled'[q] = polled[q]
  BY DEF Inv, TypeOK, Start, Goto
<1>4. TotalIsExact' /\ NothingIsLost'
  BY <1>1 DEF Inv, ProjectionInv, TotalIsExact, NothingIsLost, Published
<1>5. HandedEventsArePublished'
  BY <1>1, <1>3 DEF Inv, ProjectionInv, HandedEventsArePublished, Published
<1>6. FoldsAreExclusive' /\ MarkedIsFolded'
  BY <1>1, <1>3 DEF Inv, ProjectionInv, FoldsAreExclusive, MarkedIsFolded, Current
<1>7. LeftIsInHand'
  BY <1>1, <1>3 DEF Inv, ProjectionInv, LeftIsInHand
<1> QED BY <1>2, <1>4, <1>5, <1>6, <1>7 DEF Inv, ProjectionInv

LEMMA PollStep ==
    ASSUME Inv, NEW p \in Projectors, Poll(p)
    PROVE  Inv'
<1> DEFINE s == Head(todo[p])
           ids == Unapplied(s, case[p])
<1>1. /\ UNCHANGED <<effects, outbox, appliedEvents, total, case, event>>
      /\ pc[p] = "polling"
      /\ pc' = [pc EXCEPT ![p] = "applying"]
      /\ service' = [service EXCEPT ![p] = s]
      /\ batch' = [batch EXCEPT ![p] = ids]
      /\ polled' = [polled EXCEPT ![p] = @ \cup ({s} \X ids)]
      /\ todo' = [todo EXCEPT ![p] = Tail(@)]
      /\ todo[p] # <<>>
  BY DEF Poll, Goto, effectVars, crmVars
<1>2. s \in Services /\ Tail(todo[p]) \in Seq(Services)
  BY <1>1 DEF Inv, TypeOK
<1>3. ids \subseteq EventIds /\ \A i \in ids : Published(<<s, i>>)
  BY <1>2 DEF Inv, TypeOK, Unapplied, Published, Events
<1> HIDE DEF s, ids
<1>4. {s} \X ids \subseteq Refs
  BY <1>2, <1>3 DEF Refs
<1>5. TypeOK'
  BY <1>1, <1>2, <1>3, <1>4 DEF Inv, TypeOK
<1>6. /\ pc'[p] = "applying" /\ service'[p] = s /\ batch'[p] = ids
      /\ polled'[p] = polled[p] \cup ({s} \X ids)
      /\ \A q \in Projectors \ {p} :
            pc'[q] = pc[q] /\ service'[q] = service[q] /\ batch'[q] = batch[q]
            /\ polled'[q] = polled[q]
  BY <1>1 DEF Inv, TypeOK
<1>7. TotalIsExact' /\ NothingIsLost'
  BY <1>1 DEF Inv, ProjectionInv, TotalIsExact, NothingIsLost, Published
<1>8. HandedEventsArePublished'
  BY <1>1, <1>2, <1>3, <1>6 DEF Inv, ProjectionInv, HandedEventsArePublished, Published
<1>9. FoldsAreExclusive' /\ MarkedIsFolded'
  BY <1>1, <1>6 DEF Inv, ProjectionInv, FoldsAreExclusive, MarkedIsFolded, Current
<1>10. LeftIsInHand'
  BY <1>1, <1>6 DEF Inv, ProjectionInv, LeftIsInHand
<1> QED BY <1>5, <1>7, <1>8, <1>9, <1>10 DEF Inv, ProjectionInv

LEMMA CheckStep ==
    ASSUME Inv, NEW p \in Projectors, CheckApplied(p)
    PROVE  Inv'
<1>1. PICK i \in batch[p] :
        /\ event' = [event EXCEPT ![p] = i]
        /\ pc' = [pc EXCEPT ![p] = IF AlreadyApplied(p, i) THEN "marking" ELSE "inserting"]
  BY DEF CheckApplied, Goto
<1>2. /\ UNCHANGED <<effects, outbox, appliedEvents, total, case, todo, service, batch, polled>>
      /\ pc[p] = "applying"
  BY DEF CheckApplied, effectVars, crmVars
<1>3. i \in EventIds
  BY DEF Inv, TypeOK
<1>4. TypeOK'
  BY <1>1, <1>2, <1>3 DEF Inv, TypeOK
<1>5. /\ event'[p] = i
      /\ pc'[p] \in {"marking", "inserting"}
      /\ pc'[p] = "marking" => <<service[p], i>> \in appliedEvents
      /\ \A q \in Projectors \ {p} : pc'[q] = pc[q] /\ event'[q] = event[q]
  BY <1>1 DEF Inv, TypeOK, AlreadyApplied
<1>6. TotalIsExact' /\ NothingIsLost'
  BY <1>2 DEF Inv, ProjectionInv, TotalIsExact, NothingIsLost, Published
<1>7. HandedEventsArePublished'
  BY <1>1, <1>2, <1>5 DEF Inv, ProjectionInv, HandedEventsArePublished, Published
<1>8. FoldsAreExclusive' /\ MarkedIsFolded'
  BY <1>2, <1>5 DEF Inv, ProjectionInv, FoldsAreExclusive, MarkedIsFolded, Current
<1>9. LeftIsInHand'
  BY <1>2, <1>5 DEF Inv, ProjectionInv, LeftIsInHand
<1> QED BY <1>4, <1>6, <1>7, <1>8, <1>9 DEF Inv, ProjectionInv

LEMMA InsertStep ==
    ASSUME Inv, NEW p \in Projectors, InsertApplied(p)
    PROVE  Inv'
<1>1. /\ UNCHANGED <<effects, outbox, appliedEvents, total, case, todo, service, batch,
                      event, polled>>
      /\ pc[p] = "inserting" /\ pc' = [pc EXCEPT ![p] = "folding"]
  BY DEF InsertApplied, Goto, effectVars, crmVars
<1>2. TypeOK'
  BY <1>1 DEF Inv, TypeOK
<1>3. /\ pc'[p] = "folding"
      /\ \A q \in Projectors \ {p} : pc'[q] = pc[q]
  BY <1>1 DEF Inv, TypeOK
<1>4. /\ Current(p) \notin appliedEvents
      /\ \A q \in Projectors \ {p} : pc[q] = "folding" => Current(q) # Current(p)
  BY DEF InsertApplied, KeyFree, BeingInserted
<1>5. TotalIsExact' /\ NothingIsLost'
  BY <1>1 DEF Inv, ProjectionInv, TotalIsExact, NothingIsLost, Published
<1>6. HandedEventsArePublished' /\ MarkedIsFolded' /\ LeftIsInHand'
  BY <1>1, <1>3 DEF Inv, ProjectionInv, HandedEventsArePublished, MarkedIsFolded,
                    LeftIsInHand, Current, Published
<1>7. FoldsAreExclusive'
  BY <1>1, <1>3, <1>4 DEF Inv, ProjectionInv, FoldsAreExclusive, Current
<1> QED BY <1>2, <1>5, <1>6, <1>7 DEF Inv, ProjectionInv

LEMMA FoldStep ==
    ASSUME Inv, NEW p \in Projectors, Fold(p)
    PROVE  Inv'
<1>1. /\ UNCHANGED <<effects, outbox, case, todo, service, batch, event, polled>>
      /\ pc[p] = "folding" /\ pc' = [pc EXCEPT ![p] = "marking"]
      /\ total' = [total EXCEPT ![Current(p)] = @ + 1]
      /\ appliedEvents' = appliedEvents \cup {Current(p)}
  BY DEF Fold, Goto, effectVars
<1>2. Current(p) \in Refs /\ Published(Current(p))
  BY <1>1 DEF Inv, TypeOK, ProjectionInv, HandedEventsArePublished, Current, Refs
<1>3. TypeOK'
  BY <1>1, <1>2 DEF Inv, TypeOK
<1>4. /\ pc'[p] = "marking"
      /\ \A q \in Projectors \ {p} : pc'[q] = pc[q]
      /\ \A q \in Projectors : Current(q)' = Current(q)
      /\ \A e \in Refs : Published(e)' = Published(e)
  BY <1>1 DEF Inv, TypeOK, Current, Published
<1>5. TotalIsExact'
  <2>1. Current(p) \notin appliedEvents /\ total[Current(p)] = 0
    BY <1>1, <1>2 DEF Inv, ProjectionInv, FoldsAreExclusive, TotalIsExact
  <2>2. /\ total'[Current(p)] = 1
        /\ \A e \in Refs \ {Current(p)} : total'[e] = total[e]
    BY <1>1, <1>2, <2>1 DEF Inv, TypeOK
  <2> QED BY <1>1, <1>2, <1>4, <2>2 DEF Inv, ProjectionInv, TotalIsExact
<1>6. NothingIsLost'
  BY <1>1 DEF Inv, ProjectionInv, NothingIsLost
<1>7. HandedEventsArePublished'
  BY <1>1, <1>4 DEF Inv, ProjectionInv, HandedEventsArePublished, Published
<1>8. FoldsAreExclusive' /\ MarkedIsFolded'
  BY <1>1, <1>4 DEF Inv, ProjectionInv, FoldsAreExclusive, MarkedIsFolded
<1>9. LeftIsInHand'
  BY <1>1, <1>4 DEF Inv, ProjectionInv, LeftIsInHand
<1> QED BY <1>3, <1>5, <1>6, <1>7, <1>8, <1>9 DEF Inv, ProjectionInv

LEMMA MarkStep ==
    ASSUME Inv, NEW p \in Projectors, Mark(p)
    PROVE  Inv'
<1>1. /\ UNCHANGED <<appliedEvents, total, case, todo, service, polled>>
      /\ pc[p] = "marking" /\ pc' = [pc EXCEPT ![p] = "applying"]
      /\ batch' = [batch EXCEPT ![p] = @ \ {event[p]}]
      /\ event' = [event EXCEPT ![p] = NoEvent]
  BY DEF Mark, MarkedLast, RestOf, Goto, crmVars
<1>2. PICK v \in outbox[service[p]] : v.id = event[p] /\ MarkApplied(service[p], v)
  BY DEF Mark
<1>3. service[p] \in Services /\ Current(p) \in appliedEvents
  BY <1>1 DEF Inv, ProjectionInv, HandedEventsArePublished, MarkedIsFolded
<1>4. /\ OutboxGrows
      /\ \A t \in Services : \A w \in outbox'[t] :
            w \in outbox[t] \/ (t = service[p] /\ w.id = event[p])
  BY <1>2, <1>3, MarkedEvents DEF Inv
<1>5. TypeOK'
  BY <1>1, <1>4 DEF Inv, TypeOK, OutboxGrows
<1>6. /\ pc'[p] = "applying" /\ batch'[p] = batch[p] \ {event[p]}
      /\ \A q \in Projectors \ {p} :
            pc'[q] = pc[q] /\ batch'[q] = batch[q] /\ event'[q] = event[q]
  BY <1>1 DEF Inv, TypeOK
<1>7. TotalIsExact'
  BY <1>1, <1>4 DEF Inv, ProjectionInv, TotalIsExact, OutboxGrows
<1>8. NothingIsLost'
  BY <1>1, <1>3, <1>4 DEF Inv, ProjectionInv, NothingIsLost, Current
<1>9. HandedEventsArePublished'
  BY <1>1, <1>4, <1>6 DEF Inv, TypeOK, ProjectionInv, HandedEventsArePublished,
                          OutboxGrows, Refs
<1>10. FoldsAreExclusive' /\ MarkedIsFolded'
  BY <1>1, <1>6 DEF Inv, ProjectionInv, FoldsAreExclusive, MarkedIsFolded, Current
<1>11. LeftIsInHand'
  BY <1>1, <1>3, <1>6 DEF Inv, ProjectionInv, LeftIsInHand, Current
<1> QED BY <1>5, <1>7, <1>8, <1>9, <1>10, <1>11 DEF Inv, ProjectionInv

LEMMA NextServiceStep ==
    ASSUME Inv, NEW p \in Projectors, NextService(p)
    PROVE  Inv'
<1>1. /\ UNCHANGED <<effects, outbox, appliedEvents, total, case, todo, service, batch,
                      event, polled>>
      /\ pc[p] = "applying" /\ pc' = [pc EXCEPT ![p] = "polling"]
      /\ batch[p] = {}
  BY DEF NextService, Goto, effectVars, crmVars
<1>2. TypeOK'
  BY <1>1 DEF Inv, TypeOK
<1>3. /\ pc'[p] = "polling"
      /\ \A q \in Projectors \ {p} : pc'[q] = pc[q]
  BY <1>1 DEF Inv, TypeOK
<1>4. TotalIsExact' /\ NothingIsLost'
  BY <1>1 DEF Inv, ProjectionInv, TotalIsExact, NothingIsLost, Published
<1>5. HandedEventsArePublished' /\ FoldsAreExclusive' /\ MarkedIsFolded'
  BY <1>1, <1>3 DEF Inv, ProjectionInv, HandedEventsArePublished, FoldsAreExclusive,
                    MarkedIsFolded, Current, Published
<1>6. LeftIsInHand'
  BY <1>1, <1>3 DEF Inv, ProjectionInv, LeftIsInHand
<1> QED BY <1>2, <1>4, <1>5, <1>6 DEF Inv, ProjectionInv

LEMMA Step == Inv /\ [Next]_vars => Inv'
<1> SUFFICES ASSUME Inv, [Next]_vars PROVE Inv'
  OBVIOUS
<1>1. ASSUME NEW p \in Projectors, NEW c \in Cases, NEW order \in Orders,
             Start(p, c, order)
      PROVE  Inv'
  BY <1>1, StartStep
<1>2. ASSUME NEW p \in Projectors, Proceed(p)
      PROVE  Inv'
  BY <1>2, PollStep, CheckStep, InsertStep, FoldStep, MarkStep, NextServiceStep, EndStep
     DEF Proceed, InsertFails, Finish
<1>3. ASSUME NEW p \in Projectors, Fail(p)
      PROVE  Inv'
  BY <1>3, EndStep DEF Fail
<1>4. ASSUME NEW s \in Services, Publishing(s)
      PROVE  Inv'
  BY <1>4, ServiceStep
<1>5. CASE UNCHANGED vars
  BY <1>5 DEF vars, effectVars, crmVars, projectorVars, Inv, TypeOK, ProjectionInv,
      TotalIsExact, NothingIsLost, HandedEventsArePublished, FoldsAreExclusive,
      MarkedIsFolded, LeftIsInHand, Current, Published
<1> QED BY <1>1, <1>2, <1>3, <1>4, <1>5 DEF Next

LEMMA Invariance == Spec => []Inv
BY Initially, Step, PTL DEF Spec

-----------------------------------------------------------------------------
(***************************************************************************)
(* Theorems.                                                               *)
(***************************************************************************)
\* The state of outboxes, projection and projectors has its type.
THEOREM TypeCorrect == Spec => []TypeOK
BY Invariance, PTL DEF Inv

\* The total is the sum of the applied events, each once, whoever redelivers, races
\* or dies in apply_pending.
THEOREM NoEventCountsTwice == Spec => []TotalIsExact
BY Invariance, PTL DEF Inv, ProjectionInv

\* An event marked as applied at its source is in the total: marking after the
\* projection's commit loses nothing.
THEOREM NoEventIsLost == Spec => []NothingIsLost
BY Invariance, PTL DEF Inv, ProjectionInv

\* A run that finishes has folded all it was handed.
THEOREM RunsCatchUp == Spec => FinishedRunsCaughtUp
<1>1. ASSUME Inv, [Next]_vars, NEW p \in Projectors,
             pc[p] # "finished", pc'[p] = "finished"
      PROVE  polled[p] \subseteq appliedEvents
  <2> USE DEF Inv, TypeOK
  <2>1. ~UNCHANGED vars
    BY <1>1 DEF vars, projectorVars
  <2>2. ASSUME NEW s \in Services, Publishing(s)
        PROVE  FALSE
    BY <1>1, <2>2 DEF Publishing, projectorVars
  <2>3. ASSUME NEW q \in Projectors, Fail(q)
        PROVE  FALSE
    BY <1>1, <2>3 DEF Fail, End, Goto
  <2>4. ASSUME NEW q \in Projectors, NEW c \in Cases, NEW order \in Orders,
               Start(q, c, order)
        PROVE  FALSE
    BY <1>1, <2>4 DEF Start, Goto
  <2>5. ASSUME NEW q \in Projectors, Proceed(q)
        PROVE  q = p /\ Finish(q)
    <3>1. CASE Finish(q)
      BY <1>1, <3>1 DEF Finish, End, Goto
    <3>2. CASE Poll(q)
      BY <1>1, <3>2 DEF Poll, Goto
    <3>3. CASE CheckApplied(q)
      <4>1. PICK place \in {"marking", "inserting"} : pc' = [pc EXCEPT ![q] = place]
        BY <3>3 DEF CheckApplied, Goto
      <4> QED BY <1>1, <4>1
    <3>4. CASE InsertApplied(q)
      BY <1>1, <3>4 DEF InsertApplied, Goto
    <3>5. CASE InsertFails(q)
      BY <1>1, <3>5 DEF InsertFails, End, Goto
    <3>6. CASE Fold(q)
      BY <1>1, <3>6 DEF Fold, Goto
    <3>7. CASE Mark(q)
      BY <1>1, <3>7 DEF Mark, Goto
    <3>8. CASE NextService(q)
      BY <1>1, <3>8 DEF NextService, Goto
    <3> QED BY <2>5, <3>1, <3>2, <3>3, <3>4, <3>5, <3>6, <3>7, <3>8 DEF Proceed
  <2>6. Finish(p)
    BY <1>1, <2>1, <2>2, <2>3, <2>4, <2>5 DEF Next
  <2> QED BY <1>1, <2>6 DEF Finish, ProjectionInv, LeftIsInHand
<1>2. Inv /\ [Next]_vars =>
        [\A p \in Projectors :
            pc[p] # "finished" /\ pc'[p] = "finished" => polled[p] \subseteq appliedEvents]_vars
  BY <1>1
<1> QED BY <1>2, Invariance, PTL DEF Spec, FinishedRunsCaughtUp
=============================================================================
