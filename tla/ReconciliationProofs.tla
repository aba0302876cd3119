------------------------ MODULE ReconciliationProofs ------------------------
(***************************************************************************)
(* Theorems about what a run of the reconciler reports, for any number of  *)
(* services, requests, keys and events, while all of them move.            *)
(***************************************************************************)
EXTENDS Reconciliation, FiniteSetTheorems, SequenceTheorems, TLAPS

USE ReconciliationAssumption

-----------------------------------------------------------------------------
(***************************************************************************)
(* The inductive invariant: what holds between any two steps.              *)
(***************************************************************************)
Lag(s) == <<"PROJECTION_LAG", s>>
Spent(x) == <<"SPENT_EXPIRED_HOLD", x>>

\* What the services and the CRM keep, whatever the reconciler does.
SystemsAreSound ==
    /\ \A s \in Services : \A d, e \in effects[s] : d.key = e.key => d = e
    /\ \A e \in appliedEvents : e \in Published(e[1])
    /\ IsFiniteSet(appliedEvents) /\ eventsApplied = Cardinality(appliedEvents)

\* What an earlier query returned is as true later, unless the hold was settled since.
RowsStayTrue ==
    /\ at \in {"lag", "total", "applied", "duplicates"} => todo # <<>>
    /\ at = "sources" => rows \subseteq appliedEvents
    /\ at = "landed" => \A x \in rows :
        x \in Services \X Keys /\ (holds[x[2]] = "EXPIRED" \/ x[2] \in settled)

\* A total that is out of date was torn from what it is compared with.
DriftIsTorn ==
    at = "applied" /\ ~torn => total = eventsApplied

\* What was wrong at the start and still is, was reported or has its query to come.
OldIsFoundOrToCome ==
    /\ unapplied \subseteq AllPending /\ spent \subseteq SpentNow
    /\ at = "idle" => unapplied = {} /\ spent = {}
    /\ \A e \in unapplied :
        \/ at = "lag" /\ \E i \in DOMAIN todo : todo[i] = e[1]
        \/ Lag(e[1]) \in report
    /\ at = "landed" => \A x \in spent : x \in rows \/ Spent(x) \in report

ReconciliationInv ==
    /\ SystemsAreSound
    /\ RowsStayTrue
    /\ DriftIsTorn
    /\ OldIsFoundOrToCome
    /\ NothingOldIsMissed

Inv == TypeOK /\ ReconciliationInv

-----------------------------------------------------------------------------
(***************************************************************************)
(* What steps do.                                                          *)
(***************************************************************************)
\* A query changes nothing of what it asks.
LEMMA QueriesOnlyRead ==
    ASSUME Reconcile
    PROVE  UNCHANGED <<effects, outbox, appliedEvents, eventsApplied, holds>>
BY DEF Reconcile, Begin, CheckLag, AskEach, ReadTotal, ReadApplied, CheckDuplicateKeys,
   ReadApplieds, LookUpSource, LookUpEffect, ReadExpired, Done, systemVars, effectVars, crmVars

\* The services keep their keys apart, their effects there and their events published.
LEMMA ServicesMove ==
    ASSUME TypeOK, SystemsAreSound, ServiceMoves
    PROVE  /\ effects' \in [Services -> SUBSET Rows]
           /\ outbox' \in [Services -> SUBSET Events]
           /\ \A s \in Services :
                /\ \A d, e \in effects'[s] : d.key = e.key => d = e
                /\ \A e \in effects[s] : \E d \in effects'[s] : d.key = e.key
                /\ \A v \in outbox[s] : \E w \in outbox'[s] : w.id = v.id
<1> USE DEF Rows, Events
<1>0. /\ effects \in [Services -> SUBSET Rows] /\ outbox \in [Services -> SUBSET Events]
      /\ \A s \in Services : \A d, e \in effects[s] : d.key = e.key => d = e
  BY DEF TypeOK, SystemsAreSound
<1> DEFINE Kept ==
        /\ effects' \in [Services -> SUBSET Rows]
        /\ outbox' \in [Services -> SUBSET Events]
        /\ \A s \in Services :
            /\ \A d, e \in effects'[s] : d.key = e.key => d = e
            /\ \A e \in effects[s] : \E d \in effects'[s] : d.key = e.key
            /\ \A v \in outbox[s] : \E w \in outbox'[s] : w.id = v.id
<1>1. ASSUME NEW s \in Services, NEW r \in Requests, NEW k \in Keys, NEW i \in EventIds,
             CreateEffect(s, r, k, Case, i)
      PROVE  Kept
  <2> DEFINE row == [id |-> r, key |-> k, case |-> Case, state |-> "COMMITTED"]
             event == [id |-> i, entity |-> r, case |-> Case, applied |-> FALSE]
  <2>1. row \in Rows /\ event \in Events /\ row.key = k
    OBVIOUS
  <2>2. /\ effects' = [effects EXCEPT ![s] = @ \cup {row}]
        /\ outbox' = [outbox EXCEPT ![s] = @ \cup {event}]
        /\ \A e \in effects[s] : e.key # k
    BY <1>1 DEF CreateEffect
  <2> HIDE DEF row, event, Rows, Events
  <2> QED BY <1>0, <2>1, <2>2
<1>2. ASSUME NEW s \in Services, NEW e \in effects[s], VoidEffect(s, e)
      PROVE  Kept
  <2> DEFINE row == [e EXCEPT !.state = "VOIDED"]
  <2>1. row \in Rows /\ row.key = e.key
    BY <1>0
  <2>2. /\ effects' = [effects EXCEPT ![s] = (@ \ {e}) \cup {row}]
        /\ outbox' = outbox
    BY <1>2 DEF VoidEffect
  <2> HIDE DEF row, Rows, Events
  <2>3. /\ effects'[s] = (effects[s] \ {e}) \cup {row}
        /\ \A t \in Services \ {s} : effects'[t] = effects[t]
    BY <1>0, <2>2
  <2>4. effects' \in [Services -> SUBSET Rows]
    <3> DEFINE after == (effects[s] \ {e}) \cup {row}
    <3>1. effects' = [effects EXCEPT ![s] = after]
      BY <2>2
    <3>2. after \in SUBSET Rows
      BY <1>0, <2>1
    <3> HIDE DEF after
    <3> QED BY <1>0, <3>1, <3>2
  <2>5. \A d, f \in effects'[s] : d.key = f.key => d = f
    BY <1>0, <2>1, <2>3
  <2>6. \A d \in effects[s] : \E f \in effects'[s] : f.key = d.key
    BY <2>1, <2>3
  <2>7. ASSUME NEW t \in Services
        PROVE  /\ \A d, f \in effects'[t] : d.key = f.key => d = f
               /\ \A d \in effects[t] : \E f \in effects'[t] : f.key = d.key
    <3>1. CASE t = s
      BY <2>5, <2>6, <3>1
    <3>2. CASE t # s
      BY <1>0, <2>3, <3>2
    <3> QED BY <3>1, <3>2
  <2> QED BY <1>0, <2>2, <2>4, <2>7
<1>3. ASSUME NEW s \in Services, NEW v \in outbox[s], MarkApplied(s, v)
      PROVE  Kept
  <2> DEFINE event == [v EXCEPT !.applied = TRUE]
  <2>0. v \in Events
    BY <1>0
  <2>1. event \in Events /\ event.id = v.id
    BY <2>0
  <2>2. /\ outbox' = [outbox EXCEPT ![s] = (@ \ {v}) \cup {event}]
        /\ effects' = effects
    BY <1>3 DEF MarkApplied
  <2> HIDE DEF event, Rows, Events
  <2> QED BY <1>0, <2>1, <2>2
<1>4. ASSUME NEW s \in Services, Redeliver(s, Case)
      PROVE  Kept
  <2> DEFINE Offered(v) == [v EXCEPT !.applied = FALSE]
  <2>1. \A v \in Events : Offered(v) \in Events /\ Offered(v).id = v.id
    OBVIOUS
  <2>2. /\ outbox' = [outbox EXCEPT ![s] =
                        {IF v.case = Case THEN Offered(v) ELSE v : v \in @}]
        /\ effects' = effects
    BY <1>4 DEF Redeliver
  <2> HIDE DEF Offered, Rows, Events
  <2>3. /\ outbox'[s] = {IF v.case = Case THEN Offered(v) ELSE v : v \in outbox[s]}
        /\ \A t \in Services \ {s} : outbox'[t] = outbox[t]
        /\ DOMAIN outbox' = Services /\ outbox' = [t \in Services |-> outbox'[t]]
    BY <1>0, <2>2
  <2>4. outbox'[s] \subseteq Events
    BY <1>0, <2>1, <2>3
  <2>5. \A v \in outbox[s] : \E w \in outbox'[s] : w.id = v.id
    BY <1>0, <2>1, <2>3
  <2>6. outbox' \in [Services -> SUBSET Events]
    BY <1>0, <2>3, <2>4
  <2>7. \A t \in Services : \A v \in outbox[t] : \E w \in outbox'[t] : w.id = v.id
    BY <2>3, <2>5
  <2> QED BY <1>0, <2>2, <2>6, <2>7
<1>5. ASSUME NEW e \in appliedEvents, Marks(e) PROVE Kept
  <2>1. e[1] \in Services
    BY DEF TypeOK, Refs
  <2> QED BY <1>3, <1>5, <2>1 DEF Marks
<1>6. Kept
  <2> HIDE DEF Kept
  <2> QED BY <1>1, <1>2, <1>4, <1>5 DEF ServiceMoves
<1> QED BY <1>6

\* So an event that is published stays so.
LEMMA EventsStayPublished ==
    ASSUME TypeOK, SystemsAreSound, [Next]_vars, NEW e, e[1] \in Services, e \in Published(e[1])
    PROVE  e \in Published(e[1])'
<1>1. PICK v \in outbox[e[1]] : e = <<e[1], v.id>>
  BY DEF Published
<1>2. CASE outbox' = outbox
  BY <1>2 DEF Published
<1>3. CASE ServiceMoves
  <2>1. PICK w \in outbox'[e[1]] : w.id = v.id
    BY <1>3, ServicesMove
  <2> QED BY <1>1, <2>1 DEF Published
<1>4. outbox' = outbox \/ ServiceMoves
  BY QueriesOnlyRead DEF Next, vars, systemVars, effectVars, FoldEvent, ExpireHold, SettleHold
<1> QED BY <1>2, <1>3, <1>4

-----------------------------------------------------------------------------
(***************************************************************************)
(* The systems.                                                            *)
(***************************************************************************)
LEMMA InitInv == Init => Inv
<1> SUFFICES ASSUME Init PROVE Inv
  OBVIOUS
<1>1. TypeOK
  BY DEF Init, EffectsInit, TypeOK
<1>2. SystemsAreSound
  BY FS_EmptySet DEF Init, EffectsInit, SystemsAreSound
<1>3. RowsStayTrue /\ DriftIsTorn /\ OldIsFoundOrToCome /\ NothingOldIsMissed
  BY DEF Init, RowsStayTrue, DriftIsTorn, OldIsFoundOrToCome, NothingOldIsMissed
<1> QED BY <1>1, <1>2, <1>3 DEF Inv, ReconciliationInv

LEMMA StepType == Inv /\ [Next]_vars => TypeOK'
<1> SUFFICES ASSUME Inv, [Next]_vars PROVE TypeOK'
  OBVIOUS
<1>0. TypeOK /\ SystemsAreSound /\ RowsStayTrue
  BY DEF Inv, ReconciliationInv
<1>1. CASE Reconcile
  <2>1. UNCHANGED <<effects, outbox, appliedEvents, eventsApplied, holds>>
    BY <1>1, QueriesOnlyRead
  <2>2. /\ at' \in {"idle", "lag", "total", "applied", "duplicates", "orphans", "sources",
                    "landed", "done"}
        /\ todo' \in Seq(Services)
    <3>1. CASE CheckLag \/ CheckDuplicateKeys
      <4>1. todo # <<>>
        BY <1>0, <3>1 DEF CheckLag, CheckDuplicateKeys, AskEach, RowsStayTrue
      <4>2. Tail(todo) \in Seq(Services)
        BY <1>0, <4>1 DEF TypeOK
      <4> QED BY <1>0, <3>1, <4>2 DEF CheckLag, CheckDuplicateKeys, AskEach, Sources, TypeOK
    <3>2. CASE Begin \/ ReadTotal \/ ReadApplied \/ ReadApplieds \/ ReadExpired \/ Done
      BY <1>0, <3>2 DEF Begin, ReadTotal, ReadApplied, ReadApplieds, ReadExpired, Done,
         Sources, TypeOK
    <3>3. CASE \E x \in rows : LookUpSource(x) \/ LookUpEffect(x)
      BY <1>0, <3>3 DEF LookUpSource, LookUpEffect, TypeOK
    <3> QED BY <1>1, <3>1, <3>2, <3>3 DEF Reconcile
  <2> QED BY <1>0, <2>1, <2>2 DEF TypeOK, Refs
<1>2. CASE ServiceMoves
  BY <1>0, <1>2, ServicesMove DEF ServiceMoves, crmVars, runVars, TypeOK, Refs
<1>3. CASE \E e \in Refs : FoldEvent(e)
  BY <1>0, <1>3 DEF FoldEvent, effectVars, runVars, TypeOK, Refs
<1>4. CASE \E k \in Keys : ExpireHold(k) \/ SettleHold(k)
  BY <1>0, <1>4 DEF ExpireHold, SettleHold, effectVars, crmVars, runVars, TypeOK, Refs
<1>5. CASE UNCHANGED vars
  BY <1>0, <1>5 DEF vars, systemVars, effectVars, crmVars, runVars, TypeOK, Refs
<1> QED BY <1>1, <1>2, <1>3, <1>4, <1>5 DEF Next

LEMMA StepSystems == Inv /\ [Next]_vars => SystemsAreSound'
<1> SUFFICES ASSUME Inv, [Next]_vars PROVE SystemsAreSound'
  OBVIOUS
<1>0. TypeOK /\ SystemsAreSound
  BY DEF Inv, ReconciliationInv
<1>1. \A s \in Services : \A d, e \in effects'[s] : d.key = e.key => d = e
  <2>1. effects' = effects \/ ServiceMoves
    BY QueriesOnlyRead DEF Next, vars, systemVars, effectVars, FoldEvent, ExpireHold, SettleHold
  <2> QED BY <1>0, <2>1, ServicesMove DEF SystemsAreSound
<1>2. CASE \E e \in Refs : FoldEvent(e)
  <2>1. PICK e \in Refs : FoldEvent(e)
    BY <1>2
  <2>2. /\ e \in Published(e[1]) /\ e \notin appliedEvents
        /\ appliedEvents' = appliedEvents \cup {e}
        /\ eventsApplied' = eventsApplied + 1
        /\ outbox' = outbox
    BY <2>1 DEF FoldEvent, Pending, Published, effectVars
  <2>3. /\ IsFiniteSet(appliedEvents')
        /\ eventsApplied' = Cardinality(appliedEvents')
    BY <1>0, <2>2, FS_AddElement DEF SystemsAreSound
  <2>4. \A f \in appliedEvents' : f \in Published(f[1])'
    BY <1>0, <2>2 DEF SystemsAreSound, Published
  <2> QED BY <1>1, <2>3, <2>4 DEF SystemsAreSound
<1>3. CASE ~\E e \in Refs : FoldEvent(e)
  <2>1. appliedEvents' = appliedEvents /\ eventsApplied' = eventsApplied
    BY <1>3, QueriesOnlyRead DEF Next, vars, systemVars, crmVars, ExpireHold, SettleHold,
       ServiceMoves
  <2>2. \A f \in appliedEvents : f[1] \in Services /\ f \in Published(f[1])
    BY <1>0 DEF TypeOK, Refs, SystemsAreSound
  <2>3. \A f \in appliedEvents : f \in Published(f[1])'
    BY <1>0, <2>2, EventsStayPublished
  <2> QED BY <1>0, <1>1, <2>1, <2>3 DEF SystemsAreSound
<1> QED BY <1>2, <1>3

-----------------------------------------------------------------------------
(***************************************************************************)
(* The run.                                                                *)
(***************************************************************************)
\* What is left to ask after the first service.
LEMMA TailOfTodo ==
    ASSUME NEW q \in Seq(Services), q # <<>>
    PROVE  /\ Len(q) \in Nat \ {0} /\ Head(q) = q[1] /\ Head(q) \in Services
           /\ Tail(q) \in Seq(Services) /\ Len(Tail(q)) = Len(q) - 1
           /\ \A i \in 2..Len(q) : Tail(q)[i - 1] = q[i]
           /\ Len(q) # 1 => Tail(q) # <<>>
<1>1. Len(q) \in Nat \ {0}
  <2>1. Len(q) # 0
    BY EmptySeq
  <2> QED BY <2>1
<1>2. /\ Head(q) = q[1] /\ Head(q) \in Services
      /\ Tail(q) \in Seq(Services) /\ Len(Tail(q)) = Len(q) - 1
      /\ \A i \in 1..Len(Tail(q)) : Tail(q)[i] = q[i + 1]
  BY <1>1, HeadTailProperties
<1>3. \A i \in 2..Len(q) : Tail(q)[i - 1] = q[i]
  <2> SUFFICES ASSUME NEW i \in 2..Len(q) PROVE Tail(q)[i - 1] = q[i]
    OBVIOUS
  <2>1. i - 1 \in 1..Len(Tail(q)) /\ (i - 1) + 1 = i
    BY <1>1, <1>2
  <2> QED BY <1>2, <2>1
<1>4. Len(q) # 1 => Tail(q) # <<>>
  <2>1. Tail(q) = <<>> => Len(Tail(q)) = 0
    BY EmptySeq, Zenon
  <2>2. Len(q) # 1 => Len(Tail(q)) # 0
    BY <1>1, <1>2
  <2> QED BY <2>1, <2>2, Zenon
<1> QED BY <1>1, <1>2, <1>3, <1>4

\* What the systems do leaves the run and its report alone.
Systems ==
    \/ \E e \in Refs : FoldEvent(e)
    \/ \E k \in Keys : ExpireHold(k) \/ SettleHold(k)
    \/ ServiceMoves
    \/ UNCHANGED vars

LEMMA SystemsLeaveRun ==
    ASSUME Systems
    PROVE  /\ UNCHANGED <<at, todo, rows, total, report>>
           /\ appliedEvents \subseteq appliedEvents'
           /\ torn' = torn \/ torn' = TRUE
           /\ eventsApplied' = eventsApplied \/ torn' = TRUE
BY DEF Systems, FoldEvent, ExpireHold, SettleHold, ServiceMoves, vars, systemVars, runVars,
   crmVars, history

\* A hold that has lapsed stays so while the lookups go on, unless it is settled.
LEMMA LapsedOrSettled ==
    ASSUME TypeOK, Systems, at = "landed", NEW k \in Keys,
           holds[k] = "EXPIRED" \/ k \in settled
    PROVE  holds'[k] = "EXPIRED" \/ k \in settled'
<1>1. CASE ServiceMoves \/ UNCHANGED vars \/ \E e \in Refs : FoldEvent(e)
  BY <1>1 DEF ServiceMoves, FoldEvent, vars, systemVars, history
<1>2. CASE \E j \in Keys : ExpireHold(j)
  BY <1>2 DEF ExpireHold, TypeOK, history
<1>3. CASE \E j \in Keys : SettleHold(j)
  BY <1>3 DEF SettleHold, TypeOK
<1> QED BY <1>1, <1>2, <1>3 DEF Systems

LEMMA StepRows == Inv /\ [Next]_vars => RowsStayTrue'
<1> SUFFICES ASSUME Inv, [Next]_vars PROVE RowsStayTrue'
  OBVIOUS
<1>0. TypeOK /\ RowsStayTrue
  BY DEF Inv, ReconciliationInv
<1> DEFINE Ok ==
        /\ at' \in {"lag", "total", "applied", "duplicates"} => todo' # <<>>
        /\ at' = "sources" => rows' \subseteq appliedEvents'
        /\ at' = "landed" => \A x \in rows' :
            x \in Services \X Keys /\ (holds'[x[2]] = "EXPIRED" \/ x[2] \in settled')
<1>1. ASSUME CheckLag \/ CheckDuplicateKeys PROVE Ok
  <2>1. todo \in Seq(Services) /\ todo # <<>>
    BY <1>0, <1>1 DEF CheckLag, CheckDuplicateKeys, AskEach, RowsStayTrue, TypeOK
  <2>2. Len(todo) # 1 => Tail(todo) # <<>>
    BY <2>1, TailOfTodo
  <2>3. /\ todo' # <<>>
        /\ at' \in {"lag", "total", "duplicates", "orphans"}
    BY <1>1, <2>2 DEF CheckLag, CheckDuplicateKeys, AskEach, Sources
  <2> QED BY <2>3
<1>2. ASSUME Begin \/ ReadTotal \/ ReadApplied \/ Done PROVE Ok
  BY <1>0, <1>2 DEF Begin, Sources, Done, ReadTotal, ReadApplied, RowsStayTrue
<1>3. ASSUME ReadApplieds PROVE Ok
  BY <1>3 DEF ReadApplieds, systemVars, crmVars
<1>4. ASSUME NEW x \in rows, LookUpSource(x) \/ LookUpEffect(x) PROVE Ok
  BY <1>0, <1>4 DEF LookUpSource, LookUpEffect, systemVars, crmVars, history, RowsStayTrue
<1>5. ASSUME ReadExpired PROVE Ok
  <2>1. rows' = Services \X Expired /\ at' = "landed" /\ holds' = holds
    BY <1>5 DEF ReadExpired, Sources, systemVars
  <2>2. \A k \in Expired : k \in Keys /\ holds[k] = "EXPIRED"
    BY DEF Expired
  <2> QED BY <2>1, <2>2
<1>6. ASSUME Systems PROVE Ok
  <2>1. \A x \in rows : at = "landed" =>
            x \in Services \X Keys /\ (holds'[x[2]] = "EXPIRED" \/ x[2] \in settled')
    BY <1>0, <1>6, LapsedOrSettled DEF RowsStayTrue
  <2> QED BY <1>0, <1>6, <2>1, SystemsLeaveRun DEF RowsStayTrue
<1>7. Ok
  <2> HIDE DEF Ok
  <2>1. Reconcile \/ Systems
    BY DEF Next, Systems
  <2> QED BY <1>1, <1>2, <1>3, <1>4, <1>5, <1>6, <2>1 DEF Reconcile
<1> QED BY <1>7 DEF RowsStayTrue

LEMMA StepDrift == Inv /\ [Next]_vars => DriftIsTorn'
<1> SUFFICES ASSUME Inv, [Next]_vars PROVE DriftIsTorn'
  OBVIOUS
<1>0. DriftIsTorn
  BY DEF Inv, ReconciliationInv
<1>1. CASE ReadTotal
  BY <1>1 DEF ReadTotal, systemVars, crmVars, DriftIsTorn
<1>2. CASE Reconcile /\ ~ReadTotal
  <2>1. at' # "applied"
    BY <1>2 DEF Reconcile, Begin, CheckLag, ReadApplied, CheckDuplicateKeys, AskEach,
       ReadApplieds, LookUpSource, LookUpEffect, ReadExpired, Done
  <2> QED BY <2>1 DEF DriftIsTorn
<1>3. CASE Systems
  BY <1>0, <1>3, SystemsLeaveRun DEF DriftIsTorn
<1> QED BY <1>1, <1>2, <1>3 DEF Next, Systems

\* No service keeps a key twice.
LEMMA NothingIsDuplicated ==
    ASSUME Inv, NEW s \in Services PROVE DuplicatedIn(s) = {}
<1>1. \A d, e \in effects[s] : d.key = e.key => d = e
  BY DEF Inv, ReconciliationInv, SystemsAreSound
<1>2. ASSUME NEW k \in Keys PROVE ~(Cardinality({e \in effects[s] : e.key = k}) > 1)
  <2> DEFINE D == {e \in effects[s] : e.key = k}
  <2>1. D = {} \/ \E d : D = {d}
    BY <1>1
  <2> HIDE DEF D
  <2>2. Cardinality(D) \in {0, 1}
    BY <2>1, FS_EmptySet, FS_Singleton
  <2>3. ~(Cardinality(D) > 1)
    BY <2>2
  <2> QED BY <2>3 DEF D
<1> QED BY <1>2 DEF DuplicatedIn

\* What a finding says when a query makes it.
FoundTrue(f) ==
    /\ f[1] \notin {"DUPLICATE_IDEMPOTENCY_KEY", "ORPHANED_APPLIED_EVENT"}
    /\ f[1] = "PROJECTION_LAG" => Pending(f[2]) # {}
    /\ f[1] = "PROJECTION_DRIFT" => torn
    /\ f[1] = "SPENT_EXPIRED_HOLD" =>
        /\ LandedIn(f[2][1], f[2][2])
        /\ holds[f[2][2]] = "EXPIRED" \/ f[2][2] \in settled

LEMMA StepAlarms ==
    ASSUME Inv, [Next]_vars, NEW f \in report' \ report
    PROVE  FoundTrue(f)
<1>0. TypeOK /\ SystemsAreSound /\ RowsStayTrue /\ DriftIsTorn
  BY DEF Inv, ReconciliationInv
<1>1. CASE CheckLag
  BY <1>1 DEF CheckLag, AskEach, Findings, FoundTrue
<1>2. CASE ReadApplied
  <2>1. f[1] = "PROJECTION_DRIFT" /\ Drifts(total) /\ at = "applied"
    BY <1>2 DEF ReadApplied, Findings
  <2>2. total # eventsApplied
    BY <1>0, <2>1 DEF Drifts, SystemsAreSound
  <2> QED BY <1>0, <2>1, <2>2 DEF DriftIsTorn, FoundTrue
<1>3. CASE CheckDuplicateKeys
  <2>1. Head(todo) \in Services
    BY <1>0, <1>3 DEF CheckDuplicateKeys, AskEach, RowsStayTrue, TypeOK
  <2>2. DuplicatedIn(Head(todo)) = {}
    BY <2>1, NothingIsDuplicated
  <2> QED BY <1>3, <2>2 DEF CheckDuplicateKeys, AskEach, Findings
<1>4. ASSUME NEW e \in rows, LookUpSource(e) PROVE FALSE
  <2>1. e \in Published(e[1])
    BY <1>0, <1>4 DEF LookUpSource, RowsStayTrue, SystemsAreSound
  <2> QED BY <1>4, <2>1 DEF LookUpSource, Findings
<1>5. ASSUME NEW x \in rows, LookUpEffect(x) PROVE FoundTrue(f)
  <2>1. holds[x[2]] = "EXPIRED" \/ x[2] \in settled
    BY <1>0, <1>5 DEF LookUpEffect, RowsStayTrue
  <2>2. f = <<"SPENT_EXPIRED_HOLD", x>> /\ LandedIn(x[1], x[2])
    BY <1>5 DEF LookUpEffect, Findings
  <2> QED BY <2>1, <2>2 DEF FoundTrue
<1>6. CASE Begin \/ ReadTotal \/ ReadApplieds \/ ReadExpired \/ Done
  BY <1>6 DEF Begin, ReadTotal, ReadApplieds, ReadExpired, Done
<1>7. CASE Systems
  BY <1>7, SystemsLeaveRun
<1> QED BY <1>1, <1>2, <1>3, <1>4, <1>5, <1>6, <1>7 DEF Next, Systems, Reconcile

\* A run reports what was wrong when it began and still is.
LEMMA StepOld == Inv /\ [Next]_vars => OldIsFoundOrToCome'
<1> SUFFICES ASSUME Inv, [Next]_vars PROVE OldIsFoundOrToCome'
  OBVIOUS
<1>0. TypeOK /\ RowsStayTrue /\ OldIsFoundOrToCome
  BY DEF Inv, ReconciliationInv
<1> DEFINE LagCovered ==
        \A e \in unapplied' : \/ at' = "lag" /\ \E i \in DOMAIN todo' : todo'[i] = e[1]
                              \/ Lag(e[1]) \in report'
           SpentCovered ==
        at' = "landed" => \A x \in spent' : x \in rows' \/ Spent(x) \in report'
           Fresh == at' = "idle" => unapplied' = {} /\ spent' = {}
           Covered == LagCovered /\ SpentCovered /\ Fresh
\* The histories.
<1>1. unapplied' \subseteq AllPending' /\ spent' \subseteq SpentNow'
  <2>1. CASE Begin
    BY <2>1 DEF Begin, systemVars, effectVars, AllPending, Pending, SpentNow, Expired, LandedIn
  <2>2. CASE ServiceMoves
    BY <2>2 DEF ServiceMoves, StillPending, StillSpent
  <2>3. ASSUME NEW k \in Keys, ExpireHold(k)
        PROVE  unapplied' \subseteq AllPending' /\ spent' \subseteq SpentNow'
    <3>1. effects' = effects /\ outbox' = outbox /\ unapplied' = unapplied /\ spent' = spent
      BY <2>3 DEF ExpireHold, effectVars, history
    <3>2. \A j \in Keys : holds[j] = "EXPIRED" => holds'[j] = "EXPIRED"
      BY <1>0, <2>3 DEF ExpireHold, TypeOK
    <3>3. SpentNow \subseteq SpentNow'
      BY <3>1, <3>2 DEF SpentNow, Expired, LandedIn
    <3> QED BY <1>0, <3>1, <3>3 DEF OldIsFoundOrToCome, AllPending, Pending
  <2>4. ASSUME NEW k \in Keys, SettleHold(k)
        PROVE  unapplied' \subseteq AllPending' /\ spent' \subseteq SpentNow'
    BY <1>0, <2>4
       DEF SettleHold, effectVars, StillSpent, OldIsFoundOrToCome, AllPending, Pending
  <2>5. CASE (\E e \in Refs : FoldEvent(e)) \/ UNCHANGED vars \/ (Reconcile /\ ~Begin)
    <3>1. UNCHANGED <<effects, outbox, holds, unapplied, spent>>
      BY <2>5, QueriesOnlyRead DEF FoldEvent, effectVars, vars, systemVars, history, Reconcile,
         CheckLag, AskEach, ReadTotal, ReadApplied, CheckDuplicateKeys, ReadApplieds,
         LookUpSource, LookUpEffect, ReadExpired, Done
    <3> QED BY <1>0, <3>1
            DEF OldIsFoundOrToCome, AllPending, Pending, SpentNow, Expired, LandedIn
  <2> QED BY <2>1, <2>2, <2>3, <2>4, <2>5 DEF Next
\* The queries.
<1>2. \A e \in unapplied : e \in Pending(e[1]) /\ e[1] \in Services
  BY <1>0 DEF OldIsFoundOrToCome, AllPending, Pending
<1>3. \A x \in spent : x \in Services \X Expired /\ LandedIn(x[1], x[2])
  BY <1>0 DEF OldIsFoundOrToCome, SpentNow
<1>4. ASSUME Begin PROVE Covered
  <2>1. at' = "lag" /\ todo' = ServiceOrder /\ unapplied' = AllPending
    BY <1>4 DEF Begin, Sources
  <2>2. \A e \in AllPending : e[1] \in Services
    BY DEF AllPending, Pending
  <2> QED BY <2>1, <2>2
<1>5. ASSUME CheckLag PROVE Covered
  <2>1. /\ at = "lag" /\ at' \in {"lag", "total"} /\ unapplied' = unapplied
        /\ report \subseteq report'
        /\ Pending(Head(todo)) # {} => Lag(Head(todo)) \in report'
        /\ todo \in Seq(Services) /\ todo # <<>>
        /\ IF Len(todo) = 1 THEN at' = "total" ELSE at' = "lag" /\ todo' = Tail(todo)
    BY <1>0, <1>5 DEF CheckLag, AskEach, Findings, Lag, history, RowsStayTrue, TypeOK
  <2>2. ASSUME NEW e \in unapplied, Lag(e[1]) \notin report'
        PROVE  at' = "lag" /\ \E i \in DOMAIN todo' : todo'[i] = e[1]
    <3>1. e[1] # Head(todo)
      BY <1>2, <2>1, <2>2
    <3>2. PICK i \in 1..Len(todo) : todo[i] = e[1]
      BY <1>0, <2>1, <2>2 DEF OldIsFoundOrToCome
    <3>3. i \in 2..Len(todo) /\ Len(todo) # 1
      BY <2>1, <3>1, <3>2, TailOfTodo
    <3>4. i - 1 \in 1..Len(Tail(todo)) /\ Tail(todo)[i - 1] = todo[i]
      BY <2>1, <3>3, TailOfTodo
    <3>5. DOMAIN Tail(todo) = 1..Len(Tail(todo))
      BY <2>1, TailOfTodo
    <3> QED BY <2>1, <3>2, <3>3, <3>4, <3>5
  <2> QED BY <2>1, <2>2
<1>6. ASSUME ReadTotal \/ ReadApplied \/ CheckDuplicateKeys \/ ReadApplieds PROVE Covered
  <2>1. /\ at # "lag" /\ at' \notin {"lag", "landed", "idle"}
        /\ unapplied' = unapplied /\ report \subseteq report'
    BY <1>6 DEF ReadTotal, ReadApplied, CheckDuplicateKeys, AskEach, ReadApplieds, history
  <2> QED BY <1>0, <2>1 DEF OldIsFoundOrToCome
<1>7. ASSUME NEW e \in rows, LookUpSource(e) PROVE Covered
  <2>1. /\ at = "sources" /\ at' = at
        /\ unapplied' = unapplied /\ report \subseteq report'
    BY <1>7 DEF LookUpSource, history
  <2> QED BY <1>0, <2>1 DEF OldIsFoundOrToCome
<1>8. ASSUME ReadExpired PROVE Covered
  <2>1. /\ at = "sources" /\ at' = "landed" /\ rows' = Services \X Expired
        /\ unapplied' = unapplied /\ report' = report /\ spent' = spent
    BY <1>8 DEF ReadExpired, Sources, history
  <2> QED BY <1>0, <1>3, <2>1 DEF OldIsFoundOrToCome
<1>9. ASSUME NEW x \in rows, LookUpEffect(x) PROVE Covered
  <2>1. /\ at = "landed" /\ at' = at /\ rows' = rows \ {x} /\ spent' = spent
        /\ unapplied' = unapplied /\ report \subseteq report'
        /\ LandedIn(x[1], x[2]) => Spent(x) \in report'
    BY <1>9 DEF LookUpEffect, Findings, Spent, history
  <2> QED BY <1>0, <1>3, <2>1 DEF OldIsFoundOrToCome
<1>10. ASSUME Done PROVE Covered
  <2>1. at = "landed" /\ at' = "done" /\ unapplied' = unapplied /\ report' = report
    BY <1>10 DEF Done, history
  <2> QED BY <1>0, <2>1 DEF OldIsFoundOrToCome
<1>11. ASSUME Systems PROVE Covered
  <2>1. unapplied' \subseteq unapplied /\ spent' \subseteq spent
    BY <1>11 DEF Systems, FoldEvent, ExpireHold, SettleHold, ServiceMoves, StillPending,
       StillSpent, vars, history
  <2> QED BY <1>0, <1>11, <2>1, SystemsLeaveRun DEF OldIsFoundOrToCome
<1>12. Covered
  <2> HIDE DEF Covered
  <2>1. Reconcile \/ Systems
    BY DEF Next, Systems
  <2> QED BY <1>4, <1>5, <1>6, <1>7, <1>8, <1>9, <1>10, <1>11, <2>1 DEF Reconcile
<1> QED BY <1>1, <1>12 DEF OldIsFoundOrToCome, Lag, Spent

LEMMA StepMissed == Inv /\ [Next]_vars => NothingOldIsMissed'
<1> SUFFICES ASSUME Inv, [Next]_vars, at' = "done"
             PROVE  /\ \A e \in unapplied' : Lag(e[1]) \in report'
                    /\ \A x \in spent' : Spent(x) \in report'
  BY DEF NothingOldIsMissed, Lag, Spent
<1>0. OldIsFoundOrToCome /\ NothingOldIsMissed
  BY DEF Inv, ReconciliationInv
<1>1. CASE Done
  <2>1. /\ at = "landed" /\ rows = {} /\ report' = report
        /\ unapplied' = unapplied /\ spent' = spent
    BY <1>1 DEF Done, history
  <2> QED BY <1>0, <2>1 DEF OldIsFoundOrToCome
<1>2. CASE Reconcile /\ ~Done
  BY <1>2 DEF Reconcile, Begin, CheckLag, AskEach, ReadTotal, ReadApplied, CheckDuplicateKeys,
     ReadApplieds, LookUpSource, LookUpEffect, ReadExpired
<1>3. CASE Systems
  <2>1. unapplied' \subseteq unapplied /\ spent' \subseteq spent
    BY <1>3 DEF Systems, FoldEvent, ExpireHold, SettleHold, ServiceMoves, StillPending,
       StillSpent, vars, history
  <2> QED BY <1>0, <1>3, <2>1, SystemsLeaveRun DEF NothingOldIsMissed, Lag, Spent
<1> QED BY <1>1, <1>2, <1>3 DEF Next, Systems

\* The invariant holds.
THEOREM Invariance == Spec => []Inv
<1>1. Inv /\ [Next]_vars => Inv'
  BY StepType, StepSystems, StepRows, StepDrift, StepOld, StepMissed
     DEF Inv, ReconciliationInv
<1> QED BY <1>1, InitInv, PTL DEF Spec

-----------------------------------------------------------------------------
(***************************************************************************)
(* What it shows.                                                          *)
(***************************************************************************)
\* A finding is true when it is made, though its queries are answered at different times;
\* a drift comes from a fold between two of them, and a spent hold may be settled since.
THEOREM AlarmsCanBeTrusted == Spec => AlarmsAreTrue
<1>1. Inv /\ [Next]_vars => [\A f \in report' \ report : FoundTrue(f)]_vars
  BY StepAlarms
<1> QED BY <1>1, Invariance, PTL DEF Spec, AlarmsAreTrue, FoundTrue

\* What is wrong from the first query of a run to its last is in its report.
THEOREM ReportsAreComplete == Spec => []NothingOldIsMissed
<1>1. Inv => NothingOldIsMissed
  BY DEF Inv, ReconciliationInv
<1> QED BY <1>1, Invariance, PTL
=============================================================================
