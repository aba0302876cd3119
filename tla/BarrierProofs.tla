---------------------------- MODULE BarrierProofs ----------------------------
(***************************************************************************)
(* What Barrier guarantees for every schedule, every set of calls, every   *)
(* lease length and with or without timeouts.                              *)
(***************************************************************************)
EXTENDS Barrier, FiniteSetTheorems, TLAPS

USE StepsAssumption, BarrierAssumption

-----------------------------------------------------------------------------
(***************************************************************************)
(* The inductive invariant: what holds between any two steps.              *)
(***************************************************************************)
\* Whoever has a key was counted, so a fresh arrival's key is nobody's.
ArrivedKeysAreCounted ==
    /\ \A c \in Calls : key[c] # NoKey => key[c][2] < arrivals[key[c][1]]
    /\ \A i \in 1..pointer : HasArrived(KeyAt(i))

\* A parked call waits for a release that has not happened, in a live run.
ParkedCallsWait ==
    \A k \in Declared : parked[k] # NoCall =>
        /\ key[parked[k]] = k
        /\ pc[parked[k]] \in {"blocked", "gaveup"}
        /\ parked[k] \notin signalled \cup toWake
        /\ aborted = NotAborted
        /\ ~Released(k)

\* An event is set by a release or by an abort, by nothing else.
EventsHaveCause ==
    /\ \A c \in signalled : Released(key[c]) \/ aborted # NotAborted
    /\ toWake # {} => aborted # NotAborted

\* The lock is held across steps by a cascade only, and never in an aborted run.
LockIsCascade ==
    /\ \A c \in Calls : lock = c <=> pc[c] = "cascading"
    /\ lock # NoCall => aborted = NotAborted

CallsHaveKeys ==
    \A c \in Calls :
        /\ pc[c] = "outside" => key[c] = NoKey
        /\ pc[c] \in {"blocked", "gaveup", "cascading", "returning", "returned",
                      "timedout"} => key[c] # NoKey

\* All of it holds between any two steps, and each step preserves it.
BarrierInv ==
    /\ ReleasesFollowSchedule
    /\ NoWaiterLeftBehind
    /\ OnlyReleasedCallsReturn
    /\ BlockedCallsAreParked
    /\ LeasesHaveWaiters
    /\ ArrivedKeysAreCounted
    /\ ParkedCallsWait
    /\ EventsHaveCause
    /\ LockIsCascade
    /\ CallsHaveKeys

-----------------------------------------------------------------------------
(***************************************************************************)
(* Keys.                                                                   *)
(***************************************************************************)
\* A declared occurrence of a pair is below the number of times it is declared:
\* accepting it cannot count the pair more often than the schedule names it.
LEMMA DeclaredOccurrence ==
    ASSUME NEW s \in Arrivable, NEW n \in Nat, <<s, n>> \in Declared
    PROVE  n + 1 <= OccurrencesOf(s)
<1> DEFINE All == {i \in 1..Len(Steps) : Steps[i] = s}
           Before(i) == {j \in 1..(i-1) : Steps[j] = s}
<1>1. Len(Steps) \in Nat
  OBVIOUS
<1>2. PICK i \in 1..Len(Steps) : <<s, n>> = KeyAt(i)
  BY DEF Declared
<1>3. Steps[i] = s /\ n = Cardinality(Before(i))
  BY <1>2 DEF KeyAt, StepOccurrence
<1>4. IsFiniteSet(1..Len(Steps))
  BY <1>1, FS_Interval
<1>5. IsFiniteSet(All)
  <2>1. All \in SUBSET (1..Len(Steps))
    OBVIOUS
  <2>2. QED BY <2>1, <1>4, FS_Subset
<1>6. Before(i) \in SUBSET All /\ i \notin Before(i) /\ i \in All
  BY <1>1, <1>3
<1>7. IsFiniteSet(Before(i))
  BY <1>5, <1>6, FS_Subset
<1>8. Cardinality(Before(i) \cup {i}) = n + 1
  BY <1>3, <1>6, <1>7, FS_AddElement
<1>9. (Before(i) \cup {i}) \in SUBSET All
  BY <1>6
<1>10. Cardinality(Before(i) \cup {i}) <= Cardinality(All)
  BY <1>5, <1>9, FS_Subset
<1> QED BY <1>8, <1>10 DEF OccurrencesOf

LEMMA OccurrencesType ==
    ASSUME NEW s \in Arrivable
    PROVE  OccurrencesOf(s) \in Nat
<1> DEFINE All == {i \in 1..Len(Steps) : Steps[i] = s}
<1>1. All \in SUBSET (1..Len(Steps)) /\ Len(Steps) \in Nat
  OBVIOUS
<1>2. IsFiniteSet(1..Len(Steps))
  BY <1>1, FS_Interval
<1>3. IsFiniteSet(All)
  BY <1>1, <1>2, FS_Subset
<1> QED BY <1>3, FS_CardinalityType DEF OccurrencesOf

LEMMA OccurrenceType ==
    ASSUME NEW i \in 1..Len(Steps)
    PROVE  StepOccurrence[i] \in Nat
<1> DEFINE Before == {j \in 1..(i-1) : Steps[j] = Steps[i]}
<1>1. IsFiniteSet(1..(i-1))
  BY FS_Interval
<1>2. Before \in SUBSET (1..(i-1))
  OBVIOUS
<1>3. IsFiniteSet(Before)
  BY <1>1, <1>2, FS_Subset
<1>4. Cardinality(Before) \in Nat
  BY <1>3, FS_CardinalityType
<1> QED BY <1>4 DEF StepOccurrence

\* The key of a step is declared, and is a pair made of that step and a number.
LEMMA KeyAtType ==
    ASSUME NEW i \in 1..Len(Steps)
    PROVE  KeyAt(i) \in Declared
BY DEF Declared
\* A fresh arrival of a declared occurrence keeps the counters within the schedule.
LEMMA CountedType ==
    ASSUME TypeOK, NEW s \in Arrivable, ArrivalKey(s) \in Declared
    PROVE  /\ Counted(s) \in [Arrivable -> Nat]
           /\ \A r \in Arrivable : Counted(s)[r] <= OccurrencesOf(r)
<1>1. arrivals \in [Arrivable -> Nat] /\ \A r \in Arrivable : arrivals[r] <= OccurrencesOf(r)
  BY DEF TypeOK
<1>2. arrivals[s] + 1 <= OccurrencesOf(s)
  BY <1>1, DeclaredOccurrence DEF ArrivalKey
<1> QED BY <1>1, <1>2 DEF Counted

-----------------------------------------------------------------------------
(***************************************************************************)
(* Type correctness.                                                       *)
(***************************************************************************)
LEMMA InitType == Init => TypeOK
<1> SUFFICES ASSUME Init PROVE TypeOK
  OBVIOUS
<1>1. \A s \in Arrivable : arrivals[s] <= OccurrencesOf(s)
  BY OccurrencesType DEF Init
<1>2. Len(Steps) \in Nat
  OBVIOUS
<1> QED BY <1>1, <1>2 DEF Init, TypeOK

LEMMA StepType == TypeOK /\ [Next]_vars => TypeOK'
<1> SUFFICES ASSUME TypeOK, [Next]_vars PROVE TypeOK'
  OBVIOUS
<1> USE DEF TypeOK, AtDoor, Open, Goto, shared, callVars, reapVars
<1>0. Len(Steps) \in Nat
  OBVIOUS
<1>a. \A s \in Arrivable : OccurrencesOf(s)' = OccurrencesOf(s)
  BY DEF OccurrencesOf
<1>1. ASSUME NEW c \in Calls, EnterAborted(c) PROVE TypeOK'
  BY <1>1, <1>a DEF EnterAborted
<1>2. ASSUME NEW c \in Calls, NEW s \in Arrivable, EnterUndeclared(c, s) PROVE TypeOK'
  BY <1>2, <1>a DEF EnterUndeclared
<1>3. ASSUME NEW c \in Calls, NEW s \in Arrivable, EnterNext(c, s) PROVE TypeOK'
  <2>1. /\ Counted(s) \in [Arrivable -> Nat]
        /\ \A r \in Arrivable : Counted(s)[r] <= OccurrencesOf(r)
    BY <1>3, CountedType DEF EnterNext, IsDeclared
  <2>2. pointer + 1 \in 0..Len(Steps)
    BY <1>3, <1>0 DEF EnterNext, MatchesPointer, IsComplete
  <2> QED BY <1>3, <1>a, <2>1, <2>2 DEF EnterNext, IsDeclared, DropLease
<1>4. ASSUME NEW c \in Calls, NEW s \in Arrivable, EnterPark(c, s) PROVE TypeOK'
  <2>1. /\ Counted(s) \in [Arrivable -> Nat]
        /\ \A r \in Arrivable : Counted(s)[r] <= OccurrencesOf(r)
    BY <1>4, CountedType DEF EnterPark, IsDeclared
  <2> QED BY <1>4, <1>a, <2>1 DEF EnterPark, IsDeclared, GrantLease
<1>5. ASSUME NEW c \in Calls, Cascade(c) PROVE TypeOK'
  <2>1. pointer + 1 \in 1..Len(Steps)
    BY <1>5, <1>0 DEF Cascade, CascadeGoesOn, IsComplete
  <2>2. CurrentKey \in Declared
    BY <2>1, KeyAtType DEF CurrentKey
  <2>3. parked[CurrentKey] \in Calls
    BY <1>5, <2>2 DEF Cascade, CascadeGoesOn
  <2> QED BY <1>5, <1>a, <2>1, <2>2, <2>3 DEF Cascade, Unparked, DropLease, SetEvent
<1>6. ASSUME NEW c \in Calls, CascadeEnds(c) PROVE TypeOK'
  BY <1>6, <1>a DEF CascadeEnds
<1>7. ASSUME NEW c \in Calls, Woken(c) PROVE TypeOK'
  BY <1>7, <1>a DEF Woken, WokenOutcome
<1>8. ASSUME NEW c \in Calls, Return(c) PROVE TypeOK'
  BY <1>8, <1>a DEF Return
<1>9. ASSUME NEW c \in Calls, GiveUp(c) PROVE TypeOK'
  BY <1>9, <1>a DEF GiveUp
<1>10. ASSUME NEW c \in Calls, TimeOut(c) PROVE TypeOK'
  BY <1>10, <1>a DEF TimeOut, Unparked, DropLease
<1>11. ASSUME NEW r \in Reasons, Abort(r) PROVE TypeOK'
  BY <1>11, <1>a DEF Abort, AbortLocked, ParkedCalls
<1>12. ASSUME NEW c \in Calls, WakeAborted(c) PROVE TypeOK'
  BY <1>12, <1>a DEF WakeAborted
<1>13. ASSUME NEW k \in Declared, Heartbeat(k) PROVE TypeOK'
  BY <1>13, <1>a DEF Heartbeat, GrantLease
<1>14. CASE ReaperReadsClock
  BY <1>14, <1>a DEF ReaperReadsClock
<1>15. CASE ReaperScans
  BY <1>15, <1>a DEF ReaperScans
<1>16. CASE ReaperAborts
  BY <1>16, <1>a DEF ReaperAborts, AbortLocked, ParkedCalls
<1>17. CASE Tick
  BY <1>17, <1>a DEF Tick
<1>18. CASE UNCHANGED vars
  BY <1>18, <1>a DEF vars
<1> QED
  BY <1>1, <1>2, <1>3, <1>4, <1>5, <1>6, <1>7, <1>8, <1>9, <1>10, <1>11, <1>12, <1>13,
     <1>14, <1>15, <1>16, <1>17, <1>18 DEF Next, Enter, Proceed, Reap

\* Every reachable state has its type, and no arrival is counted that was not declared.
THEOREM TypeCorrect == Spec => []TypeOK
<1>1. Init => TypeOK
  BY InitType
<1>2. TypeOK /\ [Next]_vars => TypeOK'
  BY StepType
<1> QED BY <1>1, <1>2, PTL DEF Spec

-----------------------------------------------------------------------------
(***************************************************************************)
(* The inductive invariant.                                                *)
(***************************************************************************)
LEMMA InitInv == Init => BarrierInv
<1> SUFFICES ASSUME Init PROVE BarrierInv
  OBVIOUS
<1> USE DEF Init
<1>1. ReleasesFollowSchedule /\ OnlyReleasedCallsReturn /\ LeasesHaveWaiters
  BY DEF ReleasesFollowSchedule, OnlyReleasedCallsReturn, LeasesHaveWaiters
<1>2. NoWaiterLeftBehind
  <2>1. ~IsComplete => CurrentKey \in Declared
    BY KeyAtType DEF IsComplete, CurrentKey
  <2> QED BY <2>1 DEF NoWaiterLeftBehind
<1>3. BlockedCallsAreParked /\ ArrivedKeysAreCounted /\ ParkedCallsWait
  BY DEF BlockedCallsAreParked, ArrivedKeysAreCounted, ParkedCallsWait
<1>4. EventsHaveCause /\ LockIsCascade /\ CallsHaveKeys
  BY DEF EventsHaveCause, LockIsCascade, CallsHaveKeys
<1> QED BY <1>1, <1>2, <1>3, <1>4 DEF BarrierInv

\* The key of a fresh arrival belongs to no call, is not parked and was not released.
LEMMA FreshKey ==
    ASSUME TypeOK, BarrierInv, NEW s \in Arrivable, ArrivalKey(s) \in Declared
    PROVE  /\ \A c \in Calls : key[c] # ArrivalKey(s)
           /\ parked[ArrivalKey(s)] = NoCall
           /\ ~Released(ArrivalKey(s))
<1>1. \A c \in Calls : key[c] # ArrivalKey(s)
  <2> SUFFICES ASSUME NEW c \in Calls, key[c] = ArrivalKey(s) PROVE FALSE
    OBVIOUS
  <2>1. key[c] # NoKey
    OBVIOUS
  <2>2. key[c][2] < arrivals[key[c][1]]
    BY <2>1 DEF BarrierInv, ArrivedKeysAreCounted
  <2>3. arrivals[s] < arrivals[s]
    BY <2>2 DEF ArrivalKey
  <2> QED BY <2>3 DEF TypeOK
<1>2. parked[ArrivalKey(s)] = NoCall
  BY <1>1 DEF TypeOK, BarrierInv, ParkedCallsWait
<1>3. ~Released(ArrivalKey(s))
  <2> SUFFICES ASSUME NEW i \in 1..Len(releaseOrder), releaseOrder[i] = ArrivalKey(s)
               PROVE FALSE
    BY DEF Released
  <2>1. i \in 1..pointer /\ KeyAt(i) = ArrivalKey(s)
    BY DEF BarrierInv, ReleasesFollowSchedule
  <2>2. HasArrived(KeyAt(i))
    BY <2>1 DEF BarrierInv, ArrivedKeysAreCounted
  <2> QED BY <1>1, <2>1, <2>2 DEF HasArrived
<1> QED BY <1>1, <1>2, <1>3

\* Releasing the current key extends the released prefix by exactly that key.
LEMMA ReleaseExtends ==
    ASSUME TypeOK, BarrierInv, ~IsComplete,
           releaseOrder' = Append(releaseOrder, CurrentKey), pointer' = pointer + 1
    PROVE  /\ ReleasesFollowSchedule'
           /\ CurrentKey \in Declared
           /\ \A k : Released(k)' <=> (Released(k) \/ k = CurrentKey)
<1>1. pointer \in Nat /\ pointer < Len(Steps) /\ Len(Steps) \in Nat
  BY DEF TypeOK, IsComplete
<1>2. CurrentKey \in Declared
  BY <1>1, KeyAtType DEF CurrentKey
<1>3. /\ Len(releaseOrder) = pointer
      /\ \A i \in 1..pointer : releaseOrder[i] = KeyAt(i)
  BY DEF BarrierInv, ReleasesFollowSchedule
<1>4. /\ Len(releaseOrder') = pointer + 1
      /\ \A i \in 1..pointer : releaseOrder'[i] = releaseOrder[i]
      /\ releaseOrder'[pointer + 1] = CurrentKey
  BY <1>1, <1>2, <1>3 DEF TypeOK
<1>5. ReleasesFollowSchedule'
  BY <1>1, <1>3, <1>4 DEF ReleasesFollowSchedule, CurrentKey, KeyAt
<1>6. \A k : Released(k)' <=> (Released(k) \/ k = CurrentKey)
  BY <1>1, <1>3, <1>4 DEF Released
<1> QED BY <1>2, <1>5, <1>6

\* The calls and the keys they arrived with, at an arrival.
LEMMA ArrivalCounted ==
    ASSUME TypeOK, BarrierInv, NEW c \in Calls, NEW s \in Arrivable,
           ArrivalKey(s) \in Declared, pc[c] = "outside",
           arrivals' = Counted(s), key' = [key EXCEPT ![c] = ArrivalKey(s)]
    PROVE  /\ \A d \in Calls : key'[d] # NoKey => key'[d][2] < arrivals'[key'[d][1]]
           /\ \A k \in Declared : HasArrived(k)' <=> (HasArrived(k) \/ k = ArrivalKey(s))
           /\ \A d, e \in Calls : d # e /\ key'[d] # NoKey => key'[d] # key'[e]
<1>1. key[c] = NoKey
  BY DEF BarrierInv, CallsHaveKeys
<1>2. \A d \in Calls : key[d] # NoKey =>
            key[d] \in Declared /\ key[d][1] \in Arrivable /\ key[d][2] < arrivals[key[d][1]]
  <2> SUFFICES ASSUME NEW d \in Calls, key[d] # NoKey
               PROVE  key[d] \in Declared /\ key[d][1] \in Arrivable
                      /\ key[d][2] < arrivals[key[d][1]]
    OBVIOUS
  <2>1. key[d] \in Declared
    BY DEF TypeOK
  <2>2. key[d][1] \in Arrivable
    BY <2>1 DEF Declared, KeyAt
  <2>3. key[d][2] < arrivals[key[d][1]]
    BY DEF BarrierInv, ArrivedKeysAreCounted
  <2> QED BY <2>1, <2>2, <2>3
<1>3. \A d \in Calls : key'[d] # NoKey => key'[d][2] < arrivals'[key'[d][1]]
  <2> SUFFICES ASSUME NEW d \in Calls, key'[d] # NoKey
               PROVE  key'[d][2] < arrivals'[key'[d][1]]
    OBVIOUS
  <2>0. arrivals \in [Arrivable -> Nat] /\ key \in [Calls -> Declared \cup {NoKey}]
    BY DEF TypeOK
  <2>1. CASE d = c
    <3>1. key'[d] = <<s, arrivals[s]>>
      BY <2>0, <2>1 DEF ArrivalKey
    <3>2. arrivals'[s] = arrivals[s] + 1
      BY <2>0 DEF Counted
    <3> QED BY <2>0, <3>1, <3>2
  <2>2. CASE d # c
    <3>1. key'[d] = key[d]
      BY <2>0, <2>2
    <3>2. key[d][1] \in Arrivable /\ key[d][2] < arrivals[key[d][1]]
      BY <1>2, <3>1
    <3>3. key[d][2] \in Nat
      <4>1. PICK i \in 1..Len(Steps) : key[d] = <<Steps[i], StepOccurrence[i]>>
        BY <1>2, <3>1 DEF Declared, KeyAt
      <4>2. StepOccurrence[i] \in Nat
        BY OccurrenceType
      <4> QED BY <4>1, <4>2
    <3>4. arrivals'[key[d][1]] >= arrivals[key[d][1]] /\ arrivals'[key[d][1]] \in Nat
      BY <2>0, <3>2 DEF Counted
    <3> QED BY <2>0, <3>1, <3>2, <3>3, <3>4
  <2> QED BY <2>1, <2>2
<1>4. \A k \in Declared : HasArrived(k)' <=> (HasArrived(k) \/ k = ArrivalKey(s))
  BY <1>1 DEF TypeOK, HasArrived
<1>5. \A d, e \in Calls : d # e /\ key'[d] # NoKey => key'[d] # key'[e]
  <2>1. \A d, e \in Calls : d # e /\ key[d] # NoKey => key[d] # key[e]
    BY DEF BarrierInv, BlockedCallsAreParked
  <2> QED BY <1>1, <2>1, FreshKey DEF TypeOK
<1> QED BY <1>3, <1>4, <1>5

(***************************************************************************)
(* One lemma per action: it preserves the invariant.                       *)
(***************************************************************************)
\* A call refused at the door touches nothing but itself.
LEMMA EnterAbortedInv ==
    ASSUME TypeOK, TypeOK', BarrierInv, NEW c \in Calls, EnterAborted(c)
    PROVE  BarrierInv'
<1> USE DEF TypeOK, BarrierInv, EnterAborted, shared, callVars, reapVars, Goto, AtDoor, Open
<1>1. ReleasesFollowSchedule' /\ NoWaiterLeftBehind' /\ LeasesHaveWaiters' /\
     ArrivedKeysAreCounted' /\ EventsHaveCause'
  BY DEF ReleasesFollowSchedule, NoWaiterLeftBehind, IsComplete, CurrentKey,
     LeasesHaveWaiters, ArrivedKeysAreCounted, HasArrived, EventsHaveCause, Released
<1>2. OnlyReleasedCallsReturn'
  BY DEF OnlyReleasedCallsReturn, Released
<1>3. BlockedCallsAreParked'
  BY DEF BlockedCallsAreParked
<1>4. ParkedCallsWait'
  BY DEF ParkedCallsWait, Released
<1>5. LockIsCascade'
  BY DEF LockIsCascade
<1>6. CallsHaveKeys'
  BY DEF CallsHaveKeys
<1> QED BY <1>1, <1>2, <1>3, <1>4, <1>5, <1>6

\* Neither does one with an undeclared occurrence.
LEMMA EnterUndeclaredInv ==
    ASSUME TypeOK, TypeOK', BarrierInv, NEW c \in Calls, NEW s \in Arrivable, EnterUndeclared(c, s)
    PROVE  BarrierInv'
<1> USE DEF TypeOK, BarrierInv, EnterUndeclared, shared, callVars, reapVars, Goto, AtDoor, Open
<1>1. ReleasesFollowSchedule' /\ NoWaiterLeftBehind' /\ LeasesHaveWaiters' /\
     ArrivedKeysAreCounted' /\ EventsHaveCause'
  BY DEF ReleasesFollowSchedule, NoWaiterLeftBehind, IsComplete, CurrentKey,
     LeasesHaveWaiters, ArrivedKeysAreCounted, HasArrived, EventsHaveCause, Released
<1>2. OnlyReleasedCallsReturn'
  BY DEF OnlyReleasedCallsReturn, Released
<1>3. BlockedCallsAreParked'
  BY DEF BlockedCallsAreParked
<1>4. ParkedCallsWait'
  BY DEF ParkedCallsWait, Released
<1>5. LockIsCascade'
  BY DEF LockIsCascade
<1>6. CallsHaveKeys'
  BY DEF CallsHaveKeys
<1> QED BY <1>1, <1>2, <1>3, <1>4, <1>5, <1>6

\* Leaving the cascade: the key now waited for is not parked.
LEMMA CascadeEndsInv ==
    ASSUME TypeOK, TypeOK', BarrierInv, NEW c \in Calls, CascadeEnds(c)
    PROVE  BarrierInv'
<1> USE DEF TypeOK, BarrierInv, CascadeEnds, CascadeGoesOn, shared, callVars, reapVars
<1>0. pc[c] = "cascading"
  BY DEF LockIsCascade
<1>1. ReleasesFollowSchedule' /\ LeasesHaveWaiters' /\ ArrivedKeysAreCounted' /\
     EventsHaveCause'
  BY DEF ReleasesFollowSchedule, LeasesHaveWaiters, ArrivedKeysAreCounted, HasArrived,
     EventsHaveCause, Released
<1>2. NoWaiterLeftBehind'
  BY DEF NoWaiterLeftBehind, IsComplete, CurrentKey
<1>3. OnlyReleasedCallsReturn'
  BY <1>0 DEF OnlyReleasedCallsReturn, Released
<1>4. BlockedCallsAreParked'
  BY <1>0 DEF BlockedCallsAreParked
<1>5. ParkedCallsWait'
  BY <1>0 DEF ParkedCallsWait, Released
<1>6. LockIsCascade'
  BY <1>0 DEF LockIsCascade
<1>7. CallsHaveKeys'
  BY <1>0 DEF CallsHaveKeys
<1> QED BY <1>1, <1>2, <1>3, <1>4, <1>5, <1>6, <1>7

\* A woken call goes on only if nothing was aborted, so its event was a release.
LEMMA WokenInv ==
    ASSUME TypeOK, TypeOK', BarrierInv, NEW c \in Calls, Woken(c)
    PROVE  BarrierInv'
<1> USE DEF TypeOK, BarrierInv, Woken, WokenOutcome, shared, callVars, reapVars, Goto
<1>1. ReleasesFollowSchedule' /\ NoWaiterLeftBehind' /\ LeasesHaveWaiters' /\
     ArrivedKeysAreCounted' /\ EventsHaveCause'
  BY DEF ReleasesFollowSchedule, NoWaiterLeftBehind, IsComplete, CurrentKey,
     LeasesHaveWaiters, ArrivedKeysAreCounted, HasArrived, EventsHaveCause, Released
<1>2. OnlyReleasedCallsReturn'
  BY DEF OnlyReleasedCallsReturn, Released, EventsHaveCause, Released
<1>3. BlockedCallsAreParked'
  BY DEF BlockedCallsAreParked
<1>4. ParkedCallsWait'
  BY DEF ParkedCallsWait, Released
<1>5. LockIsCascade'
  BY DEF LockIsCascade
<1>6. CallsHaveKeys'
  BY DEF CallsHaveKeys
<1> QED BY <1>1, <1>2, <1>3, <1>4, <1>5, <1>6

\* Returning changes only where the call is.
LEMMA ReturnInv ==
    ASSUME TypeOK, TypeOK', BarrierInv, NEW c \in Calls, Return(c)
    PROVE  BarrierInv'
<1> USE DEF TypeOK, BarrierInv, Return, shared, callVars, reapVars, Goto
<1>1. ReleasesFollowSchedule' /\ NoWaiterLeftBehind' /\ LeasesHaveWaiters' /\
     ArrivedKeysAreCounted' /\ EventsHaveCause'
  BY DEF ReleasesFollowSchedule, NoWaiterLeftBehind, IsComplete, CurrentKey,
     LeasesHaveWaiters, ArrivedKeysAreCounted, HasArrived, EventsHaveCause, Released
<1>2. OnlyReleasedCallsReturn'
  BY DEF OnlyReleasedCallsReturn, Released
<1>3. BlockedCallsAreParked'
  BY DEF BlockedCallsAreParked
<1>4. ParkedCallsWait'
  BY DEF ParkedCallsWait, Released
<1>5. LockIsCascade'
  BY DEF LockIsCascade
<1>6. CallsHaveKeys'
  BY DEF CallsHaveKeys
<1> QED BY <1>1, <1>2, <1>3, <1>4, <1>5, <1>6

\* A call that gives up stays parked until it gets the lock.
LEMMA GiveUpInv ==
    ASSUME TypeOK, TypeOK', BarrierInv, NEW c \in Calls, GiveUp(c)
    PROVE  BarrierInv'
<1> USE DEF TypeOK, BarrierInv, GiveUp, shared, callVars, reapVars, Goto
<1>1. ReleasesFollowSchedule' /\ NoWaiterLeftBehind' /\ LeasesHaveWaiters' /\
     ArrivedKeysAreCounted' /\ EventsHaveCause'
  BY DEF ReleasesFollowSchedule, NoWaiterLeftBehind, IsComplete, CurrentKey,
     LeasesHaveWaiters, ArrivedKeysAreCounted, HasArrived, EventsHaveCause, Released
<1>2. OnlyReleasedCallsReturn'
  BY DEF OnlyReleasedCallsReturn, Released
<1>3. BlockedCallsAreParked'
  BY DEF BlockedCallsAreParked
<1>4. ParkedCallsWait'
  BY DEF ParkedCallsWait, Released
<1>5. LockIsCascade'
  BY DEF LockIsCascade
<1>6. CallsHaveKeys'
  BY DEF CallsHaveKeys
<1> QED BY <1>1, <1>2, <1>3, <1>4, <1>5, <1>6

\* It then removes its own entry, and no other.
LEMMA TimeOutInv ==
    ASSUME TypeOK, TypeOK', BarrierInv, NEW c \in Calls, TimeOut(c)
    PROVE  BarrierInv'
<1> USE DEF TypeOK, BarrierInv, TimeOut, Unparked, DropLease, shared, callVars, reapVars
<1>1. ReleasesFollowSchedule' /\ ArrivedKeysAreCounted' /\ EventsHaveCause'
  BY DEF ReleasesFollowSchedule, ArrivedKeysAreCounted, HasArrived, EventsHaveCause,
     Released
<1>2. NoWaiterLeftBehind'
  BY DEF NoWaiterLeftBehind, IsComplete, CurrentKey
<1>3. OnlyReleasedCallsReturn'
  BY DEF OnlyReleasedCallsReturn, Released
<1>4. BlockedCallsAreParked'
  BY DEF BlockedCallsAreParked
<1>5. LeasesHaveWaiters'
  BY DEF LeasesHaveWaiters
<1>6. ParkedCallsWait'
  BY DEF ParkedCallsWait, Released
<1>7. LockIsCascade'
  BY DEF LockIsCascade
<1>8. CallsHaveKeys'
  BY DEF CallsHaveKeys
<1> QED BY <1>1, <1>2, <1>3, <1>4, <1>5, <1>6, <1>7, <1>8

\* An aborted waiter is woken after the abort, never before.
LEMMA WakeAbortedInv ==
    ASSUME TypeOK, TypeOK', BarrierInv, NEW c \in Calls, WakeAborted(c)
    PROVE  BarrierInv'
<1> USE DEF TypeOK, BarrierInv, WakeAborted, shared, callVars, reapVars
<1>1. ReleasesFollowSchedule' /\ NoWaiterLeftBehind' /\ OnlyReleasedCallsReturn' /\
     LeasesHaveWaiters' /\ ArrivedKeysAreCounted' /\ LockIsCascade' /\
     CallsHaveKeys'
    BY DEF ReleasesFollowSchedule, NoWaiterLeftBehind, IsComplete, CurrentKey,
     OnlyReleasedCallsReturn, Released, LeasesHaveWaiters, ArrivedKeysAreCounted, HasArrived,
     LockIsCascade, CallsHaveKeys
<1>2. BlockedCallsAreParked'
  BY DEF BlockedCallsAreParked
<1>3. ParkedCallsWait'
  BY DEF ParkedCallsWait, Released
<1>4. EventsHaveCause'
  BY DEF EventsHaveCause, Released
<1> QED BY <1>1, <1>2, <1>3, <1>4

\* A heartbeat renews a lease that exists.
LEMMA HeartbeatInv ==
    ASSUME TypeOK, TypeOK', BarrierInv, NEW k \in Declared, Heartbeat(k)
    PROVE  BarrierInv'
<1> USE DEF TypeOK, BarrierInv, Heartbeat, GrantLease, shared, callVars, reapVars
<1>1. ReleasesFollowSchedule' /\ NoWaiterLeftBehind' /\ OnlyReleasedCallsReturn' /\
     BlockedCallsAreParked' /\ ArrivedKeysAreCounted' /\ ParkedCallsWait' /\
     EventsHaveCause' /\ LockIsCascade' /\ CallsHaveKeys'
    BY DEF ReleasesFollowSchedule, NoWaiterLeftBehind, IsComplete, CurrentKey,
     OnlyReleasedCallsReturn, Released, BlockedCallsAreParked, ArrivedKeysAreCounted,
     HasArrived, ParkedCallsWait, EventsHaveCause, LockIsCascade, CallsHaveKeys
<1>2. LeasesHaveWaiters'
  BY DEF LeasesHaveWaiters
<1> QED BY <1>1, <1>2

\* The critical section of abort: every waiter moves from the dictionary to the
\* list of events to set.
LEMMA AbortLockedInv ==
    ASSUME TypeOK, TypeOK', BarrierInv, NEW r \in Reasons \cup {LapsedReason},
           AbortLocked(r)
    PROVE  BarrierInv'
<1> USE DEF TypeOK, BarrierInv, AbortLocked, callVars
<1>1. aborted' # NotAborted
  OBVIOUS
<1>2. ReleasesFollowSchedule' /\ OnlyReleasedCallsReturn' /\ ArrivedKeysAreCounted'
      /\ CallsHaveKeys'
  BY DEF ReleasesFollowSchedule, OnlyReleasedCallsReturn, Released, ArrivedKeysAreCounted,
     HasArrived, CallsHaveKeys
<1>3. NoWaiterLeftBehind'
  <2>1. ~IsComplete => CurrentKey \in Declared
    BY KeyAtType DEF IsComplete, CurrentKey
  <2> QED BY <2>1 DEF NoWaiterLeftBehind, IsComplete, CurrentKey
<1>4. BlockedCallsAreParked'
  <2>1. ASSUME NEW c \in Calls, pc[c] = "blocked", c \notin signalled \cup toWake'
        PROVE  FALSE
    <3>1. parked[key[c]] = c /\ key[c] \in Declared
      BY <2>1 DEF BlockedCallsAreParked, CallsHaveKeys
    <3>2. c \in ParkedCalls
      BY <3>1 DEF ParkedCalls
    <3> QED BY <2>1, <3>2
  <2> QED BY <2>1 DEF BlockedCallsAreParked
<1>5. LeasesHaveWaiters' /\ ParkedCallsWait'
  BY DEF LeasesHaveWaiters, ParkedCallsWait
<1>6. EventsHaveCause' /\ LockIsCascade'
  BY <1>1 DEF EventsHaveCause, Released, LockIsCascade
<1> QED BY <1>2, <1>3, <1>4, <1>5, <1>6

\* An arrival at the pointer: its key was nobody's and is now the last one released.
LEMMA EnterNextInv ==
    ASSUME TypeOK, TypeOK', BarrierInv, NEW c \in Calls, NEW s \in Arrivable,
           EnterNext(c, s)
    PROVE  BarrierInv'
<1> DEFINE k == ArrivalKey(s)
<1>1. /\ pc[c] = "outside" /\ lock = NoCall /\ aborted = NotAborted
      /\ k \in Declared /\ ~IsComplete /\ k = CurrentKey
      /\ arrivals' = Counted(s)
      /\ releaseOrder' = Append(releaseOrder, k)
      /\ leases' = [leases EXCEPT ![k] = NoLease]
      /\ pointer' = pointer + 1
      /\ lock' = c
      /\ key' = [key EXCEPT ![c] = k]
      /\ pc' = [pc EXCEPT ![c] = "cascading"]
      /\ UNCHANGED <<parked, aborted, signalled, toWake>>
  BY DEF EnterNext, AtDoor, Open, IsDeclared, MatchesPointer, DropLease
<1>2. /\ \A d \in Calls : key[d] # k
      /\ parked[k] = NoCall
      /\ ~Released(k)
  BY <1>1, FreshKey
<1>3. /\ ReleasesFollowSchedule'
      /\ \A j : Released(j)' <=> (Released(j) \/ j = k)
  BY <1>1, ReleaseExtends
<1>4. /\ \A d \in Calls : key'[d] # NoKey => key'[d][2] < arrivals'[key'[d][1]]
      /\ \A j \in Declared : HasArrived(j)' <=> (HasArrived(j) \/ j = k)
      /\ \A d, e \in Calls : d # e /\ key'[d] # NoKey => key'[d] # key'[e]
  BY <1>1, ArrivalCounted
<1>5. key'[c] = k /\ \A d \in Calls \ {c} : key'[d] = key[d] /\ pc'[d] = pc[d]
  BY <1>1 DEF TypeOK
<1>6. NoWaiterLeftBehind'
  BY <1>1 DEF NoWaiterLeftBehind
<1>7. OnlyReleasedCallsReturn'
  BY <1>1, <1>3, <1>5 DEF BarrierInv, OnlyReleasedCallsReturn
<1>8. BlockedCallsAreParked'
  BY <1>1, <1>4, <1>5 DEF TypeOK, BarrierInv, BlockedCallsAreParked
<1>9. LeasesHaveWaiters'
  BY <1>1, <1>2 DEF TypeOK, BarrierInv, LeasesHaveWaiters
<1>10. ArrivedKeysAreCounted'
  <2>1. ASSUME NEW i \in 1..pointer' PROVE HasArrived(KeyAt(i))'
    <3>1. i \in 1..Len(Steps) /\ pointer \in Nat
      BY <1>1, <2>1 DEF TypeOK, IsComplete
    <3>2. CASE i = pointer + 1
      BY <1>1, <1>4, <3>2 DEF CurrentKey
    <3>3. CASE i \in 1..pointer
      BY <1>4, <3>1, <3>3, KeyAtType DEF BarrierInv, ArrivedKeysAreCounted
    <3> QED BY <1>1, <2>1, <3>1, <3>2, <3>3
  <2> QED BY <1>4, <2>1 DEF ArrivedKeysAreCounted
<1>11. ParkedCallsWait'
  BY <1>1, <1>2, <1>3, <1>5 DEF TypeOK, BarrierInv, ParkedCallsWait
<1>12. EventsHaveCause'
  <2>1. \A d \in signalled : d # c
    BY <1>1 DEF BarrierInv, EventsHaveCause, CallsHaveKeys, ReleasesFollowSchedule, Released,
       TypeOK
  <2> QED BY <1>1, <1>3, <1>5, <2>1 DEF TypeOK, BarrierInv, EventsHaveCause
<1>13. LockIsCascade' /\ CallsHaveKeys'
  BY <1>1, <1>5 DEF TypeOK, BarrierInv, LockIsCascade, CallsHaveKeys
<1> QED BY <1>3, <1>6, <1>7, <1>8, <1>9, <1>10, <1>11, <1>12, <1>13 DEF BarrierInv

\* An early arrival parks under a key that nobody had and that is not the current one.
LEMMA EnterParkInv ==
    ASSUME TypeOK, TypeOK', BarrierInv, NEW c \in Calls, NEW s \in Arrivable,
           EnterPark(c, s)
    PROVE  BarrierInv'
<1> DEFINE k == ArrivalKey(s)
<1>1. /\ pc[c] = "outside" /\ lock = NoCall /\ aborted = NotAborted
      /\ k \in Declared /\ (IsComplete \/ k # CurrentKey)
      /\ arrivals' = Counted(s)
      /\ parked' = [parked EXCEPT ![k] = c]
      /\ leases' = [leases EXCEPT ![k] = now + LeaseTtl]
      /\ key' = [key EXCEPT ![c] = k]
      /\ pc' = [pc EXCEPT ![c] = "blocked"]
      /\ UNCHANGED <<pointer, releaseOrder, aborted, lock, signalled, toWake>>
  BY DEF EnterPark, AtDoor, Open, IsDeclared, MatchesPointer, GrantLease
<1>2. /\ \A d \in Calls : key[d] # k
      /\ ~Released(k)
  BY <1>1, FreshKey
<1>3. /\ \A d \in Calls : key'[d] # NoKey => key'[d][2] < arrivals'[key'[d][1]]
      /\ \A j \in Declared : HasArrived(j)' <=> (HasArrived(j) \/ j = k)
      /\ \A d, e \in Calls : d # e /\ key'[d] # NoKey => key'[d] # key'[e]
  BY <1>1, ArrivalCounted
<1>4. /\ key'[c] = k /\ \A d \in Calls \ {c} : key'[d] = key[d] /\ pc'[d] = pc[d]
      /\ \A j : Released(j)' <=> Released(j)
  BY <1>1 DEF TypeOK, Released
<1>5. c \notin signalled \cup toWake
  <2>1. key[c] = NoKey
    BY <1>1 DEF BarrierInv, CallsHaveKeys
  <2>2. \A i \in 1..Len(releaseOrder) : releaseOrder[i] \in Declared
    BY DEF TypeOK
  <2> QED BY <1>1, <2>1, <2>2 DEF BarrierInv, EventsHaveCause, Released
<1>6. ReleasesFollowSchedule'
  BY <1>1 DEF BarrierInv, ReleasesFollowSchedule
<1>7. NoWaiterLeftBehind'
  <2>1. ~IsComplete => CurrentKey \in Declared
    BY KeyAtType DEF TypeOK, IsComplete, CurrentKey
  <2> QED BY <1>1, <2>1 DEF TypeOK, BarrierInv, NoWaiterLeftBehind, IsComplete, CurrentKey
<1>8. OnlyReleasedCallsReturn'
  BY <1>1, <1>4 DEF TypeOK, BarrierInv, OnlyReleasedCallsReturn
<1>9. BlockedCallsAreParked'
  BY <1>1, <1>2, <1>3, <1>4 DEF TypeOK, BarrierInv, BlockedCallsAreParked, CallsHaveKeys
<1>10. LeasesHaveWaiters'
  BY <1>1 DEF TypeOK, BarrierInv, LeasesHaveWaiters
<1>11. ArrivedKeysAreCounted'
  <2>1. ASSUME NEW i \in 1..pointer' PROVE HasArrived(KeyAt(i))'
    <3>1. i \in 1..Len(Steps) /\ i \in 1..pointer
      BY <1>1, <2>1 DEF TypeOK
    <3> QED BY <1>3, <3>1, KeyAtType DEF BarrierInv, ArrivedKeysAreCounted
  <2> QED BY <1>3, <2>1 DEF ArrivedKeysAreCounted
<1>12. ParkedCallsWait'
  BY <1>1, <1>2, <1>4, <1>5 DEF TypeOK, BarrierInv, ParkedCallsWait
<1>13. EventsHaveCause'
  BY <1>1, <1>4, <1>5 DEF TypeOK, BarrierInv, EventsHaveCause
<1>14. LockIsCascade' /\ CallsHaveKeys'
  BY <1>1, <1>4 DEF TypeOK, BarrierInv, LockIsCascade, CallsHaveKeys
<1> QED BY <1>6, <1>7, <1>8, <1>9, <1>10, <1>11, <1>12, <1>13, <1>14 DEF BarrierInv

\* A turn of the cascade: the waiter of the current key is released and signalled.
LEMMA CascadeInv ==
    ASSUME TypeOK, TypeOK', BarrierInv, NEW c \in Calls, Cascade(c)
    PROVE  BarrierInv'
<1> DEFINE k == CurrentKey
           w == parked[k]
<1>1. /\ lock = c /\ pc[c] = "cascading" /\ aborted = NotAborted
      /\ ~IsComplete /\ w # NoCall
      /\ parked' = [parked EXCEPT ![k] = NoCall]
      /\ leases' = [leases EXCEPT ![k] = NoLease]
      /\ releaseOrder' = Append(releaseOrder, k)
      /\ signalled' = signalled \cup {w}
      /\ pointer' = pointer + 1
      /\ UNCHANGED <<arrivals, aborted, lock, pc, key, toWake>>
  BY DEF Cascade, CascadeGoesOn, Unparked, DropLease, SetEvent, callVars, BarrierInv,
     LockIsCascade
<1>2. /\ ReleasesFollowSchedule'
      /\ k \in Declared
      /\ \A j : Released(j)' <=> (Released(j) \/ j = k)
  BY <1>1, ReleaseExtends
<1>3. w \in Calls /\ key[w] = k
  BY <1>1, <1>2 DEF TypeOK, BarrierInv, ParkedCallsWait
<1>4. NoWaiterLeftBehind'
  BY <1>1 DEF NoWaiterLeftBehind
<1>5. OnlyReleasedCallsReturn'
  BY <1>1, <1>2 DEF BarrierInv, OnlyReleasedCallsReturn
<1>6. BlockedCallsAreParked'
  BY <1>1, <1>2, <1>3 DEF TypeOK, BarrierInv, BlockedCallsAreParked
<1>7. LeasesHaveWaiters'
  BY <1>1, <1>2 DEF TypeOK, BarrierInv, LeasesHaveWaiters
<1>8. ArrivedKeysAreCounted'
  <2>1. ASSUME NEW i \in 1..pointer' PROVE HasArrived(KeyAt(i))'
    <3>1. HasArrived(k)
      BY <1>3 DEF HasArrived
    <3>2. HasArrived(KeyAt(i))
      BY <1>1, <2>1, <3>1 DEF TypeOK, CurrentKey, BarrierInv, ArrivedKeysAreCounted
    <3> QED BY <1>1, <3>2 DEF HasArrived
  <2> QED BY <1>1, <2>1 DEF BarrierInv, ArrivedKeysAreCounted
<1>9. ParkedCallsWait'
  BY <1>1, <1>2, <1>3 DEF TypeOK, BarrierInv, ParkedCallsWait
<1>10. EventsHaveCause'
  BY <1>1, <1>2, <1>3 DEF BarrierInv, EventsHaveCause
<1>11. LockIsCascade' /\ CallsHaveKeys'
  BY <1>1 DEF BarrierInv, LockIsCascade, CallsHaveKeys
<1> QED BY <1>2, <1>4, <1>5, <1>6, <1>7, <1>8, <1>9, <1>10, <1>11 DEF BarrierInv

\* Steps that touch neither the schedule nor the calls nor the dictionaries.
LEMMA IdleInv ==
    ASSUME BarrierInv,
           UNCHANGED <<shared, callVars>>
    PROVE  BarrierInv'
BY DEF BarrierInv, ReleasesFollowSchedule, NoWaiterLeftBehind, OnlyReleasedCallsReturn,
   BlockedCallsAreParked, LeasesHaveWaiters, ArrivedKeysAreCounted, ParkedCallsWait,
   EventsHaveCause, LockIsCascade, CallsHaveKeys, Released, HasArrived, IsComplete,
   CurrentKey, shared, callVars

LEMMA StepInv == TypeOK /\ BarrierInv /\ [Next]_vars => BarrierInv'
<1> SUFFICES ASSUME TypeOK, BarrierInv, [Next]_vars PROVE BarrierInv'
  OBVIOUS
<1>0. TypeOK'
  BY StepType
<1>1. ASSUME NEW c \in Calls, Enter(c) PROVE BarrierInv'
  BY <1>0, <1>1, EnterAbortedInv, EnterUndeclaredInv, EnterNextInv, EnterParkInv DEF Enter
<1>2. ASSUME NEW c \in Calls, Proceed(c) PROVE BarrierInv'
  BY <1>0, <1>2, CascadeInv, CascadeEndsInv, WokenInv, ReturnInv, TimeOutInv, WakeAbortedInv
     DEF Proceed
<1>3. ASSUME NEW c \in Calls, GiveUp(c) PROVE BarrierInv'
  BY <1>0, <1>3, GiveUpInv
<1>4. ASSUME NEW r \in Reasons, Abort(r) PROVE BarrierInv'
  BY <1>0, <1>4, AbortLockedInv DEF Abort
<1>5. ASSUME NEW k \in Declared, Heartbeat(k) PROVE BarrierInv'
  BY <1>0, <1>5, HeartbeatInv
<1>6. CASE ReaperAborts
  BY <1>0, <1>6, AbortLockedInv DEF ReaperAborts
<1>7. CASE ReaperReadsClock \/ ReaperScans \/ Tick
  BY <1>7, IdleInv DEF ReaperReadsClock, ReaperScans, Tick
<1>8. CASE UNCHANGED vars
  BY <1>8, IdleInv DEF vars
<1> QED BY <1>1, <1>2, <1>3, <1>4, <1>5, <1>6, <1>7, <1>8 DEF Next, Reap

LEMMA Invariance == Spec => [](TypeOK /\ BarrierInv)
<1>1. Init => TypeOK /\ BarrierInv
  BY InitType, InitInv
<1>2. TypeOK /\ BarrierInv /\ [Next]_vars => (TypeOK /\ BarrierInv)'
  BY StepType, StepInv
<1> QED BY <1>1, <1>2, PTL DEF Spec

-----------------------------------------------------------------------------
(***************************************************************************)
(* Safety.                                                                 *)
(***************************************************************************)
\* In every run the release ledger is a prefix of the declared schedule.
THEOREM ReleaseOrder == Spec => []ReleasesFollowSchedule
<1>1. BarrierInv => ReleasesFollowSchedule
  BY DEF BarrierInv
<1> QED BY <1>1, Invariance, PTL

\* No lost wake-up: the schedule never waits for a key that is parked.
THEOREM NoLostWakeup == Spec => []NoWaiterLeftBehind
<1>1. BarrierInv => NoWaiterLeftBehind
  BY DEF BarrierInv
<1> QED BY <1>1, Invariance, PTL

\* No call goes on that the schedule did not release.
THEOREM NoDefaultRelease == Spec => []OnlyReleasedCallsReturn
<1>1. BarrierInv => OnlyReleasedCallsReturn
  BY DEF BarrierInv
<1> QED BY <1>1, Invariance, PTL

\* A blocked call that nobody is waking is found under its own, unique, key.
THEOREM NoLostWaiter == Spec => []BlockedCallsAreParked
<1>1. BarrierInv => BlockedCallsAreParked
  BY DEF BarrierInv
<1> QED BY <1>1, Invariance, PTL

\* A lease never outlives its waiter.
THEOREM NoOrphanLease == Spec => []LeasesHaveWaiters
<1>1. BarrierInv => LeasesHaveWaiters
  BY DEF BarrierInv
<1> QED BY <1>1, Invariance, PTL

\* What a step may do to an aborted run.
LEMMA AbortedStep ==
    ASSUME TypeOK, BarrierInv, [Next]_vars, aborted # NotAborted
    PROVE  UNCHANGED <<pointer, arrivals, parked, releaseOrder, aborted>>
<1>1. \A k \in Declared : parked[k] = NoCall
  BY DEF BarrierInv, ParkedCallsWait
<1>2. lock = NoCall
  BY DEF BarrierInv, LockIsCascade
<1> USE DEF TypeOK, Open, AtDoor, Goto, shared, callVars, reapVars
<1>3. ASSUME NEW c \in Calls, Enter(c)
      PROVE  UNCHANGED <<pointer, arrivals, parked, releaseOrder, aborted>>
  BY <1>3 DEF Enter, EnterAborted, EnterUndeclared, EnterNext, EnterPark
<1>4. ASSUME NEW c \in Calls, TimeOut(c)
      PROVE  UNCHANGED <<pointer, arrivals, parked, releaseOrder, aborted>>
  <2>1. parked' = parked
    BY <1>1, <1>4 DEF TimeOut, Unparked
  <2> QED BY <1>4, <2>1 DEF TimeOut
<1>5. ASSUME NEW c \in Calls, Proceed(c) \/ GiveUp(c)
      PROVE  UNCHANGED <<pointer, arrivals, parked, releaseOrder, aborted>>
  BY <1>2, <1>4, <1>5 DEF Proceed, Cascade, CascadeEnds, Woken, Return, GiveUp, WakeAborted
<1>6. ASSUME NEW r \in Reasons \cup {LapsedReason}, AbortLocked(r)
      PROVE  UNCHANGED <<pointer, arrivals, parked, releaseOrder, aborted>>
  <2>1. parked' = parked
    BY <1>1, <1>6 DEF AbortLocked
  <2> QED BY <1>6, <2>1 DEF AbortLocked
<1>7. ASSUME NEW k \in Declared, Heartbeat(k)
      PROVE  UNCHANGED <<pointer, arrivals, parked, releaseOrder, aborted>>
  BY <1>7 DEF Heartbeat
<1>8. CASE Reap \/ Tick
  BY <1>6, <1>8 DEF Reap, Tick, ReaperReadsClock, ReaperScans, ReaperAborts
<1>9. CASE UNCHANGED vars
  BY <1>9 DEF vars
<1> QED BY <1>3, <1>5, <1>6, <1>7, <1>8, <1>9 DEF Next, Abort

\* Once aborted, nothing is released, counted or parked any more, and the reason stays.
THEOREM FailClosed == Spec => AbortIsFinal
<1>1. TypeOK /\ BarrierInv /\ [Next]_vars =>
        [aborted # NotAborted =>
            /\ UNCHANGED <<pointer, arrivals, parked, releaseOrder>>
            /\ aborted' = aborted]_vars
  BY AbortedStep
<1> QED BY <1>1, Invariance, PTL DEF Spec, AbortIsFinal

-----------------------------------------------------------------------------
(***************************************************************************)
(* Refinement.                                                             *)
(***************************************************************************)
LEMMA DeclaredOrderType ==
    /\ Len(DeclaredOrder) = Len(Steps)
    /\ \A i \in 1..Len(Steps) : DeclaredOrder[i] = KeyAt(i)
    /\ Declared = {DeclaredOrder[i] : i \in 1..Len(DeclaredOrder)}
<1>1. Len(Steps) \in Nat
  OBVIOUS
<1>2. DeclaredOrder \in Seq(Declared) /\ Len(DeclaredOrder) = Len(Steps)
  BY <1>1, KeyAtType DEF DeclaredOrder
<1>3. \A i \in 1..Len(Steps) : DeclaredOrder[i] = KeyAt(i)
  BY DEF DeclaredOrder
<1> QED BY <1>2, <1>3 DEF Declared

LEMMA RefinesInit == Init => Promise!AbsInit
<1> SUFFICES ASSUME Init PROVE Promise!AbsInit
  OBVIOUS
<1>1. {k \in Declared : HasArrived(k)} = {}
  BY DEF Init, HasArrived
<1>2. {k \in Declared : \E c \in Calls : key[c] = k /\ pc[c] = "returned"} = {}
  BY DEF Init
<1> QED BY <1>1, <1>2 DEF Init, Promise!AbsInit

\* Steps that release nothing and take no new arrival, failure or return.
LEMMA RefinesStutter ==
    ASSUME UNCHANGED <<releaseOrder, aborted, key>>,
           \A c \in Calls : pc'[c] = "returned" <=> pc[c] = "returned"
    PROVE  UNCHANGED Promise!absVars
BY DEF Promise!absVars, HasArrived

\* The abstract action of an arrival, released on the spot or not.
LEMMA RefinesArrival ==
    ASSUME TypeOK, BarrierInv, NEW c \in Calls, NEW s \in Arrivable,
           EnterNext(c, s) \/ EnterPark(c, s)
    PROVE  Promise!AbsArrive(ArrivalKey(s))
<1> DEFINE k == ArrivalKey(s)
<1>1. /\ pc[c] = "outside" /\ aborted = NotAborted /\ k \in Declared
      /\ key' = [key EXCEPT ![c] = k] /\ arrivals' = Counted(s)
      /\ pc' = [pc EXCEPT ![c] = IF MatchesPointer(k) THEN "cascading" ELSE "blocked"]
      /\ releaseOrder' = IF MatchesPointer(k) THEN Append(releaseOrder, k) ELSE releaseOrder
      /\ aborted' = aborted
  BY DEF EnterNext, EnterPark, AtDoor, Open, IsDeclared
<1>2. MatchesPointer(k) <=> Promise!NextInOrder(k)
  <2>1. pointer = Len(releaseOrder) /\ pointer \in 0..Len(Steps) /\ Len(Steps) \in Nat
    BY DEF TypeOK, BarrierInv, ReleasesFollowSchedule
  <2>2. Promise!NextInOrder(k) <=> pointer < Len(Steps) /\ k = DeclaredOrder[pointer + 1]
    BY <2>1, DeclaredOrderType DEF Promise!NextInOrder
  <2>3. pointer < Len(Steps) => DeclaredOrder[pointer + 1] = KeyAt(pointer + 1)
    BY <2>1, DeclaredOrderType
  <2> QED BY <2>1, <2>2, <2>3 DEF MatchesPointer, IsComplete, CurrentKey
<1>3. /\ ~HasArrived(k)
      /\ \A j \in Declared : HasArrived(j)' <=> (HasArrived(j) \/ j = k)
  <2>1. ArrivalKey(s) \in Declared /\ pc[c] = "outside"
        /\ arrivals' = Counted(s) /\ key' = [key EXCEPT ![c] = ArrivalKey(s)]
    BY <1>1
  <2>2. \A d \in Calls : key[d] # ArrivalKey(s)
    BY <2>1, FreshKey
  <2>3. ~HasArrived(k)
    BY <2>2 DEF HasArrived
  <2>4. \A j \in Declared : HasArrived(j)' <=> (HasArrived(j) \/ j = ArrivalKey(s))
    BY <2>1, ArrivalCounted
  <2> QED BY <2>3, <2>4
<1>4. {j \in Declared : HasArrived(j)}' = {j \in Declared : HasArrived(j)} \cup {k}
  BY <1>1, <1>3
<1>5. {j \in Declared : \E d \in Calls : key[d] = j /\ pc[d] = "returned"}' =
      {j \in Declared : \E d \in Calls : key[d] = j /\ pc[d] = "returned"}
  BY <1>1 DEF TypeOK
<1>6. Promise!Keys = Declared
  BY DeclaredOrderType DEF Promise!Keys
<1> QED BY <1>1, <1>2, <1>3, <1>4, <1>5, <1>6 DEF Promise!AbsArrive

LEMMA RefinesStep == TypeOK /\ BarrierInv /\ [Next]_vars => [Promise!AbsNext]_Promise!absVars
<1> SUFFICES ASSUME TypeOK, BarrierInv, [Next]_vars
             PROVE  Promise!AbsNext \/ UNCHANGED Promise!absVars
  OBVIOUS
<1>0. Promise!Keys = Declared
  BY DeclaredOrderType DEF Promise!Keys
<1>1. ASSUME NEW c \in Calls, NEW s \in Arrivable, EnterNext(c, s) \/ EnterPark(c, s)
      PROVE  Promise!AbsNext
  <2>1. ArrivalKey(s) \in Declared
    BY <1>1 DEF EnterNext, EnterPark, IsDeclared
  <2> QED BY <1>0, <1>1, <2>1, RefinesArrival DEF Promise!AbsNext
<1>2. ASSUME NEW c \in Calls, Cascade(c) PROVE Promise!AbsNext
  <2>1. /\ aborted = NotAborted /\ aborted' = aborted
        /\ ~IsComplete /\ parked[CurrentKey] # NoCall
        /\ releaseOrder' = Append(releaseOrder, CurrentKey)
        /\ key' = key /\ pc' = pc
    BY <1>2 DEF Cascade, CascadeGoesOn, callVars, BarrierInv, LockIsCascade
  <2>2. CurrentKey \in Declared
    BY <2>1, KeyAtType DEF TypeOK, IsComplete, CurrentKey
  <2>3. HasArrived(CurrentKey)
    BY <2>1, <2>2 DEF TypeOK, BarrierInv, ParkedCallsWait, HasArrived
  <2>4. Promise!NextInOrder(CurrentKey)
    BY <2>1, DeclaredOrderType DEF IsComplete, CurrentKey, Promise!NextInOrder, TypeOK,
       BarrierInv, ReleasesFollowSchedule
  <2>5. \A k : HasArrived(k)' <=> HasArrived(k)
    BY <2>1 DEF HasArrived
  <2>6. Promise!AbsRelease(CurrentKey)
    BY <2>1, <2>2, <2>3, <2>4, <2>5 DEF Promise!AbsRelease
  <2> QED BY <1>0, <2>2, <2>6 DEF Promise!AbsNext
<1>3. ASSUME NEW c \in Calls, Return(c) PROVE Promise!AbsNext
  <2>1. /\ pc[c] = "returning" /\ pc' = [pc EXCEPT ![c] = "returned"]
        /\ UNCHANGED <<releaseOrder, aborted, key>>
    BY <1>3 DEF Return, Goto, shared
  <2>2. key[c] \in Declared /\ Released(key[c])
    BY <2>1 DEF TypeOK, BarrierInv, OnlyReleasedCallsReturn, CallsHaveKeys
  <2>3. \A k : HasArrived(k)' <=> HasArrived(k)
    BY <2>1 DEF HasArrived
  <2>4. {k \in Declared : \E d \in Calls : key[d] = k /\ pc[d] = "returned"}' =
        {k \in Declared : \E d \in Calls : key[d] = k /\ pc[d] = "returned"} \cup {key[c]}
    BY <2>1, <2>2 DEF TypeOK
  <2>5. PICK k \in Declared : k = key[c]
    BY <2>2
  <2>6. Promise!AbsResume(k)
    BY <2>1, <2>2, <2>3, <2>4, <2>5 DEF Promise!AbsResume, Released
  <2> QED BY <1>0, <2>6 DEF Promise!AbsNext
<1>4. ASSUME NEW r \in Reasons \cup {LapsedReason}, AbortLocked(r)
      PROVE  Promise!AbsNext
  <2>1. aborted' # NotAborted /\ UNCHANGED <<releaseOrder, key, pc>>
    BY <1>4 DEF AbortLocked, callVars
  <2>2. \A k : HasArrived(k)' <=> HasArrived(k)
    BY <2>1 DEF HasArrived
  <2>3. Promise!AbsFail
    BY <2>1, <2>2 DEF Promise!AbsFail
  <2> QED BY <2>3 DEF Promise!AbsNext
<1>5. ASSUME NEW c \in Calls,
             EnterAborted(c) \/ (\E s \in Arrivable : EnterUndeclared(c, s))
               \/ CascadeEnds(c) \/ Woken(c) \/ GiveUp(c) \/ TimeOut(c) \/ WakeAborted(c)
      PROVE  UNCHANGED Promise!absVars
  <2>1. UNCHANGED <<releaseOrder, aborted, key>>
    BY <1>5 DEF EnterAborted, EnterUndeclared, CascadeEnds, Woken, GiveUp, TimeOut,
       WakeAborted, callVars, Goto, shared
  <2>2. \A d \in Calls : pc'[d] = "returned" <=> pc[d] = "returned"
    BY <1>5 DEF TypeOK, EnterAborted, EnterUndeclared, AtDoor, CascadeEnds, Woken,
       WokenOutcome, GiveUp, TimeOut, WakeAborted, callVars, Goto, BarrierInv, LockIsCascade
  <2> QED BY <2>1, <2>2, RefinesStutter
<1>6. CASE (\E k \in Declared : Heartbeat(k)) \/ ReaperReadsClock \/ ReaperScans \/ Tick
  <2>1. UNCHANGED <<releaseOrder, aborted, key, pc>>
    BY <1>6 DEF Heartbeat, ReaperReadsClock, ReaperScans, Tick, callVars, shared
  <2> QED BY <2>1, RefinesStutter
<1>7. CASE UNCHANGED vars
  <2>1. UNCHANGED <<releaseOrder, aborted, key, pc>>
    BY <1>7 DEF vars, callVars, shared
  <2> QED BY <2>1, RefinesStutter
<1>8. CASE \E c \in Calls : Enter(c) \/ Proceed(c) \/ GiveUp(c)
  BY <1>1, <1>2, <1>3, <1>5, <1>8 DEF Enter, Proceed
<1>9. CASE (\E r \in Reasons : Abort(r)) \/ ReaperAborts
  BY <1>4, <1>9 DEF Abort, ReaperAborts
<1> QED BY <1>6, <1>7, <1>8, <1>9 DEF Next, Reap

\* The barrier, with its threads, timeouts, leases and reaper, implements OrderedRelease.
THEOREM Refinement == Spec => ImplementsOrderedRelease
<1>1. Init => Promise!AbsInit
  BY RefinesInit
<1>2. TypeOK /\ BarrierInv /\ [Next]_vars => [Promise!AbsNext]_Promise!absVars
  BY RefinesStep
<1> QED BY <1>1, <1>2, Invariance, PTL DEF Spec, ImplementsOrderedRelease, Promise!AbsSpec
=============================================================================
