-------------------------- MODULE CoordinatorProofs --------------------------
(***************************************************************************)
(* Theorems about the HTTP surface of the coordinator, for any number of   *)
(* requests, declarations and resets that overlap in any way.              *)
(***************************************************************************)
EXTENDS Coordinator, FiniteSetTheorems, TLAPS

USE CoordinatorAssumption, StepsAssumption

-----------------------------------------------------------------------------
(***************************************************************************)
(* The inductive invariant: what holds between any two steps.              *)
(***************************************************************************)
\* Where a declaration or a reset is before it may make a run, and where it is after.
Early == {"idle", "replacing", "resetting", "stopping", "redeclaring", "installing"}
Late == {"faulting", "starting", "launching", "launched"}

\* Each declaration makes one run, under a number of its own.
RunsAreDeclarations ==
    /\ declared = Cardinality({o \in Ops : opRun[o] # NoRun})
    /\ \A o \in Ops :
        /\ opPc[o] \in Early => opRun[o] = NoRun
        /\ opPc[o] \in Late => opRun[o] # NoRun
        /\ opPc[o] = "launched" => opReaper[o] # NoRun

\* A request knows its run once it has looked at it, and its key once it was let in.
RequestsKnowTheirRun ==
    \A q \in Requests :
        /\ pc[q] \in {"arrived", "declared", "identifying", "entering"} => pair[q] \in Arrivable
        /\ pc[q] \in {"parked", "released", "ok", "faulted"} => key[q] # NoKey
        /\ pc[q] \in {"aborting", "error"} \/ key[q] # NoKey => run[q] # NoRun
        /\ key[q] # NoKey =>
            pc[q] \in {"parked", "released", "refused", "aborting", "error", "ok", "faulted"}

\* An occurrence is given out once.
KeysAreCounted ==
    /\ \A q \in Requests :
        key[q] # NoKey => key[q][2] < arrivals[run[q]][key[q][1]]
    /\ \A p, q \in Requests :
        p # q /\ key[p] # NoKey => <<run[p], key[p]>> # <<run[q], key[q]>>

ReleasesAreEarned ==
    \A q \in Requests :
        pc[q] \in {"released", "ok", "faulted"} => Released(run[q], key[q])

\* Under the lock the run that is served is that of the declaration which holds it.
OneInstalls ==
    \A o, p \in Ops : opPc[o] = "faulting" =>
        /\ opRun[o] = current
        /\ opPc[p] = "faulting" => p = o

\* Once an error was answered, the run it was found in is aborted, or is not served any
\* more and never will be.
ErrorsAbortTheRun ==
    \A q \in Requests : pc[q] = "error" => run[q] \in aborted \/ run[q] # current

\* Somebody has stopped a reaper: the run that is served is taken away next, unless the
\* stopping failed.
Undoing == \E o \in Ops : opPc[o] \in {"redeclaring", "clearing"} \/ StopFailed(o)

\* The declaration of the served run is over, and has started another reaper.
Astray ==
    \E o \in Ops : /\ opPc[o] \in {"done", "crashed"} /\ opRun[o] = current
                   /\ opReaper[o] \notin {NoRun, current}

\* What the served run lacks, somebody is about to bring.
ServedRunGetsWhole ==
    current # NoRun =>
        /\ \/ faults = FaultsOf[current]
           \/ \E o \in Ops : opPc[o] = "faulting" /\ opRun[o] = current
        /\ \/ current \in reapers \/ Undoing \/ Astray
           \/ \E o \in Ops : opPc[o] \in Late /\ opRun[o] = current

\* Whoever stops or removes the reaper of the served run has more to do.
StoppedRunIsUndone ==
    current # NoRun =>
        /\ current \in stopped => Undoing
        /\ \A o \in Ops :
            opPc[o] = "launching" /\ opRun[o] = current /\ reaper = NoRun => Undoing

CoordinatorInv ==
    /\ RunsAreDeclarations
    /\ RequestsKnowTheirRun
    /\ KeysAreCounted
    /\ ReleasesAreEarned
    /\ ErrorsAbortTheRun
    /\ OneInstalls
    /\ ServedRunGetsWhole
    /\ StoppedRunIsUndone

Inv == TypeOK /\ CoordinatorInv

-----------------------------------------------------------------------------
(***************************************************************************)
(* Keys and runs.                                                          *)
(***************************************************************************)
LEMMA KeysOfSteps ==
    ASSUME NEW k \in Declared
    PROVE  k[1] \in Arrivable /\ k[2] \in Nat /\ IndexOf(k) \in 1..Len(Steps)
<1>1. PICK i \in 1..Len(Steps) : k = KeyAt(i)
  BY DEF Declared
<1>2. IndexOf(k) \in 1..Len(Steps)
  BY <1>1 DEF IndexOf
<1>3. k[1] = Steps[i] /\ k[2] = Cardinality({j \in 1..(i-1) : Steps[j] = Steps[i]})
  BY <1>1 DEF KeyAt, StepOccurrence
<1>4. IsFiniteSet({j \in 1..(i-1) : Steps[j] = Steps[i]})
  <2>1. IsFiniteSet(1..(i-1))
    BY FS_Interval
  <2>2. {j \in 1..(i-1) : Steps[j] = Steps[i]} \subseteq 1..(i-1)
    OBVIOUS
  <2> QED BY <2>1, <2>2, FS_Subset
<1> QED BY <1>2, <1>3, <1>4, FS_CardinalityType

\* A cascade carries the pointer over the released key at least.
LEMMA CascadeCoversKey ==
    ASSUME NEW k \in Declared, NEW g
    PROVE  Cascaded(g, k) \in Nat /\ Cascaded(g, k) >= IndexOf(k)
<1>1. Len(Steps) \in Nat /\ IndexOf(k) \in 1..Len(Steps)
  BY KeysOfSteps
<1>2. IsFiniteSet((IndexOf(k) + 1)..Len(Steps))
  BY <1>1, FS_Interval
<1>3. ParkedUpTo(g, k) \subseteq (IndexOf(k) + 1)..Len(Steps)
  BY DEF ParkedUpTo
<1>4. Cardinality(ParkedUpTo(g, k)) \in Nat
  BY <1>2, <1>3, FS_Subset, FS_CardinalityType
<1> QED BY <1>1, <1>4 DEF Cascaded

LEMMA RunsOfDeclarations ==
    ASSUME TypeOK
    PROVE  /\ Cardinality(Ops) \in Nat
           /\ \A g : g \in KnownRuns /\ g # NoRun => g \in Runs
<1>1. Cardinality(Ops) \in Nat
  BY FS_CardinalityType
<1> QED BY <1>1 DEF TypeOK, KnownRuns, Runs, NoRun

-----------------------------------------------------------------------------
(***************************************************************************)
(* What steps do.                                                          *)
(***************************************************************************)
Handles(q) == Handle(q) \/ \E s \in Arrivable, i \in Ids \cup {NoId} : Await(q, s, i)
Operates(o) == Declare(o) \/ Reset(o) \/ Operate(o)

LEMMA NextSteps ==
    [Next]_vars <=> \/ \E q \in Requests : Handles(q)
                    \/ \E o \in Ops : Operates(o)
                    \/ \E g \in Runs : Reap(g)
                    \/ UNCHANGED vars
BY DEF Next, Handles, Operates

\* A request changes nothing of what declarations keep.
LEMMA HandlesFrame ==
    ASSUME NEW q \in Requests, Handles(q)
    PROVE  /\ UNCHANGED <<current, faults, reaper, reapers, stopped, declared>>
           /\ UNCHANGED <<opPc, opRun, opReaper>>
BY DEF Handles, Handle, Await, CheckDeclared, Crash, CheckAborted, Identify, EnterRefused,
   Enter, Wake, TimeOut, AbortRun, Respond, Goto, globals, ops

\* A declaration, a reset or the reaper changes nothing of a request.
LEMMA OperatesFrame ==
    ASSUME NEW o \in Ops, Operates(o)
    PROVE  /\ UNCHANGED <<pointer, arrivals, pc, pair, id, run, key>>
           /\ aborted' \in {aborted, AbortedNow}
BY DEF Operates, Operate, Declare, Reset, TakeReaper, ResetTakes, StopReaper, Clear,
   InstallBarrier, InstallFaults, AssignReaper, LookUpReaper, StartReaper, barriers, requests

LEMMA ReapFrame ==
    ASSUME NEW g \in Runs, Reap(g)
    PROVE  /\ UNCHANGED <<current, faults, reaper, reapers, stopped, declared>>
           /\ UNCHANGED <<opPc, opRun, opReaper>>
           /\ UNCHANGED <<pointer, arrivals, pc, pair, id, run, key>>
           /\ aborted' = aborted \cup {g}
BY DEF Reap, globals, requests, ops

\* Requests do not disturb each other.
Still(q) ==
    /\ pc'[q] = pc[q] /\ pair'[q] = pair[q] /\ id'[q] = id[q]
    /\ run'[q] = run[q] /\ key'[q] = key[q]

LEMMA OneRequestSteps ==
    ASSUME TypeOK, [Next]_vars, NEW q \in Requests
    PROVE  Still(q) \/ Handles(q)
<1>1. CASE UNCHANGED vars
  BY <1>1 DEF vars, requests, Still
<1>2. ASSUME NEW o \in Ops, Operates(o) PROVE Still(q)
  BY <1>2, OperatesFrame DEF Still
<1>3. ASSUME NEW g \in Runs, Reap(g) PROVE Still(q)
  BY <1>3, ReapFrame DEF Still
<1>4. ASSUME NEW p \in Requests, p # q, Handles(p) PROVE Still(q)
  <2> USE <1>4 DEF TypeOK, Goto, Still
  <2>1. CASE CheckDeclared(p) \/ Crash(p) \/ CheckAborted(p) \/ Identify(p)
    BY <2>1 DEF CheckDeclared, Crash, CheckAborted, Identify
  <2>2. CASE EnterRefused(p)
    BY <2>2 DEF EnterRefused
  <2>3. CASE Enter(p)
    BY <2>3 DEF Enter
  <2>4. CASE Wake(p) \/ TimeOut(p) \/ AbortRun(p) \/ Respond(p)
    BY <2>4 DEF Wake, TimeOut, AbortRun, Respond
  <2>5. CASE \E s \in Arrivable, i \in Ids \cup {NoId} : Await(p, s, i)
    BY <2>5 DEF Await
  <2> QED BY <2>1, <2>2, <2>3, <2>4, <2>5 DEF Handles, Handle
<1> QED BY <1>1, <1>2, <1>3, <1>4, NextSteps

Waiting == {"arrived", "declared", "identifying", "entering"}
Entered == {"parked", "released", "refused", "aborting", "error", "ok", "faulted"}

\* How a request comes from place to place, and where it gets its pair, run and key.
LEMMA RequestSteps ==
    ASSUME TypeOK, [Next]_vars, NEW q \in Requests
    PROVE  /\ key'[q] = key[q] \/ Enter(q)
           /\ \/ run'[q] = run[q]
              \/ /\ pc[q] \in Waiting
                 /\ run'[q] = current /\ current # NoRun
           /\ \/ pair'[q] = pair[q]
              \/ pair'[q] \in Arrivable
           /\ pc'[q] \in Waiting => pc[q] \in Waiting \/ pair'[q] \in Arrivable
           /\ pc'[q] = "parked" => pc[q] = "parked" \/ Enter(q)
           /\ pc'[q] = "released" =>
                \/ pc[q] = "released" \/ Enter(q)
                \/ pc[q] = "parked" /\ Released(run[q], key[q]) /\ run[q] \notin aborted
           /\ pc'[q] \in {"ok", "faulted"} => pc[q] \in {"released", "ok", "faulted"}
           /\ pc'[q] = "aborting" =>
                \/ pc[q] \in {"aborting", "parked"}
                \/ run'[q] = current /\ current # NoRun
           /\ pc'[q] = "error" => pc[q] = "error" \/ AbortRun(q)
           /\ pc[q] \in Entered => pc'[q] \in Entered
<1> USE DEF TypeOK, Goto, Still, Waiting, Entered
<1>1. CASE Still(q)
  BY <1>1
<1>2. CASE CheckDeclared(q) \/ Crash(q)
  BY <1>2 DEF CheckDeclared, Crash
<1>3. CASE CheckAborted(q)
  BY <1>3 DEF CheckAborted
<1>4. CASE Identify(q)
  BY <1>4 DEF Identify
<1>5. CASE EnterRefused(q)
  BY <1>5 DEF EnterRefused
<1>6. CASE Enter(q)
  BY <1>6 DEF Enter
<1>7. CASE Wake(q)
  BY <1>7 DEF Wake
<1>8. CASE TimeOut(q) \/ AbortRun(q)
  BY <1>8 DEF TimeOut, AbortRun
<1>9. CASE Respond(q)
  BY <1>9 DEF Respond
<1>10. CASE \E s \in Arrivable, i \in Ids \cup {NoId} : Await(q, s, i)
  BY <1>10 DEF Await
<1>11. Still(q) \/ Handles(q)
  BY OneRequestSteps
<1> HIDE DEF TypeOK, Goto, Still, Waiting, Entered
<1> QED BY <1>1, <1>2, <1>3, <1>4, <1>5, <1>6, <1>7, <1>8, <1>9, <1>10, <1>11
           DEF Handles, Handle

\* A request is let in with the occurrence that is next of its pair.
LEMMA EnterCounts ==
    ASSUME TypeOK, RequestsKnowTheirRun, NEW q \in Requests, Enter(q)
    PROVE  /\ current \in Runs /\ current \notin aborted
           /\ run'[q] = current /\ key'[q] \in Declared
           /\ pc[q] = "entering" /\ pc'[q] \in {"released", "parked"}
           /\ key'[q][1] = pair[q] /\ pair[q] \in Arrivable
           /\ key'[q][2] = arrivals[current][pair[q]]
           /\ arrivals' \in [Runs -> [Arrivable -> Nat]]
           /\ arrivals'[current][pair[q]] = arrivals[current][pair[q]] + 1
           /\ \A g \in Runs, s \in Arrivable : arrivals'[g][s] >= arrivals[g][s]
           /\ pointer' \in [Runs -> Nat]
           /\ \A g \in Runs : pointer'[g] >= pointer[g]
           /\ pc'[q] = "released" => IndexOf(key'[q]) <= pointer'[current]
<1> DEFINE k == ArrivalKey(q)
<1>1. current \in Runs /\ current \notin aborted /\ k \in Declared /\ pc[q] = "entering"
  BY RunsOfDeclarations DEF Enter, Open, TypeOK
<1>2. pair[q] \in Arrivable
  BY <1>1 DEF RequestsKnowTheirRun
<1>3. /\ run'[q] = current /\ key'[q] = k
      /\ pc'[q] = IF IndexOf(k) = pointer[current] + 1 THEN "released" ELSE "parked"
  BY DEF Enter, TypeOK
<1>4. /\ arrivals' = [arrivals EXCEPT ![current][pair[q]] = @ + 1]
      /\ arrivals \in [Runs -> [Arrivable -> Nat]]
  BY DEF Enter, TypeOK
<1>5. /\ arrivals' \in [Runs -> [Arrivable -> Nat]]
      /\ arrivals'[current][pair[q]] = arrivals[current][pair[q]] + 1
      /\ \A g \in Runs, s \in Arrivable : arrivals'[g][s] >= arrivals[g][s]
  BY <1>1, <1>2, <1>4
<1>6. IndexOf(k) \in Nat /\ Cascaded(current, k) \in Nat /\ Cascaded(current, k) >= IndexOf(k)
  BY <1>1, KeysOfSteps, CascadeCoversKey
<1>7. pointer' = [pointer EXCEPT ![current] =
                    IF IndexOf(k) = pointer[current] + 1 THEN Cascaded(current, k) ELSE @]
  BY DEF Enter
<1>8. pointer \in [Runs -> Nat]
  BY DEF TypeOK
<1> HIDE DEF k
<1>9. /\ pointer' \in [Runs -> Nat]
      /\ \A g \in Runs : pointer'[g] >= pointer[g]
      /\ IndexOf(k) = pointer[current] + 1 => IndexOf(k) <= pointer'[current]
  BY <1>1, <1>6, <1>7, <1>8
<1>10. k[1] = pair[q] /\ k[2] = arrivals[current][pair[q]]
  BY DEF k, ArrivalKey
<1> QED BY <1>1, <1>2, <1>3, <1>5, <1>9, <1>10

\* Pointers, counters and aborted runs only grow.
LEMMA BarriersGrow ==
    ASSUME TypeOK, RequestsKnowTheirRun, [Next]_vars
    PROVE  /\ pointer' \in [Runs -> Nat]
           /\ \A g \in Runs : pointer'[g] >= pointer[g]
           /\ arrivals' \in [Runs -> [Arrivable -> Nat]]
           /\ \A g \in Runs, s \in Arrivable : arrivals'[g][s] >= arrivals[g][s]
           /\ aborted \subseteq aborted' /\ aborted' \subseteq Runs
<1> DEFINE Grown == pointer' = pointer /\ arrivals' = arrivals
<1>0. /\ pointer \in [Runs -> Nat] /\ arrivals \in [Runs -> [Arrivable -> Nat]]
      /\ aborted \subseteq Runs
      /\ AbortedNow \subseteq Runs /\ aborted \subseteq AbortedNow
  BY RunsOfDeclarations DEF TypeOK, AbortedNow
<1>1. ASSUME NEW q \in Requests, Handles(q), ~Enter(q)
      PROVE  Grown /\ aborted' \in {aborted, AbortedNow}
  BY <1>1 DEF Handles, Handle, Await, CheckDeclared, Crash, CheckAborted, Identify,
     EnterRefused, Wake, TimeOut, AbortRun, Respond, Goto, barriers
<1>2. ASSUME NEW o \in Ops, Operates(o) PROVE Grown /\ aborted' \in {aborted, AbortedNow}
  BY <1>2, OperatesFrame
<1>3. ASSUME NEW g \in Runs, Reap(g)
      PROVE  Grown /\ aborted \subseteq aborted' /\ aborted' \subseteq Runs
  BY <1>0, <1>3, ReapFrame
<1>4. CASE UNCHANGED vars
  BY <1>0, <1>4 DEF vars, barriers
<1>5. CASE Grown /\ aborted \subseteq aborted' /\ aborted' \subseteq Runs
  BY <1>0, <1>5
<1>6. ASSUME NEW q \in Requests, Enter(q) PROVE aborted' = aborted
  BY <1>6 DEF Enter
<1>7. ASSUME NEW q \in Requests, Enter(q)
      PROVE  /\ pointer' \in [Runs -> Nat]
             /\ \A g \in Runs : pointer'[g] >= pointer[g]
             /\ arrivals' \in [Runs -> [Arrivable -> Nat]]
             /\ \A g \in Runs, s \in Arrivable : arrivals'[g][s] >= arrivals[g][s]
  BY <1>7, EnterCounts
<1> QED BY <1>0, <1>1, <1>2, <1>3, <1>4, <1>5, <1>6, <1>7, NextSteps

-----------------------------------------------------------------------------
(***************************************************************************)
(* Declarations and resets.                                                *)
(***************************************************************************)
\* How a declaration or a reset comes from place to place.
Steady(o) == opPc'[o] = opPc[o] /\ opRun'[o] = opRun[o]

LEMMA OneOperationSteps ==
    ASSUME TypeOK, [Next]_vars
    PROVE  \/ /\ UNCHANGED <<current, faults, reaper, reapers, stopped, declared>>
              /\ UNCHANGED <<opPc, opRun, opReaper>>
           \/ \E o \in Ops : /\ Operates(o)
                             /\ \A p \in Ops \ {o} : Steady(p)
<1>1. ASSUME NEW o \in Ops, Operates(o), NEW p \in Ops \ {o} PROVE Steady(p)
  BY <1>1 DEF Operates, Operate, Declare, Reset, TakeReaper, ResetTakes, StopReaper, Clear,
     InstallBarrier, InstallFaults, AssignReaper, LookUpReaper, StartReaper, Steady, TypeOK
<1>2. CASE UNCHANGED vars
  BY <1>2 DEF vars, globals, ops
<1> QED BY <1>1, <1>2, HandlesFrame, ReapFrame, NextSteps

\* There is a number left for whoever installs a run.
LEMMA RoomForRun ==
    ASSUME TypeOK, RunsAreDeclarations, NEW o \in Ops, opPc[o] = "installing"
    PROVE  declared + 1 \in 1..Cardinality(Ops)
<1> DEFINE Made == {p \in Ops : opRun[p] # NoRun}
<1>1. IsFiniteSet(Made) /\ Made \subseteq Ops /\ o \in Ops \ Made
  BY FS_Subset DEF RunsAreDeclarations, Early
<1>2. Cardinality(Made) < Cardinality(Ops)
  <2> HIDE DEF Made
  <2>1. Cardinality(Made \cup {o}) = Cardinality(Made) + 1
    BY <1>1, FS_AddElement
  <2>2. Cardinality(Made \cup {o}) <= Cardinality(Ops)
    BY <1>1, FS_Subset
  <2>3. Cardinality(Made) \in Nat /\ Cardinality(Ops) \in Nat
    BY <1>1, FS_CardinalityType
  <2> QED BY <2>1, <2>2, <2>3
<1>3. declared = Cardinality(Made) /\ declared \in Nat /\ Cardinality(Ops) \in Nat
  BY <1>1, FS_CardinalityType DEF RunsAreDeclarations
<1> HIDE DEF Made
<1> QED BY <1>2, <1>3

OpPlaces == {"idle", "replacing", "resetting", "stopping", "redeclaring", "clearing",
             "installing", "faulting", "starting", "launching", "launched", "done", "crashed"}

\* What declarations keep has its type.
LEMMA StepGlobals ==
    ASSUME TypeOK, RunsAreDeclarations, OneInstalls, [Next]_vars
    PROVE  /\ declared' \in 0..Cardinality(Ops) /\ declared' \in {declared, declared + 1}
           /\ current' \in KnownRuns' /\ reaper' \in KnownRuns'
           /\ reapers' \subseteq Runs /\ stopped' \subseteq KnownRuns'
           /\ faults' \subseteq Declared
           /\ opPc' \in [Ops -> OpPlaces]
           /\ opRun' \in [Ops -> KnownRuns'] /\ opReaper' \in [Ops -> KnownRuns']
<1> USE DEF TypeOK, KnownRuns, NoRun
<1> DEFINE Ok ==
        /\ declared' \in 0..Cardinality(Ops) /\ declared' \in {declared, declared + 1}
        /\ current' \in KnownRuns' /\ reaper' \in KnownRuns'
        /\ reapers' \subseteq Runs /\ stopped' \subseteq KnownRuns'
        /\ faults' \subseteq Declared
        /\ opPc' \in [Ops -> OpPlaces]
        /\ opRun' \in [Ops -> KnownRuns'] /\ opReaper' \in [Ops -> KnownRuns']
<1>0. Cardinality(Ops) \in Nat
  BY RunsOfDeclarations
<1>1. ASSUME UNCHANGED <<current, faults, reaper, reapers, stopped, declared>>,
             UNCHANGED <<opPc, opRun, opReaper>>
      PROVE  Ok
  BY <1>0, <1>1 DEF OpPlaces
<1>2. ASSUME NEW o \in Ops, Declare(o) \/ ResetTakes(o) \/ LookUpReaper(o) PROVE Ok
  <2>1. PICK place \in {"replacing", "stopping", "crashed", "launched"} : TakeReaper(o, place)
    BY <1>2 DEF Declare, ResetTakes, LookUpReaper
  <2> QED BY <1>0, <2>1 DEF TakeReaper, globals, OpPlaces
<1>11. ASSUME NEW o \in Ops, StopReaper(o) PROVE Ok
  <2>1. \E place \in {"redeclaring", "clearing", "crashed"} :
            opPc' = [opPc EXCEPT ![o] = place]
    BY <1>11 DEF StopReaper
  <2>2. /\ UNCHANGED <<declared, current, faults, opRun, opReaper>>
        /\ reaper' = NoRun /\ reapers' = reapers \ {opReaper[o]}
        /\ stopped' = stopped \cup ({opReaper[o]} \ {NoRun})
    BY <1>11 DEF StopReaper
  <2>3. opReaper[o] \in KnownRuns
    BY <1>11
  <2>4. opPc' \in [Ops -> OpPlaces]
    BY <2>1 DEF OpPlaces
  <2>5. stopped' \subseteq KnownRuns' /\ KnownRuns' = KnownRuns
    BY <2>2, <2>3
  <2> QED BY <1>0, <2>2, <2>4, <2>5
<1>12. ASSUME NEW o \in Ops, AssignReaper(o) PROVE Ok
  <2>1. opRun[o] \in KnownRuns
    BY <1>12
  <2> QED BY <1>0, <1>12, <2>1 DEF AssignReaper, OpPlaces
<1>3. ASSUME NEW o \in Ops, Reset(o) PROVE Ok
  BY <1>0, <1>3 DEF Reset, globals, OpPlaces
<1>4. ASSUME NEW o \in Ops, Clear(o) PROVE Ok
  BY <1>0, <1>4 DEF Clear, OpPlaces
<1>5. ASSUME NEW o \in Ops, InstallBarrier(o) PROVE Ok
  <2>1. declared + 1 \in 1..Cardinality(Ops)
    BY <1>5, RoomForRun DEF InstallBarrier
  <2> QED BY <1>0, <1>5, <2>1 DEF InstallBarrier, OpPlaces
<1>6. ASSUME NEW o \in Ops, opPc[o] = "faulting" PROVE opRun[o] \in Runs
  BY <1>6, RunsOfDeclarations DEF RunsAreDeclarations, Late
<1>7. ASSUME NEW o \in Ops, InstallFaults(o) PROVE Ok
  <2>1. FaultsOf[opRun[o]] \subseteq Declared
    BY <1>6, <1>7 DEF InstallFaults
  <2> QED BY <1>0, <1>7, <2>1 DEF InstallFaults, OpPlaces
<1>8. ASSUME NEW o \in Ops, StartReaper(o) PROVE Ok
  <2>1. opReaper[o] \in Runs
    BY <1>8, RunsOfDeclarations DEF StartReaper, RunsAreDeclarations
  <2> QED BY <1>0, <1>8, <2>1 DEF StartReaper, OpPlaces
<1>9. \/ /\ UNCHANGED <<current, faults, reaper, reapers, stopped, declared>>
         /\ UNCHANGED <<opPc, opRun, opReaper>>
      \/ \E o \in Ops : Operates(o)
  BY OneOperationSteps
<1> HIDE DEF TypeOK, KnownRuns, NoRun
<1>10. Ok
  <2> HIDE DEF Ok
  <2> QED BY <1>1, <1>2, <1>3, <1>4, <1>5, <1>7, <1>8, <1>9, <1>11, <1>12
             DEF Operates, Operate
<1> QED BY <1>10

LEMMA StepRequestTypes ==
    ASSUME TypeOK, RequestsKnowTheirRun, [Next]_vars, declared' \in {declared, declared + 1}
    PROVE  /\ pc' \in [Requests ->
                {"idle", "arrived", "undeclared", "declared", "crashed", "refused",
                 "identifying", "entering", "parked", "released", "aborting", "error", "ok",
                 "faulted"}]
           /\ pair' \in [Requests -> Arrivable \cup {<<NoActor, NoActor>>}]
           /\ id' \in [Requests -> Ids \cup {NoId}]
           /\ run' \in [Requests -> KnownRuns']
           /\ key' \in [Requests -> Declared \cup {NoKey}]
<1> DEFINE Ok ==
        /\ pc' \in [Requests ->
             {"idle", "arrived", "undeclared", "declared", "crashed", "refused",
              "identifying", "entering", "parked", "released", "aborting", "error", "ok",
              "faulted"}]
        /\ pair' \in [Requests -> Arrivable \cup {<<NoActor, NoActor>>}]
        /\ id' \in [Requests -> Ids \cup {NoId}]
        /\ run' \in [Requests -> KnownRuns]
        /\ key' \in [Requests -> Declared \cup {NoKey}]
<1> USE DEF TypeOK, Goto
<1>1. ASSUME UNCHANGED <<pc, pair, id, run, key>> PROVE Ok
  BY <1>1
<1>2. ASSUME NEW q \in Requests, CheckDeclared(q) \/ Crash(q) \/ CheckAborted(q) \/ Identify(q)
      PROVE  Ok
  <2>1. CASE CheckDeclared(q) \/ Crash(q)
    BY <2>1 DEF CheckDeclared, Crash
  <2>2. CASE CheckAborted(q)
    BY <2>2 DEF CheckAborted
  <2>3. CASE Identify(q)
    BY <2>3 DEF Identify
  <2> QED BY <1>2, <2>1, <2>2, <2>3
<1>3. ASSUME NEW q \in Requests, EnterRefused(q) PROVE Ok
  BY <1>3 DEF EnterRefused
<1>4. ASSUME NEW q \in Requests, Enter(q) PROVE Ok
  BY <1>4 DEF Enter
<1>5. ASSUME NEW q \in Requests, Wake(q) \/ TimeOut(q) PROVE Ok
  BY <1>5 DEF Wake, TimeOut
<1>6. ASSUME NEW q \in Requests, AbortRun(q) \/ Respond(q) PROVE Ok
  BY <1>6 DEF AbortRun, Respond
<1>7. ASSUME NEW q \in Requests, NEW s \in Arrivable, NEW i \in Ids \cup {NoId}, Await(q, s, i)
      PROVE  Ok
  BY <1>7 DEF Await
<1> HIDE DEF TypeOK, Goto
<1>8. ASSUME UNCHANGED vars PROVE Ok
  BY <1>1, <1>8 DEF vars, requests
<1>9. Ok
  <2> HIDE DEF Ok
  <2>1. ASSUME NEW q \in Requests, Handles(q) PROVE Ok
    BY <1>2, <1>3, <1>4, <1>5, <1>6, <1>7, <2>1 DEF Handles, Handle
  <2> QED BY <1>1, <1>8, <2>1, OperatesFrame, ReapFrame, NextSteps
<1>10. KnownRuns \subseteq KnownRuns'
  <2>1. declared \in Nat
    BY RunsOfDeclarations DEF TypeOK
  <2> QED BY <2>1 DEF KnownRuns
<1> QED BY <1>9, <1>10

LEMMA StepType == Inv /\ [Next]_vars => TypeOK'
<1> SUFFICES ASSUME Inv, [Next]_vars PROVE TypeOK'
  OBVIOUS
<1>1. TypeOK /\ RequestsKnowTheirRun /\ RunsAreDeclarations /\ OneInstalls
  BY DEF Inv, CoordinatorInv
<1> QED BY <1>1, StepGlobals, StepRequestTypes, BarriersGrow DEF TypeOK, OpPlaces

-----------------------------------------------------------------------------
(***************************************************************************)
(* The invariant.                                                          *)
(***************************************************************************)
LEMMA InitInv == Init => Inv
<1> SUFFICES ASSUME Init PROVE Inv
  OBVIOUS
<1>1. TypeOK
  <2>1. Cardinality(Ops) \in Nat
    BY FS_CardinalityType
  <2> QED BY <2>1 DEF Init, TypeOK, KnownRuns, NoRun
<1>2. RunsAreDeclarations
  <2>1. {o \in Ops : opRun[o] # NoRun} = {}
    BY DEF Init
  <2>2. declared = 0 /\ \A o \in Ops : opPc[o] = "idle"
    BY DEF Init
  <2> QED BY <2>1, <2>2, FS_EmptySet DEF RunsAreDeclarations, Init, Late
<1>3. \A q \in Requests : pc[q] = "idle" /\ key[q] = NoKey
  BY DEF Init
<1>4. RequestsKnowTheirRun /\ KeysAreCounted /\ ReleasesAreEarned /\ ErrorsAbortTheRun
  BY <1>3 DEF RequestsKnowTheirRun, KeysAreCounted, ReleasesAreEarned, ErrorsAbortTheRun
<1>5. OneInstalls /\ ServedRunGetsWhole /\ StoppedRunIsUndone
  BY DEF Init, OneInstalls, ServedRunGetsWhole, StoppedRunIsUndone
<1> QED BY <1>1, <1>2, <1>4, <1>5 DEF Inv, CoordinatorInv

LEMMA StepKnow == Inv /\ [Next]_vars => RequestsKnowTheirRun'
<1> SUFFICES ASSUME Inv, [Next]_vars, NEW q \in Requests
             PROVE  /\ pc'[q] \in Waiting => pair'[q] \in Arrivable
                    /\ pc'[q] \in {"parked", "released", "ok", "faulted"} => key'[q] # NoKey
                    /\ pc'[q] \in {"aborting", "error"} \/ key'[q] # NoKey => run'[q] # NoRun
                    /\ key'[q] # NoKey => pc'[q] \in Entered
  BY DEF RequestsKnowTheirRun, Waiting, Entered
<1>1. TypeOK /\ RequestsKnowTheirRun
  BY DEF Inv, CoordinatorInv
<1>2. /\ pc[q] \in Waiting => pair[q] \in Arrivable
      /\ pc[q] \in {"parked", "released", "ok", "faulted"} => key[q] # NoKey
      /\ pc[q] \in {"aborting", "error"} \/ key[q] # NoKey => run[q] # NoRun
      /\ key[q] # NoKey => pc[q] \in Entered
  BY <1>1 DEF RequestsKnowTheirRun, Waiting, Entered
<1>3. CASE Enter(q)
  <2>1. /\ run'[q] \in Runs /\ key'[q] \in Declared /\ pc'[q] \in {"released", "parked"}
    BY <1>1, <1>3, EnterCounts
  <2>2. run'[q] # NoRun
    BY <2>1, RunsOfDeclarations, <1>1 DEF Runs, NoRun
  <2> QED BY <2>1, <2>2 DEF Waiting, Entered
<1>4. CASE ~Enter(q)
  <2>1. key'[q] = key[q]
    BY <1>1, <1>4, RequestSteps
  <2>2. pc'[q] \in Waiting => pair'[q] \in Arrivable
    BY <1>1, <1>2, RequestSteps
  <2>3. pc'[q] \in {"parked", "released", "ok", "faulted"} =>
            pc[q] \in {"parked", "released", "ok", "faulted"}
    BY <1>1, <1>4, RequestSteps
  <2>4. pc'[q] \in {"aborting", "error"} => run'[q] # NoRun
    <3>1. AbortRun(q) => pc[q] = "aborting"
      BY DEF AbortRun
    <3> QED BY <1>1, <1>2, <1>4, <3>1, RequestSteps
  <2>5. key[q] # NoKey => run'[q] # NoRun /\ pc'[q] \in Entered
    BY <1>1, <1>2, RequestSteps DEF Waiting, Entered
  <2> QED BY <1>2, <2>1, <2>2, <2>3, <2>4, <2>5
<1> QED BY <1>3, <1>4

LEMMA OnlyOneEnters ==
    ASSUME TypeOK, [Next]_vars, NEW q \in Requests, Enter(q),
           NEW p \in Requests, p # q
    PROVE  Still(p) /\ ~Enter(p)
<1>1. Still(p)
  BY DEF Enter, TypeOK, Still
<1>2. ~Enter(p)
  BY <1>1 DEF Enter, Still, TypeOK
<1> QED BY <1>1, <1>2

LEMMA StepKeys == Inv /\ [Next]_vars => KeysAreCounted'
<1> SUFFICES ASSUME Inv, [Next]_vars PROVE KeysAreCounted'
  OBVIOUS
<1>0. TypeOK /\ RequestsKnowTheirRun /\ KeysAreCounted
  BY DEF Inv, CoordinatorInv
<1>1. ASSUME NEW q \in Requests, key[q] # NoKey
      PROVE  /\ run[q] \in Runs /\ key[q][1] \in Arrivable
             /\ run'[q] = run[q] /\ key'[q] = key[q] /\ ~Enter(q)
             /\ arrivals[run[q]][key[q][1]] \in Nat
             /\ arrivals'[run[q]][key[q][1]] \in Nat
             /\ arrivals'[run[q]][key[q][1]] >= arrivals[run[q]][key[q][1]]
             /\ key[q][2] < arrivals[run[q]][key[q][1]]
  <2>1. run[q] # NoRun /\ pc[q] \in Entered
    BY <1>0, <1>1 DEF RequestsKnowTheirRun, Entered
  <2>2. run[q] \in Runs /\ key[q] \in Declared
    BY <1>0, <1>1, <2>1, RunsOfDeclarations DEF TypeOK
  <2>3. key[q][1] \in Arrivable
    BY <2>2, KeysOfSteps
  <2>4. run'[q] = run[q] /\ key'[q] = key[q] /\ ~Enter(q)
    BY <1>0, <2>1, RequestSteps DEF Waiting, Entered, Enter
  <2>5. key[q][2] < arrivals[run[q]][key[q][1]]
    BY <1>0, <1>1 DEF KeysAreCounted
  <2>6. arrivals \in [Runs -> [Arrivable -> Nat]] /\ arrivals' \in [Runs -> [Arrivable -> Nat]]
    BY <1>0, BarriersGrow DEF TypeOK
  <2> QED BY <1>0, <2>2, <2>3, <2>4, <2>5, <2>6, BarriersGrow
<1>2. ASSUME NEW q \in Requests, Enter(q)
      PROVE  /\ key'[q][2] < arrivals'[run'[q]][key'[q][1]]
             /\ \A p \in Requests : key[p] # NoKey =>
                    <<run[p], key[p]>> # <<run'[q], key'[q]>>
  <2> DEFINE n == arrivals[current][pair[q]]
  <2>1. /\ current \in Runs /\ pair[q] \in Arrivable
        /\ run'[q] = current /\ key'[q][1] = pair[q] /\ key'[q][2] = n
        /\ arrivals'[current][pair[q]] = n + 1
    BY <1>0, <1>2, EnterCounts
  <2>2. n \in Nat
    BY <1>0, <2>1 DEF TypeOK
  <2>3. key'[q][2] < arrivals'[run'[q]][key'[q][1]]
    BY <2>1, <2>2
  <2>4. ASSUME NEW p \in Requests, key[p] # NoKey, run[p] = run'[q], key[p] = key'[q]
        PROVE  FALSE
    <3>1. n < n
      BY <1>1, <2>1, <2>4
    <3> QED BY <2>2, <3>1
  <2> QED BY <2>3, <2>4
<1>3. ASSUME NEW q \in Requests, key'[q] # NoKey
      PROVE  key'[q][2] < arrivals'[run'[q]][key'[q][1]]
  <2>1. CASE Enter(q)
    BY <1>2, <2>1
  <2>2. CASE ~Enter(q)
    <3>1. key[q] # NoKey
      BY <1>0, <1>3, <2>2, RequestSteps
    <3>2. key[q][2] \in Nat
      BY <1>0, <3>1, KeysOfSteps DEF TypeOK
    <3> QED BY <1>1, <3>1, <3>2
  <2> QED BY <2>1, <2>2
<1>4. ASSUME NEW p \in Requests, NEW q \in Requests, p # q, key'[p] # NoKey,
             run'[p] = run'[q], key'[p] = key'[q]
      PROVE  FALSE
  <2>1. CASE Enter(p)
    <3>1. ~Enter(q) /\ Still(q)
      BY <1>0, <1>4, <2>1, OnlyOneEnters
    <3>2. key[q] = key'[q] /\ run[q] = run'[q]
      BY <3>1 DEF Still
    <3> QED BY <1>2, <1>4, <2>1, <3>2
  <2>2. CASE Enter(q)
    <3>1. ~Enter(p) /\ Still(p)
      BY <1>0, <1>4, <2>2, OnlyOneEnters
    <3>2. key[p] = key'[p] /\ run[p] = run'[p]
      BY <3>1 DEF Still
    <3> QED BY <1>2, <1>4, <2>2, <3>2
  <2>3. CASE ~Enter(p) /\ ~Enter(q)
    <3>1. key[p] = key'[p] /\ key[q] = key'[q]
      BY <1>0, <2>3, RequestSteps
    <3>2. run[p] = run'[p] /\ run[q] = run'[q]
      BY <1>1, <1>4, <3>1
    <3> QED BY <1>0, <1>4, <3>1, <3>2 DEF KeysAreCounted
  <2> QED BY <2>1, <2>2, <2>3
<1> QED BY <1>3, <1>4 DEF KeysAreCounted

LEMMA StepReleases == Inv /\ [Next]_vars => ReleasesAreEarned'
<1> SUFFICES ASSUME Inv, [Next]_vars, NEW q \in Requests,
                    pc'[q] \in {"released", "ok", "faulted"}
             PROVE  IndexOf(key'[q]) <= pointer'[run'[q]]
  BY DEF ReleasesAreEarned, Released
<1>0. TypeOK /\ RequestsKnowTheirRun /\ ReleasesAreEarned
  BY DEF Inv, CoordinatorInv
<1>1. CASE Enter(q)
  BY <1>0, <1>1, EnterCounts
<1>2. CASE ~Enter(q)
  <2>1. pc[q] \in {"parked", "released", "ok", "faulted"} /\ Released(run[q], key[q])
    BY <1>0, <1>2, RequestSteps DEF ReleasesAreEarned
  <2>2. key[q] # NoKey /\ run[q] # NoRun
    BY <1>0, <2>1 DEF RequestsKnowTheirRun
  <2>3. run[q] \in Runs /\ key[q] \in Declared
    BY <1>0, <2>2, RunsOfDeclarations DEF TypeOK
  <2>4. run'[q] = run[q] /\ key'[q] = key[q]
    BY <1>0, <1>2, <2>1, RequestSteps DEF Waiting
  <2>5. IndexOf(key[q]) \in Nat
    BY <2>3, KeysOfSteps
  <2>6. /\ pointer[run[q]] \in Nat /\ pointer'[run[q]] \in Nat
        /\ pointer'[run[q]] >= pointer[run[q]]
    BY <1>0, <2>3, BarriersGrow DEF TypeOK
  <2> QED BY <2>1, <2>4, <2>5, <2>6 DEF Released
<1> QED BY <1>1, <1>2

\* The run that is served changes to none, or to one nobody has seen.
LEMMA ServedChanges ==
    ASSUME TypeOK, [Next]_vars
    PROVE  current' \in {current, NoRun, declared + 1}
<1>1. ASSUME NEW o \in Ops, Operates(o) PROVE current' \in {current, NoRun, declared + 1}
  BY <1>1 DEF Operates, Operate, Declare, Reset, TakeReaper, ResetTakes, StopReaper, Clear,
     InstallBarrier, InstallFaults, AssignReaper, LookUpReaper, StartReaper, globals
<1> QED BY <1>1, OneOperationSteps

LEMMA StepErrors == Inv /\ [Next]_vars => ErrorsAbortTheRun'
<1> SUFFICES ASSUME Inv, [Next]_vars, NEW q \in Requests, pc'[q] = "error"
             PROVE  run'[q] \in aborted' \/ run'[q] # current'
  BY DEF ErrorsAbortTheRun
<1>0. TypeOK /\ RequestsKnowTheirRun /\ ErrorsAbortTheRun
  BY DEF Inv, CoordinatorInv
<1>1. CASE pc[q] = "error"
  <2>1. run'[q] = run[q] /\ run[q] # NoRun
    BY <1>0, <1>1, RequestSteps DEF Waiting, RequestsKnowTheirRun
  <2>2. run[q] \in aborted \/ run[q] # current
    BY <1>0, <1>1 DEF ErrorsAbortTheRun
  <2>3. run[q] # declared + 1
    <3>1. run[q] \in 0..declared /\ declared \in Nat
      BY <1>0, RunsOfDeclarations DEF TypeOK, KnownRuns
    <3> QED BY <3>1
  <2> QED BY <1>0, <2>1, <2>2, <2>3, ServedChanges, BarriersGrow
<1>2. CASE AbortRun(q)
  <2>1. run'[q] = run[q] /\ current' = current /\ run[q] # NoRun
    BY <1>0, <1>2 DEF AbortRun, globals, RequestsKnowTheirRun
  <2>2. aborted' = aborted \cup ({current} \ {NoRun})
    BY <1>2 DEF AbortRun, AbortedNow
  <2> QED BY <2>1, <2>2
<1> QED BY <1>0, <1>1, <1>2, RequestSteps

LEMMA StepDeclarations == Inv /\ [Next]_vars => RunsAreDeclarations'
<1> SUFFICES ASSUME Inv, [Next]_vars PROVE RunsAreDeclarations'
  OBVIOUS
<1>0. TypeOK /\ RunsAreDeclarations
  BY DEF Inv, CoordinatorInv
<1> DEFINE Made == {o \in Ops : opRun[o] # NoRun}
           Ok == /\ declared' = Cardinality({o \in Ops : opRun'[o] # NoRun})
                 /\ \A o \in Ops :
                    /\ opPc'[o] \in Early => opRun'[o] = NoRun
                    /\ opPc'[o] \in Late => opRun'[o] # NoRun
                    /\ opPc'[o] = "launched" => opReaper'[o] # NoRun
<1>1. ASSUME UNCHANGED <<declared, opPc, opRun, opReaper>> PROVE Ok
  BY <1>0, <1>1 DEF RunsAreDeclarations
<1>2. ASSUME NEW o \in Ops, InstallBarrier(o) PROVE Ok
  <2>1. /\ declared \in Nat /\ declared = Cardinality(Made)
        /\ opRun[o] = NoRun /\ opRun' = [opRun EXCEPT ![o] = declared + 1]
        /\ declared' = declared + 1 /\ opPc' = [opPc EXCEPT ![o] = "faulting"]
        /\ opReaper' = opReaper
    BY <1>0, <1>2, RunsOfDeclarations DEF InstallBarrier, RunsAreDeclarations, TypeOK, Early
  <2>2. {p \in Ops : opRun'[p] # NoRun} = Made \cup {o} /\ o \notin Made
    <3>1. declared + 1 # NoRun
      BY <2>1 DEF NoRun
    <3> QED BY <1>0, <2>1, <3>1 DEF TypeOK
  <2>3. IsFiniteSet(Made)
    BY FS_Subset
  <2>4. Cardinality({p \in Ops : opRun'[p] # NoRun}) = declared + 1
    <3> HIDE DEF Made
    <3> QED BY <2>1, <2>2, <2>3, FS_AddElement
  <2>5. ASSUME NEW p \in Ops
        PROVE  /\ opPc'[p] \in Early => opRun'[p] = NoRun
               /\ opPc'[p] \in Late => opRun'[p] # NoRun
               /\ opPc'[p] = "launched" => opReaper'[p] # NoRun
    BY <1>0, <2>1 DEF RunsAreDeclarations, TypeOK, NoRun, Early, Late
  <2> QED BY <2>1, <2>4, <2>5
<1>3. ASSUME NEW o \in Ops, Operates(o), ~InstallBarrier(o) PROVE Ok
  <2>1. opRun' = opRun /\ declared' = declared
    BY <1>3 DEF Operates, Operate, Declare, Reset, TakeReaper, ResetTakes, StopReaper, Clear,
       InstallFaults, AssignReaper, LookUpReaper, StartReaper, globals
  <2>2. ASSUME NEW p \in Ops
        PROVE  /\ opPc'[p] \in Late => opPc[p] \in Late
               /\ opPc'[p] \in Early => opPc[p] \in Early
               /\ opPc'[p] = "launched" => opReaper'[p] # NoRun
    <3>1. CASE TakeReaper(o, "replacing") /\ opPc[o] = "idle"
      BY <1>0, <3>1 DEF TakeReaper, RunsAreDeclarations, TypeOK, Early, Late
    <3>2. CASE TakeReaper(o, "stopping") /\ opPc[o] = "resetting"
      BY <1>0, <3>2 DEF TakeReaper, RunsAreDeclarations, TypeOK, Early, Late
    <3>3. CASE LookUpReaper(o)
      BY <1>0, <3>3 DEF LookUpReaper, TakeReaper, RunsAreDeclarations, TypeOK, Early, Late
    <3>4. CASE Reset(o) \/ StopReaper(o) \/ Clear(o)
      BY <1>0, <3>4 DEF Reset, StopReaper, Clear, RunsAreDeclarations, TypeOK, Early, Late
    <3>5. CASE InstallFaults(o) \/ AssignReaper(o) \/ StartReaper(o)
      BY <1>0, <3>5 DEF InstallFaults, AssignReaper, StartReaper, RunsAreDeclarations, TypeOK,
         Early, Late
    <3> QED BY <1>3, <3>1, <3>2, <3>3, <3>4, <3>5 DEF Operates, Operate, Declare, ResetTakes
  <2> QED BY <1>0, <2>1, <2>2 DEF RunsAreDeclarations
<1>4. Ok
  <2> HIDE DEF Ok
  <2> QED BY <1>0, <1>1, <1>2, <1>3, OneOperationSteps
<1> QED BY <1>4 DEF RunsAreDeclarations

LEMMA StepInstalls == Inv /\ [Next]_vars => OneInstalls'
<1> SUFFICES ASSUME Inv, [Next]_vars, NEW o \in Ops, NEW p \in Ops, opPc'[o] = "faulting"
             PROVE  /\ opRun'[o] = current'
                    /\ opPc'[p] = "faulting" => p = o
  BY DEF OneInstalls
<1> DEFINE Ok == opRun'[o] = current' /\ (opPc'[p] = "faulting" => p = o)
<1>0. TypeOK /\ OneInstalls
  BY DEF Inv, CoordinatorInv
<1>1. CASE UNCHANGED <<current, faults, reaper, reapers, stopped, declared>>
           /\ UNCHANGED <<opPc, opRun, opReaper>>
  BY <1>0, <1>1 DEF OneInstalls
<1>2. ASSUME NEW x \in Ops, InstallBarrier(x) PROVE Ok
  BY <1>0, <1>2 DEF InstallBarrier, LockFree, OneInstalls, TypeOK
<1>3. ASSUME NEW x \in Ops, Clear(x) PROVE Ok
  BY <1>0, <1>3 DEF Clear, LockFree, OneInstalls, TypeOK
<1>4. ASSUME NEW x \in Ops,
             \/ Declare(x) \/ Reset(x) \/ ResetTakes(x) \/ StopReaper(x) \/ InstallFaults(x)
             \/ AssignReaper(x) \/ LookUpReaper(x) \/ StartReaper(x)
      PROVE  Ok
  BY <1>0, <1>4 DEF Declare, Reset, TakeReaper, ResetTakes, StopReaper, InstallFaults,
     AssignReaper, LookUpReaper, StartReaper,
     globals, OneInstalls, TypeOK
<1> QED BY <1>1, <1>2, <1>3, <1>4, OneOperationSteps, <1>0 DEF Operates, Operate

\* Once stopped, the served run keeps being taken away, or the stopping failed.
LEMMA StepUndoing ==
    ASSUME Inv, [Next]_vars, Undoing
    PROVE  Undoing' \/ current' = NoRun
<1>0. TypeOK
  BY DEF Inv
<1>1. PICK o \in Ops : opPc[o] \in {"redeclaring", "clearing"} \/ StopFailed(o)
  BY DEF Undoing
<1>2. CASE Steady(o)
  BY <1>1, <1>2 DEF Steady, Undoing, StopFailed
<1>3. CASE Operates(o)
  <2>1. CASE Clear(o)
    BY <2>1 DEF Clear
  <2>2. CASE ~Clear(o)
    BY <1>1, <1>3, <2>2 DEF StopFailed, Operates, Operate, Declare, Reset, ResetTakes,
       StopReaper, InstallBarrier, InstallFaults, AssignReaper, LookUpReaper, StartReaper
  <2> QED BY <2>1, <2>2
<1>4. Steady(o) \/ Operates(o)
  BY <1>0, OneOperationSteps DEF Steady
<1> QED BY <1>2, <1>3, <1>4

\* A run that is new has not been stopped, and its declaration has not come to its reaper.
LEMMA NewRunIsUntouched ==
    ASSUME Inv, NEW o \in Ops, InstallBarrier(o)
    PROVE  /\ current' \notin stopped' /\ current' = opRun'[o] /\ opPc'[o] = "faulting"
           /\ \A p \in Ops : opRun'[p] = current' => p = o
<1>0. TypeOK /\ declared \in Nat
  BY RunsOfDeclarations DEF Inv, TypeOK
<1>1. /\ current' = declared + 1 /\ stopped' = stopped /\ stopped \subseteq 0..declared
      /\ opRun' = [opRun EXCEPT ![o] = declared + 1]
      /\ opPc' = [opPc EXCEPT ![o] = "faulting"]
  BY <1>0 DEF InstallBarrier, TypeOK, KnownRuns
<1>2. opRun \in [Ops -> 0..declared] /\ opPc[o] = "installing"
  BY <1>0 DEF TypeOK, KnownRuns, InstallBarrier
<1> QED BY <1>0, <1>1, <1>2 DEF TypeOK

\* Whoever stops a reaper takes the run away, or fails.
LEMMA StopUndoes ==
    ASSUME Inv, NEW o \in Ops, StopReaper(o)
    PROVE  Undoing'
<1>1. opRun[o] = NoRun /\ opRun' = opRun
  BY DEF Inv, CoordinatorInv, RunsAreDeclarations, StopReaper, Early
<1>2. opPc'[o] \in {"redeclaring", "clearing", "crashed"}
  BY DEF Inv, TypeOK, StopReaper
<1> QED BY <1>1, <1>2 DEF Undoing, StopFailed

LEMMA StepUndone == Inv /\ [Next]_vars => StoppedRunIsUndone'
<1> SUFFICES ASSUME Inv, [Next]_vars, current' # NoRun
             PROVE  /\ current' \in stopped' => Undoing'
                    /\ \A p \in Ops : opPc'[p] = "launching" /\ opRun'[p] = current'
                                        /\ reaper' = NoRun => Undoing'
  BY DEF StoppedRunIsUndone
<1> DEFINE Ok == /\ current' \in stopped' => Undoing'
                 /\ \A p \in Ops : opPc'[p] = "launching" /\ opRun'[p] = current'
                                     /\ reaper' = NoRun => Undoing'
<1>0. TypeOK /\ StoppedRunIsUndone /\ RunsAreDeclarations
  BY DEF Inv, CoordinatorInv
<1>1. Undoing => Undoing'
  BY StepUndoing
<1>2. ASSUME current' = current, stopped' = stopped, reaper' = reaper,
             \A p \in Ops : opPc'[p] = "launching" => opPc[p] = "launching",
             opRun' = opRun
      PROVE  Ok
  BY <1>0, <1>1, <1>2 DEF StoppedRunIsUndone
<1>3. ASSUME NEW o \in Ops, StopReaper(o) PROVE Ok
  BY <1>3, StopUndoes
<1>4. ASSUME NEW o \in Ops, InstallBarrier(o) PROVE Ok
  BY <1>4, NewRunIsUntouched
<1>5. ASSUME NEW o \in Ops, Clear(o) PROVE FALSE
  BY <1>5 DEF Clear
<1>6. ASSUME NEW o \in Ops, AssignReaper(o) PROVE Ok
  <2>1. reaper' # NoRun /\ current' = current /\ stopped' = stopped
    BY <1>0, <1>6 DEF AssignReaper, RunsAreDeclarations, Late
  <2> QED BY <1>0, <1>1, <2>1 DEF StoppedRunIsUndone
<1>7. ASSUME NEW o \in Ops, Declare(o) \/ Reset(o) \/ ResetTakes(o) \/ LookUpReaper(o)
      PROVE  Ok
  <2>1. /\ current' = current /\ stopped' = stopped /\ reaper' = reaper /\ opRun' = opRun
        /\ \E place \in {"replacing", "resetting", "stopping", "crashed", "launched"} :
              opPc' = [opPc EXCEPT ![o] = place]
    BY <1>7 DEF Declare, Reset, ResetTakes, LookUpReaper, TakeReaper, globals
  <2> QED BY <1>0, <1>2, <2>1 DEF TypeOK
<1>8. ASSUME NEW o \in Ops, InstallFaults(o) \/ StartReaper(o) PROVE Ok
  <2>1. /\ current' = current /\ stopped' = stopped /\ reaper' = reaper /\ opRun' = opRun
        /\ \E place \in {"starting", "done", "crashed"} : opPc' = [opPc EXCEPT ![o] = place]
    BY <1>8 DEF InstallFaults, StartReaper
  <2> QED BY <1>0, <1>2, <2>1 DEF TypeOK
<1>9. Ok
  <2> HIDE DEF Ok
  <2>1. CASE UNCHANGED <<current, faults, reaper, reapers, stopped, declared>>
             /\ UNCHANGED <<opPc, opRun, opReaper>>
    BY <1>2, <2>1
  <2> QED BY <1>0, <1>3, <1>4, <1>5, <1>6, <1>7, <1>8, <2>1, OneOperationSteps
             DEF Operates, Operate
<1> QED BY <1>9

\* The faults of the served run are there, or on their way.
FaultsComing ==
    faults = FaultsOf[current] \/ \E o \in Ops : opPc[o] = "faulting" /\ opRun[o] = current

LEMMA StepFaults ==
    ASSUME Inv, [Next]_vars, current' # NoRun
    PROVE  FaultsComing'
<1>0. TypeOK /\ OneInstalls /\ (current # NoRun => FaultsComing)
  BY DEF Inv, CoordinatorInv, ServedRunGetsWhole, FaultsComing
<1>1. ASSUME current' = current, faults' = faults, opRun' = opRun,
             \A p \in Ops : opPc[p] = "faulting" => opPc'[p] = "faulting"
      PROVE  FaultsComing'
  BY <1>0, <1>1 DEF FaultsComing
<1>2. ASSUME NEW o \in Ops, InstallBarrier(o) PROVE FaultsComing'
  BY <1>2, NewRunIsUntouched DEF FaultsComing
<1>3. ASSUME NEW o \in Ops, Clear(o) PROVE FALSE
  BY <1>3 DEF Clear
<1>4. ASSUME NEW o \in Ops, InstallFaults(o) PROVE FaultsComing'
  <2>1. opPc[o] = "faulting" /\ faults' = FaultsOf[opRun[o]] /\ current' = current
    BY <1>4 DEF InstallFaults
  <2>2. opRun[o] = current
    BY <1>0, <2>1 DEF OneInstalls
  <2> QED BY <2>1, <2>2 DEF FaultsComing
<1>5. ASSUME NEW o \in Ops, Declare(o) \/ Reset(o) \/ ResetTakes(o) \/ LookUpReaper(o)
      PROVE  FaultsComing'
  BY <1>0, <1>1, <1>5 DEF Declare, Reset, ResetTakes, LookUpReaper, TakeReaper, globals, TypeOK
<1>6. ASSUME NEW o \in Ops, StopReaper(o) \/ AssignReaper(o) \/ StartReaper(o)
      PROVE  FaultsComing'
  BY <1>0, <1>1, <1>6 DEF StopReaper, AssignReaper, StartReaper, TypeOK
<1>7. CASE UNCHANGED <<current, faults, reaper, reapers, stopped, declared>>
           /\ UNCHANGED <<opPc, opRun, opReaper>>
  BY <1>1, <1>7
<1> QED BY <1>0, <1>2, <1>3, <1>4, <1>5, <1>6, <1>7, OneOperationSteps DEF Operates, Operate

\* The reaper of the served run runs, is on its way, or is accounted for.
ReaperComing ==
    \/ current \in reapers \/ Undoing \/ Astray
    \/ \E o \in Ops : opPc[o] \in Late /\ opRun[o] = current

LEMMA StepReaper ==
    ASSUME Inv, [Next]_vars, current' # NoRun
    PROVE  ReaperComing'
<1>0. TypeOK /\ RunsAreDeclarations /\ (current # NoRun => ReaperComing)
  BY DEF Inv, CoordinatorInv, ServedRunGetsWhole, ReaperComing
<1>1. Undoing => ReaperComing'
  BY StepUndoing DEF ReaperComing
<1>2. ASSUME current' = current, reapers \subseteq reapers', opRun' = opRun,
             \A p \in Ops : /\ opPc[p] \in Late => opPc'[p] \in Late
                            /\ opPc[p] \in {"done", "crashed"} => Steady(p)
                                                            /\ opReaper'[p] = opReaper[p]
      PROVE  ReaperComing'
  BY <1>0, <1>1, <1>2 DEF ReaperComing, Astray, Steady
<1>3. ASSUME NEW o \in Ops, InstallBarrier(o) PROVE ReaperComing'
  BY <1>3, NewRunIsUntouched DEF ReaperComing, Late
<1>4. ASSUME NEW o \in Ops, Clear(o) PROVE FALSE
  BY <1>4 DEF Clear
<1>5. ASSUME NEW o \in Ops, StopReaper(o) PROVE ReaperComing'
  BY <1>5, StopUndoes DEF ReaperComing
<1>6. ASSUME NEW o \in Ops, Declare(o) \/ Reset(o) \/ ResetTakes(o) PROVE ReaperComing'
  BY <1>0, <1>2, <1>6 DEF Declare, Reset, ResetTakes, TakeReaper, globals, TypeOK, Late, Steady
<1>7. ASSUME NEW o \in Ops, InstallFaults(o) \/ AssignReaper(o) PROVE ReaperComing'
  BY <1>0, <1>2, <1>7 DEF InstallFaults, AssignReaper, TypeOK, Late, Steady
<1>8. ASSUME NEW o \in Ops, LookUpReaper(o) PROVE ReaperComing'
  <2>1. CASE reaper # NoRun
    BY <1>0, <1>2, <1>8, <2>1 DEF LookUpReaper, TakeReaper, globals, TypeOK, Late, Steady
  <2>2. CASE reaper = NoRun /\ opRun[o] = current
    <3>1. Undoing
      BY <1>8, <2>2 DEF LookUpReaper, TakeReaper, globals, Inv, CoordinatorInv,
         StoppedRunIsUndone
    <3> QED BY <1>1, <3>1
  <2>3. CASE reaper = NoRun /\ opRun[o] # current
    <3>1. /\ current' = current /\ reapers' = reapers /\ opRun' = opRun
          /\ opPc[o] = "launching"
          /\ opPc' = [opPc EXCEPT ![o] = "crashed"]
          /\ opReaper' = [opReaper EXCEPT ![o] = NoRun]
      BY <1>8, <2>3 DEF LookUpReaper, TakeReaper, globals
    <3>2. ASSUME NEW p \in Ops, p # o
          PROVE  opPc'[p] = opPc[p] /\ opReaper'[p] = opReaper[p]
      BY <1>0, <3>1, <3>2 DEF TypeOK
    <3> QED BY <1>0, <1>1, <2>3, <3>1, <3>2 DEF ReaperComing, Astray
  <2> QED BY <2>1, <2>2, <2>3
<1>9. ASSUME NEW o \in Ops, StartReaper(o) PROVE ReaperComing'
  <2>1. /\ current' = current /\ opRun' = opRun /\ opReaper' = opReaper
        /\ opPc[o] = "launched" /\ opReaper[o] # NoRun
        /\ reapers' = reapers \cup ({opReaper[o]} \ stopped)
        /\ opPc'[o] \in {"done", "crashed"}
        /\ \A p \in Ops : p # o => opPc'[p] = opPc[p]
    BY <1>0, <1>9 DEF StartReaper, RunsAreDeclarations, TypeOK
  <2>2. CASE opRun[o] # current
    BY <1>0, <1>1, <2>1, <2>2 DEF ReaperComing, Astray
  <2>3. CASE opRun[o] = current /\ opReaper[o] # current
    BY <2>1, <2>3 DEF ReaperComing, Astray
  <2>4. CASE opReaper[o] = current /\ current \notin stopped
    BY <2>1, <2>4 DEF ReaperComing
  <2>5. CASE current \in stopped
    <3>1. Undoing
      BY <2>1, <2>5 DEF Inv, CoordinatorInv, StoppedRunIsUndone
    <3> QED BY <1>1, <3>1
  <2> QED BY <2>2, <2>3, <2>4, <2>5
<1>10. CASE UNCHANGED <<current, faults, reaper, reapers, stopped, declared>>
            /\ UNCHANGED <<opPc, opRun, opReaper>>
  BY <1>2, <1>10 DEF Steady
<1> QED BY <1>0, <1>3, <1>4, <1>5, <1>6, <1>7, <1>8, <1>9, <1>10, OneOperationSteps
           DEF Operates, Operate

LEMMA StepWhole == Inv /\ [Next]_vars => ServedRunGetsWhole'
BY StepFaults, StepReaper DEF ServedRunGetsWhole, FaultsComing, ReaperComing

\* The invariant holds.
THEOREM Invariance == Spec => []Inv
<1>1. Inv /\ [Next]_vars => Inv'
  BY StepType, StepDeclarations, StepKnow, StepKeys, StepReleases, StepErrors, StepInstalls,
     StepWhole, StepUndone DEF Inv, CoordinatorInv
<1> QED BY <1>1, InitInv, PTL DEF Spec

-----------------------------------------------------------------------------
(***************************************************************************)
(* What it shows.                                                          *)
(***************************************************************************)
\* Nobody goes on who was not released by the run it waited in, and no release is given
\* out twice, though handlers read the globals again and again while they change.
THEOREM ReleasesAreReal == Spec => []OnlyReleasedGoOn
<1>1. Inv => OnlyReleasedGoOn
  BY DEF Inv, CoordinatorInv, ReleasesAreEarned, KeysAreCounted, OnlyReleasedGoOn
<1> QED BY <1>1, Invariance, PTL

\* Once an error was answered, the pointer of the run that the request was in stands still,
\* whether the error aborted that run or it had been replaced or reset before.
THEOREM ErrorsStopRuns == Spec => ErrorsStopTheRun
<1>1. Inv /\ [Next]_vars =>
        [\A q \in Requests : pc[q] = "error" => pointer'[run[q]] = pointer[run[q]]]_vars
  <2> SUFFICES ASSUME Inv, [Next]_vars, NEW q \in Requests, pc[q] = "error"
               PROVE  pointer'[run[q]] = pointer[run[q]]
    OBVIOUS
  <2>0. TypeOK /\ run[q] \in Runs /\ (run[q] \in aborted \/ run[q] # current)
    <3>1. run[q] # NoRun /\ run[q] \in KnownRuns
      BY DEF Inv, CoordinatorInv, RequestsKnowTheirRun, TypeOK
    <3> QED BY <3>1, RunsOfDeclarations DEF Inv, CoordinatorInv, ErrorsAbortTheRun
  <2>1. ASSUME NEW p \in Requests, Enter(p) PROVE pointer'[run[q]] = pointer[run[q]]
    <3>1. /\ current \notin aborted /\ pointer \in [Runs -> Nat]
          /\ \E n : pointer' = [pointer EXCEPT ![current] = n]
      BY <2>0, <2>1 DEF Enter, Open, TypeOK
    <3> QED BY <2>0, <3>1
  <2>2. ASSUME NEW p \in Requests, Handles(p), ~Enter(p) PROVE pointer' = pointer
    BY <2>2 DEF Handles, Handle, Await, CheckDeclared, Crash, CheckAborted, Identify,
       EnterRefused, Wake, TimeOut, AbortRun, Respond, Goto, barriers
  <2>3. CASE UNCHANGED vars
    BY <2>3 DEF vars, barriers
  <2> QED BY <2>1, <2>2, <2>3, OperatesFrame, ReapFrame, NextSteps
<1> QED BY <1>1, Invariance, PTL DEF Spec, ErrorsStopTheRun

\* When no declaration and no reset is under way, the run that is served has its own faults
\* and is reaped, unless its declaration started the reaper of another one, or somebody
\* failed in stopping a reaper.
THEOREM QuietRunsAreWhole == Spec => []QuietRunIsWhole
<1>1. Inv => QuietRunIsWhole
  <2> SUFFICES ASSUME Inv, \A o \in Ops : Over(o), current # NoRun
               PROVE  /\ faults = FaultsOf[current]
                      /\ \/ current \in reapers
                         \/ WentAstray(current)
                         \/ \E o \in Ops : StopFailed(o)
    BY DEF QuietRunIsWhole
  <2>1. \A o \in Ops : opPc[o] \notin Late /\ opPc[o] \notin {"redeclaring", "clearing"}
    BY DEF Over, Late
  <2>2. ServedRunGetsWhole
    BY DEF Inv, CoordinatorInv
  <2>3. faults = FaultsOf[current] /\ (current \in reapers \/ Undoing \/ Astray)
    BY <2>1, <2>2 DEF ServedRunGetsWhole, Late
  <2> QED BY <2>1, <2>3 DEF Undoing, Astray, WentAstray
<1> QED BY <1>1, Invariance, PTL

\* No waiter of an aborted run is released.
THEOREM AbortIsRespected == Spec => AbortedRunsReleaseNobody
<1>1. Inv /\ [Next]_vars =>
        [\A q \in Requests :
            pc[q] # "released" /\ pc'[q] = "released" => run'[q] \notin aborted]_vars
  <2> SUFFICES ASSUME Inv, [Next]_vars, NEW q \in Requests,
                      pc[q] # "released", pc'[q] = "released"
               PROVE  run'[q] \notin aborted
    OBVIOUS
  <2>0. TypeOK /\ RequestsKnowTheirRun
    BY DEF Inv, CoordinatorInv
  <2>1. CASE Enter(q)
    BY <2>0, <2>1, EnterCounts
  <2>2. CASE ~Enter(q)
    <3>1. pc[q] = "parked" /\ run[q] \notin aborted
      BY <2>0, <2>2, RequestSteps
    <3>2. run'[q] = run[q]
      BY <2>0, <3>1, RequestSteps DEF Waiting
    <3> QED BY <3>1, <3>2
  <2> QED BY <2>1, <2>2
<1> QED BY <1>1, Invariance, PTL DEF Spec, AbortedRunsReleaseNobody
=============================================================================
