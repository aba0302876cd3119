--------------------------- MODULE ControlProofs ---------------------------
(***************************************************************************)
(* Theorems about the control service, for every set of requests, cases,   *)
(* keys, amounts and deadlines, however many requests run at once.         *)
(***************************************************************************)
EXTENDS Control, TotalsProofs, TLAPS

USE DEF update

-----------------------------------------------------------------------------
(***************************************************************************)
(* The inductive invariant: what holds between any two steps.              *)
(***************************************************************************)
InTransaction(r) ==
    pc[r] \in {"expiring", "updating", "looking", "deciding", "granting", "refusing",
              "replaying"}

RequestsHaveInput ==
    \A r \in Requests :
        /\ InTransaction(r) \/ pc[r] \in {"locking", "granted"} => input[r] \in Inputs
        /\ pc[r] \in {"releasing", "committing"} =>
            input[r] \in Keys /\ Exists(input[r])

\* A reservation in its transaction owns its case, and nobody else owns any.
LockIsTransaction ==
    \A c \in Cases, r \in Requests :
        caseLock[c] = r <=> InTransaction(r) /\ input[r].case = c

\* What a transaction expired stays a held row, and its own, until it ends.
ExpiriesAreOwned ==
    \A r \in Requests :
        /\ expiring[r] # {} => InTransaction(r) /\ pc[r] # "expiring"
        /\ \A k \in expiring[r] : InState(k, "HELD") /\ Overdue(k, clock[r])
        /\ \A s \in Requests \ {r} : expiring[r] \cap expiring[s] = {}
        /\ clock[r] <= now

\* An UPDATE is at a row it has yet to visit, and comes to no row twice.
UpdatesGoOn ==
    \A r \in Requests : pc[r] = "updating" =>
        at[r] \in todo[r] /\ todo[r] \cap expiring[r] = {}

\* Every overdue hold of its own case is expired, or to be visited yet.
NothingDueIsLeft ==
    \A r \in Requests : pc[r] \in {"updating", "looking", "deciding"} =>
        \A k \in Due(clock[r]) : row[k].case = input[r].case =>
            k \in expiring[r] \/ (pc[r] = "updating" /\ k \in todo[r])

GrantsHaveRows ==
    \A r \in Requests : pc[r] = "granted" => Exists(input[r].key)

\* What lapsed once is known, also when a late commit revives it.
LapsesAreRecorded ==
    \A k \in Keys : InState(k, "RELEASED") \/ InState(k, "EXPIRED") => k \in lapsed

\* A request that was promised budget can still have it, whatever happens between
\* its sum and its INSERT.
GrantsFit ==
    \A r \in Requests : pc[r] = "granting" =>
        Sum(Unbroken(input[r].case) \ expiring[r]) + input[r].amount <= Authorized

ControlInv ==
    /\ RequestsHaveInput
    /\ LockIsTransaction
    /\ ExpiriesAreOwned
    /\ UpdatesGoOn
    /\ NothingDueIsLeft
    /\ GrantsHaveRows
    /\ FreshGrantsAreUnique
    /\ LapsesAreRecorded
    /\ GrantsFit
    /\ CeilingHolds

Inv == TypeOK /\ ControlInv

-----------------------------------------------------------------------------
(***************************************************************************)
(* What the steps do to rows.                                              *)
(***************************************************************************)
LEMMA RowFields ==
    ASSUME TypeOK, NEW k \in Keys, Exists(k)
    PROVE  /\ row[k] \in Rows
           /\ row[k].case \in Cases /\ row[k].state \in States
           /\ row[k].deadline \in Nat \cup {NoDeadline}
BY DEF TypeOK, Exists, Rows

\* Ending a reservation's transaction expires its own rows and no others.
LEMMA PublishedRows ==
    ASSUME Inv, NEW r \in Requests
    PROVE  /\ Published(r) \in [Keys -> Rows \cup {NoRow}]
           /\ \A k \in Keys : Published(r)[k] = NoRow <=> row[k] = NoRow
           /\ \A k \in Keys \ expiring[r] : Published(r)[k] = row[k]
           /\ \A k \in expiring[r] : k \in Keys /\ Published(r)[k].state = "EXPIRED"
<1>1. \A k \in expiring[r] : k \in Keys /\ Exists(k)
  BY DEF Inv, TypeOK, ControlInv, ExpiriesAreOwned, InState
<1>2. \A k \in expiring[r] :
        /\ [row[k] EXCEPT !.state = "EXPIRED"] \in Rows
        /\ [row[k] EXCEPT !.state = "EXPIRED"].state = "EXPIRED"
  <2> TAKE k \in expiring[r]
  <2>1. row[k] \in Rows
    BY <1>1, RowFields DEF Inv
  <2> QED BY <2>1 DEF Rows, States
<1> QED BY <1>1, <1>2, SentinelAssumption DEF Inv, TypeOK, Published, Exists

\* Settling a row changes that row's state and nothing else.
LEMMA SettledRows ==
    ASSUME Inv, NEW r \in Requests, pc[r] \in {"releasing", "committing"},
           NEW to \in {"RELEASED", "COMMITTED"},
           row' = [row EXCEPT ![input[r]].state = to]
    PROVE  /\ row' \in [Keys -> Rows \cup {NoRow}]
           /\ input[r] \in Keys
           /\ \A k \in Keys : row'[k] = NoRow <=> row[k] = NoRow
           /\ \A k \in Keys : k # input[r] => row'[k] = row[k]
           /\ row'[input[r]].state = to
<1>1. input[r] \in Keys /\ Exists(input[r])
  BY DEF Inv, ControlInv, RequestsHaveInput
<1>2. row[input[r]] \in Rows
  BY <1>1, RowFields DEF Inv
<1>3. /\ [row[input[r]] EXCEPT !.state = to] \in Rows
      /\ [row[input[r]] EXCEPT !.state = to].state = to
  BY <1>2 DEF Rows, States
<1>4. /\ row'[input[r]] = [row[input[r]] EXCEPT !.state = to]
      /\ \A k \in Keys : k # input[r] => row'[k] = row[k]
      /\ row' = [k \in Keys |-> row'[k]]
  BY <1>1 DEF Inv, TypeOK
<1> HIDE DEF Inv
<1>5. \A k \in Keys : row'[k] \in Rows \cup {NoRow}
  BY <1>1, <1>3, <1>4 DEF Inv, TypeOK
<1>6. row' \in [Keys -> Rows \cup {NoRow}]
  BY <1>4, <1>5
<1> QED BY <1>1, <1>3, <1>4, <1>6, SentinelAssumption DEF Exists

\* The row an INSERT adds has its type and is held.
LEMMA NewRowType ==
    ASSUME Inv, NEW r \in Requests, pc[r] = "granting"
    PROVE  /\ NewRow(r) \in Rows
           /\ NewRow(r) # NoRow
           /\ NewRow(r).case = input[r].case /\ NewRow(r).state = "HELD"
<1>1. input[r] \in Inputs
  BY DEF Inv, ControlInv, RequestsHaveInput, InTransaction
<1>2. /\ input[r].case \in Cases /\ input[r].amount \in Amounts
      /\ input[r].ttl \in Nat \cup {NoTtl}
  BY <1>1, ControlAssumption DEF Inputs
<1>3. clock[r] \in Nat
  BY DEF Inv, TypeOK
<1>4. NewRow(r).deadline \in Nat \cup {NoDeadline}
  BY <1>2, <1>3 DEF NewRow
<1>5. NewRow(r) \in Rows
  BY <1>2, <1>4 DEF NewRow, Rows, States
<1> QED BY <1>5, SentinelAssumption DEF NewRow

-----------------------------------------------------------------------------
(***************************************************************************)
(* The inductive invariant.                                                *)
(***************************************************************************)
LEMMA InitInv == Init => Inv
<1> SUFFICES ASSUME Init PROVE Inv
  OBVIOUS
<1> USE DEF Init
<1>1. TypeOK
  BY DEF TypeOK
<1>2. RequestsHaveInput /\ ExpiriesAreOwned
  BY DEF RequestsHaveInput, ExpiriesAreOwned, InTransaction
<1>3. LockIsTransaction
  BY ControlAssumption DEF LockIsTransaction, InTransaction
<1>4. UpdatesGoOn /\ NothingDueIsLeft /\ GrantsHaveRows /\ FreshGrantsAreUnique
  BY DEF UpdatesGoOn, NothingDueIsLeft, GrantsHaveRows, FreshGrantsAreUnique
<1>5. LapsesAreRecorded
  BY DEF LapsesAreRecorded, InState, Exists
<1>6. CeilingHolds
  <2> SUFFICES ASSUME NEW c \in Cases PROVE Sum(Unbroken(c)) <= Authorized
    BY DEF CeilingHolds
  <2>1. Unbroken(c) = {}
    BY DEF Unbroken, InState, Exists
  <2> QED BY <2>1, TotalOfNothing, ControlAssumption DEF Sum
<1>7. GrantsFit
  <2> SUFFICES \A r \in Requests : pc[r] # "granting"
    BY DEF GrantsFit
  <2> QED OBVIOUS
<1> QED BY <1>1, <1>2, <1>3, <1>4, <1>5, <1>6, <1>7 DEF Inv, ControlInv

LEMMA StepType == Inv /\ [Next]_vars => TypeOK'
<1> SUFFICES ASSUME Inv, [Next]_vars PROVE TypeOK'
  OBVIOUS
<1>a. TypeOK
  BY DEF Inv
<1> USE <1>a DEF TypeOK
<1>1. ASSUME NEW r \in Requests, NEW in \in Inputs, Reserve(r, in) PROVE TypeOK'
  BY <1>1 DEF Reserve, Goto
<1>2. ASSUME NEW r \in Requests, NEW k \in Keys, ReadForRelease(r, k) PROVE TypeOK'
  BY <1>2 DEF ReadForRelease, Goto, Answers
<1>3. ASSUME NEW r \in Requests, NEW k \in Keys, ReadForCommit(r, k) PROVE TypeOK'
  BY <1>3 DEF ReadForCommit, Goto, Answers
<1>4. ASSUME NEW r \in Requests, LockCase(r) PROVE TypeOK'
  BY <1>4 DEF LockCase, Goto
<1>5. ASSUME NEW r \in Requests, BeginExpiry(r) \/ ExpireRow(r) PROVE TypeOK'
  <2>1. PICK ks \in SUBSET Keys : Visit(r, ks)
    <3>1. Due(clock[r]) \in SUBSET Keys /\ todo[r] \ {at[r]} \in SUBSET Keys
      BY DEF Due
    <3> QED BY <1>5, <3>1 DEF BeginExpiry, ExpireRow
  <2>2. expiring' \in [Requests -> SUBSET Keys]
    <3>1. Due(clock[r]) \in SUBSET Keys
      BY DEF Due
    <3> QED BY <1>5, <3>1 DEF BeginExpiry, ExpireRow
  <2>3. at' \in [Requests -> Keys \cup {NoInput}]
    BY <2>1 DEF Visit
  <2> QED BY <2>1, <2>2, <2>3 DEF Visit
<1>6. ASSUME NEW r \in Requests, Look(r) PROVE TypeOK'
  BY <1>6 DEF Look, Goto
<1>7. ASSUME NEW r \in Requests, Decide(r) PROVE TypeOK'
  BY <1>7 DEF Decide, Goto
<1>8. ASSUME NEW r \in Requests, CloseUnchanged(r) PROVE TypeOK'
  <2>1. row' \in [Keys -> Rows \cup {NoRow}] /\ lapsed' \subseteq Keys
    BY <1>8, PublishedRows DEF CloseUnchanged, Recorded
  <2>2. UNCHANGED <<input, clock, now>>
    BY <1>8 DEF CloseUnchanged
  <2>3. caseLock' \in [Cases -> Requests \cup {NoRequest}]
    BY <1>8 DEF CloseUnchanged, EndTransaction, LocksLeft
  <2>4. /\ expiring' \in [Requests -> SUBSET Keys] /\ todo' \in [Requests -> SUBSET Keys]
        /\ at' \in [Requests -> Keys \cup {NoInput}]
    BY <1>8 DEF CloseUnchanged, EndTransaction
  <2>5. \E answer \in Answers : pc' = [pc EXCEPT ![r] = answer]
    BY <1>8 DEF CloseUnchanged, EndTransaction, Answers
  <2> QED BY <2>1, <2>2, <2>3, <2>4, <2>5 DEF Answers
<1>9. ASSUME NEW r \in Requests, Insert(r) PROVE TypeOK'
  <2>1. row' \in [Keys -> Rows \cup {NoRow}]
    BY <1>9, PublishedRows, NewRowType DEF Insert
  <2> QED BY <1>9, <2>1 DEF Insert, EndTransaction, LocksLeft, Recorded, Answers
<1>10. ASSUME NEW r \in Requests, InsertFails(r) \/ Crash(r) PROVE TypeOK'
  BY <1>10 DEF InsertFails, Crash, EndTransaction, LocksLeft, Answers
<1>11. ASSUME NEW r \in Requests, WriteRelease(r) \/ WriteCommit(r) PROVE TypeOK'
  <2>1. row' \in [Keys -> Rows \cup {NoRow}]
    BY <1>11, SettledRows DEF WriteRelease, WriteCommit, Settle
  <2> QED BY <1>11, <2>1
        DEF WriteRelease, WriteCommit, Settle, EndTransaction, LocksLeft, Recorded, Answers
<1>12. CASE Tick
  BY <1>12 DEF Tick
<1>13. CASE UNCHANGED vars
  BY <1>13 DEF vars
<1> QED
  BY <1>1, <1>2, <1>3, <1>4, <1>5, <1>6, <1>7, <1>8, <1>9, <1>10, <1>11, <1>12, <1>13
  DEF Next, Arrive, Proceed

\* A request stays where it is while others move: only its own arrival, statements
\* and crash change where it is, what it asked for and what it expired or read.
OwnStep(r) == Arrive(r) \/ Proceed(r) \/ Crash(r)
At(r) == <<pc[r], input[r], expiring[r], todo[r], at[r], clock[r]>>

LEMMA OthersStandStill ==
    ASSUME Inv, [Next]_vars, NEW r \in Requests, ~OwnStep(r)
    PROVE  At(r)' = At(r)
<1>a. TypeOK
  BY DEF Inv
<1> USE <1>a DEF TypeOK, At
<1>1. ASSUME NEW s \in Requests, s # r, Arrive(s) PROVE At(r)' = At(r)
  BY <1>1 DEF Arrive, Reserve, ReadForRelease, ReadForCommit, Goto
<1>2. ASSUME NEW s \in Requests, s # r,
             LockCase(s) \/ BeginExpiry(s) \/ ExpireRow(s) \/ Look(s) \/ Decide(s)
      PROVE  At(r)' = At(r)
  BY <1>2 DEF LockCase, BeginExpiry, ExpireRow, Visit, Look, Decide, Goto
<1>3. ASSUME NEW s \in Requests, s # r,
             CloseUnchanged(s) \/ Insert(s) \/ InsertFails(s) \/ Crash(s)
      PROVE  At(r)' = At(r)
  BY <1>3 DEF CloseUnchanged, Insert, InsertFails, Crash, EndTransaction
<1>4. ASSUME NEW s \in Requests, s # r, WriteRelease(s) \/ WriteCommit(s)
      PROVE  At(r)' = At(r)
  BY <1>4 DEF WriteRelease, WriteCommit, Settle, EndTransaction
<1>5. CASE Tick \/ UNCHANGED vars
  BY <1>5 DEF Tick, vars
<1> HIDE DEF TypeOK, At
<1> QED BY <1>1, <1>2, <1>3, <1>4, <1>5 DEF Next, Proceed, OwnStep

\* Only Decide promises budget, and only where it fits.
LEMMA GrantingStep ==
    ASSUME Inv, [Next]_vars, NEW r \in Requests, pc'[r] = "granting"
    PROVE  /\ pc[r] = "granting" \/ (Decide(r) /\ ~Exceeds(r))
           /\ input'[r] = input[r] /\ expiring'[r] = expiring[r]
<1>a. TypeOK
  BY DEF Inv
<1>1. CASE ~OwnStep(r)
  BY <1>1, OthersStandStill DEF At
<1>2. CASE Arrive(r)
  BY <1>2, <1>a DEF TypeOK, Arrive, Reserve, ReadForRelease, ReadForCommit, Goto
<1>3. CASE LockCase(r) \/ BeginExpiry(r) \/ ExpireRow(r) \/ Look(r) \/ Decide(r)
  BY <1>3, <1>a DEF TypeOK, LockCase, BeginExpiry, ExpireRow, Visit, Look, Decide, Goto
<1>4. CASE CloseUnchanged(r) \/ Insert(r) \/ InsertFails(r) \/ Crash(r)
  BY <1>4, <1>a DEF TypeOK, CloseUnchanged, Insert, InsertFails, Crash, EndTransaction
<1>5. CASE WriteRelease(r) \/ WriteCommit(r)
  BY <1>5, <1>a DEF TypeOK, WriteRelease, WriteCommit, Settle, EndTransaction
<1> QED BY <1>1, <1>2, <1>3, <1>4, <1>5 DEF OwnStep, Proceed

\* Only Decide refuses, and only where it does not.
LEMMA RefusingStep ==
    ASSUME Inv, [Next]_vars, NEW r \in Requests, pc[r] = "deciding", pc'[r] = "refusing"
    PROVE  Decide(r) /\ Exceeds(r)
<1>a. TypeOK
  BY DEF Inv
<1>1. CASE ~OwnStep(r)
  BY <1>1, OthersStandStill DEF At
<1>2. CASE Arrive(r)
  BY <1>2 DEF Arrive, Reserve, ReadForRelease, ReadForCommit
<1>3. CASE LockCase(r) \/ BeginExpiry(r) \/ ExpireRow(r) \/ Look(r) \/ Decide(r)
  BY <1>3, <1>a DEF TypeOK, LockCase, BeginExpiry, ExpireRow, Visit, Look, Decide, Goto
<1>4. CASE \/ CloseUnchanged(r) \/ Insert(r) \/ InsertFails(r)
           \/ WriteRelease(r) \/ WriteCommit(r)
  BY <1>4 DEF CloseUnchanged, Insert, InsertFails, WriteRelease, WriteCommit, Settle
<1>5. CASE Crash(r)
  BY <1>5, <1>a DEF TypeOK, Crash, EndTransaction
<1> QED BY <1>1, <1>2, <1>3, <1>4, <1>5 DEF OwnStep, Proceed

\* A step adds rows, and never takes one away; a row once held elsewhere than HELD
\* is never held again.
LEMMA RowsPersist ==
    ASSUME Inv, [Next]_vars, NEW k \in Keys, Exists(k)
    PROVE  /\ Exists(k)'
           /\ row'[k] = row[k] \/ row'[k].state \in {"RELEASED", "COMMITTED", "EXPIRED"}
<1>1. ASSUME NEW r \in Requests, CloseUnchanged(r) \/ Insert(r)
      PROVE  /\ Exists(k)'
             /\ row'[k] = row[k] \/ row'[k].state \in {"RELEASED", "COMMITTED", "EXPIRED"}
  BY <1>1, PublishedRows DEF CloseUnchanged, Insert, KeyFree, Exists
<1>2. ASSUME NEW r \in Requests, WriteRelease(r) \/ WriteCommit(r)
      PROVE  /\ Exists(k)'
             /\ row'[k] = row[k] \/ row'[k].state \in {"RELEASED", "COMMITTED", "EXPIRED"}
  BY <1>2, SettledRows DEF WriteRelease, WriteCommit, Settle, Exists
<1>3. CASE row' = row
  BY <1>3 DEF Exists
<1> QED
  BY <1>1, <1>2, <1>3 DEF Next, Arrive, Proceed, Reserve, ReadForRelease, ReadForCommit,
     LockCase, BeginExpiry, ExpireRow, Visit, Look, Decide, InsertFails, Crash, Tick, vars

\* What each step does to the locks and to where requests are: one case per way a
\* transaction begins, goes on or ends.
LEMMA StepInput == Inv /\ [Next]_vars => RequestsHaveInput'
<1> SUFFICES ASSUME Inv, [Next]_vars PROVE RequestsHaveInput'
  OBVIOUS
<1>a. TypeOK /\ RequestsHaveInput
  BY DEF Inv, ControlInv
<1>b. \A k \in Keys : Exists(k) => Exists(k)'
  BY RowsPersist
<1> USE <1>a, <1>b DEF RequestsHaveInput, InTransaction, TypeOK
<1>1. ASSUME NEW r \in Requests, Arrive(r) PROVE RequestsHaveInput'
  BY <1>1 DEF Arrive, Reserve, ReadForRelease, ReadForCommit, Goto, Exists
<1>2. ASSUME NEW r \in Requests,
             LockCase(r) \/ BeginExpiry(r) \/ ExpireRow(r) \/ Look(r) \/ Decide(r)
      PROVE RequestsHaveInput'
  BY <1>2 DEF LockCase, BeginExpiry, ExpireRow, Visit, Look, Decide, Goto
<1>3. ASSUME NEW r \in Requests,
             CloseUnchanged(r) \/ Insert(r) \/ InsertFails(r) \/ Crash(r)
      PROVE RequestsHaveInput'
  BY <1>3 DEF CloseUnchanged, Insert, InsertFails, Crash, EndTransaction
<1>4. ASSUME NEW r \in Requests, WriteRelease(r) \/ WriteCommit(r)
      PROVE RequestsHaveInput'
  BY <1>4 DEF WriteRelease, WriteCommit, Settle, EndTransaction
<1>5. CASE Tick \/ UNCHANGED vars
  BY <1>5 DEF Tick, vars
<1> QED BY <1>1, <1>2, <1>3, <1>4, <1>5 DEF Next, Proceed

LEMMA StepLock == Inv /\ [Next]_vars => LockIsTransaction'
<1> SUFFICES ASSUME Inv, [Next]_vars PROVE LockIsTransaction'
  OBVIOUS
<1>a. TypeOK /\ LockIsTransaction /\ RequestsHaveInput
  BY DEF Inv, ControlInv
<1> USE <1>a, ControlAssumption DEF LockIsTransaction, InTransaction, TypeOK
<1>1. ASSUME NEW r \in Requests, Arrive(r) PROVE LockIsTransaction'
  BY <1>1 DEF Arrive, Reserve, ReadForRelease, ReadForCommit, Goto
<1>2. ASSUME NEW r \in Requests, LockCase(r) PROVE LockIsTransaction'
  <2>1. input[r] \in Inputs /\ input[r].case \in Cases
    BY <1>2 DEF LockCase, RequestsHaveInput, Inputs
  <2> QED BY <1>2, <2>1 DEF LockCase, LockFree, Goto
<1>3. ASSUME NEW r \in Requests, BeginExpiry(r) \/ ExpireRow(r) \/ Look(r) \/ Decide(r)
      PROVE LockIsTransaction'
  BY <1>3 DEF BeginExpiry, ExpireRow, Visit, Look, Decide, Goto
<1>4. ASSUME NEW r \in Requests,
             \/ CloseUnchanged(r) \/ Insert(r) \/ InsertFails(r) \/ Crash(r)
             \/ WriteRelease(r) \/ WriteCommit(r)
      PROVE LockIsTransaction'
  <2>1. \E answer \in Answers : EndTransaction(r, answer)
    BY <1>4 DEF CloseUnchanged, Insert, InsertFails, Crash, WriteRelease, WriteCommit,
       Settle, Answers
  <2>2. input' = input
    BY <1>4 DEF CloseUnchanged, Insert, InsertFails, Crash, WriteRelease, WriteCommit,
       Settle
  <2> QED BY <2>1, <2>2 DEF EndTransaction, LocksLeft, Answers
<1>5. CASE Tick \/ UNCHANGED vars
  BY <1>5 DEF Tick, vars
<1> QED BY <1>1, <1>2, <1>3, <1>4, <1>5 DEF Next, Proceed

LEMMA StepExpiries == Inv /\ [Next]_vars => ExpiriesAreOwned'
<1> SUFFICES ASSUME Inv, [Next]_vars PROVE ExpiriesAreOwned'
  OBVIOUS
<1>a. TypeOK /\ ExpiriesAreOwned
  BY DEF Inv, ControlInv
<1> USE <1>a DEF ExpiriesAreOwned, TypeOK
<1>1. ASSUME NEW r \in Requests, Arrive(r) PROVE ExpiriesAreOwned'
  BY <1>1 DEF Arrive, Reserve, ReadForRelease, ReadForCommit, Goto, InTransaction,
     InState, Exists, Overdue
<1>2. ASSUME NEW r \in Requests, LockCase(r) PROVE ExpiriesAreOwned'
  BY <1>2 DEF LockCase, Goto, InTransaction, InState, Exists, Overdue
<1>3. ASSUME NEW r \in Requests, BeginExpiry(r) PROVE ExpiriesAreOwned'
  BY <1>3 DEF BeginExpiry, Visit, InTransaction, InState, Exists, Overdue
<1>11. ASSUME NEW r \in Requests, ExpireRow(r) PROVE ExpiriesAreOwned'
  <2> DEFINE more == {at[r]} \cap Due(clock[r])
  <2>1. /\ pc[r] = "updating" /\ pc'[r] \in {"updating", "looking"}
        /\ \A s \in Requests \ {r} : pc'[s] = pc[s]
        /\ row' = row /\ clock' = clock /\ now' = now
    BY <1>11 DEF ExpireRow, Visit
  <2>2. expiring' = [expiring EXCEPT ![r] = @ \cup more]
    BY <1>11 DEF ExpireRow
  <2>3. \A k \in more : InState(k, "HELD") /\ Overdue(k, clock[r])
    BY DEF Due
  <2>4. \A s \in Requests : more \cap expiring[s] = {}
    BY <1>11 DEF ExpireRow, RowLocked
  <2> HIDE DEF more
  <2>5. ASSUME NEW s \in Requests
        PROVE  /\ expiring'[s] # {} => InTransaction(s)' /\ pc'[s] # "expiring"
               /\ \A k \in expiring'[s] : InState(k, "HELD")' /\ Overdue(k, clock[s])'
    <3>1. \A k : InState(k, "HELD")' = InState(k, "HELD")
      BY <2>1 DEF InState, Exists
    <3>2. \A k : Overdue(k, clock[s])' = Overdue(k, clock[s])
      BY <2>1 DEF Overdue
    <3>3. CASE s = r
      BY <2>1, <2>2, <2>3, <3>1, <3>2, <3>3 DEF InTransaction
    <3>4. CASE s # r
      BY <2>1, <2>2, <3>1, <3>2, <3>4 DEF InTransaction
    <3> QED BY <3>3, <3>4
  <2>6. ASSUME NEW s \in Requests, NEW q \in Requests \ {s}
        PROVE  expiring'[s] \cap expiring'[q] = {}
    <3>1. expiring[s] \cap expiring[q] = {}
      OBVIOUS
    <3>2. /\ expiring'[s] = IF s = r THEN expiring[s] \cup more ELSE expiring[s]
          /\ expiring'[q] = IF q = r THEN expiring[q] \cup more ELSE expiring[q]
      BY <2>2
    <3> QED BY <2>4, <3>1, <3>2
  <2> QED BY <2>1, <2>5, <2>6
<1>4. ASSUME NEW r \in Requests, Look(r) PROVE ExpiriesAreOwned'
  BY <1>4 DEF Look, Goto, InTransaction, InState, Exists, Overdue
<1>5. ASSUME NEW r \in Requests, Decide(r) PROVE ExpiriesAreOwned'
  <2>1. \A k \in expiring[r] : Overdue(k, now)
    BY RowFields, ControlAssumption DEF Overdue, InState
  <2> QED BY <1>5, <2>1 DEF Decide, Goto, InTransaction, InState, Exists, Overdue
<1>6. ASSUME NEW r \in Requests, CloseUnchanged(r) \/ Insert(r) PROVE ExpiriesAreOwned'
  <2>1. \A s \in Requests \ {r} : \A k \in expiring[s] : row'[k] = row[k]
    BY <1>6, PublishedRows
    DEF CloseUnchanged, Insert, KeyFree, InState
  <2> QED BY <1>6, <2>1 DEF CloseUnchanged, Insert, EndTransaction, InTransaction,
             InState, Exists, Overdue
<1>7. ASSUME NEW r \in Requests, InsertFails(r) \/ Crash(r) PROVE ExpiriesAreOwned'
  BY <1>7 DEF InsertFails, Crash, EndTransaction, InTransaction, InState, Exists, Overdue
<1>8. ASSUME NEW r \in Requests, WriteRelease(r) \/ WriteCommit(r)
      PROVE ExpiriesAreOwned'
  <2>1. \A s \in Requests : \A k \in expiring[s] : row'[k] = row[k]
    BY <1>8, SettledRows DEF WriteRelease, WriteCommit, Settle, RowLocked
  <2>2. expiring[r] = {}
    BY <1>8 DEF WriteRelease, WriteCommit, Settle, InTransaction
  <2> QED BY <1>8, <2>1, <2>2 DEF WriteRelease, WriteCommit, Settle, EndTransaction,
             InTransaction, InState, Exists, Overdue
<1>9. CASE Tick
  BY <1>9 DEF Tick, InTransaction, InState, Exists, Overdue
<1>10. CASE UNCHANGED vars
  BY <1>10 DEF vars, InTransaction, InState, Exists, Overdue
<1> QED
  BY <1>1, <1>2, <1>3, <1>4, <1>5, <1>6, <1>7, <1>8, <1>9, <1>10, <1>11 DEF Next, Proceed

\* Two requests in their transactions work on different cases.
LEMMA OneTransactionPerCase ==
    ASSUME Inv, NEW r \in Requests, NEW s \in Requests, r # s,
           InTransaction(r), InTransaction(s)
    PROVE  input[r].case # input[s].case
<1>1. input[r].case \in Cases
  BY DEF Inv, ControlInv, RequestsHaveInput, Inputs
<1> QED BY <1>1 DEF Inv, ControlInv, LockIsTransaction

LEMMA StepUpdates == Inv /\ [Next]_vars => UpdatesGoOn'
<1> SUFFICES ASSUME Inv, [Next]_vars, NEW r \in Requests, pc'[r] = "updating"
             PROVE  at'[r] \in todo'[r] /\ todo'[r] \cap expiring'[r] = {}
  BY DEF UpdatesGoOn
<1>a. TypeOK /\ UpdatesGoOn /\ ExpiriesAreOwned
  BY DEF Inv, ControlInv
<1>1. CASE ~OwnStep(r)
  BY <1>1, <1>a, OthersStandStill DEF At, UpdatesGoOn
<1>2. CASE Arrive(r)
  BY <1>2, <1>a DEF TypeOK, Arrive, Reserve, ReadForRelease, ReadForCommit, Goto
<1>3. CASE LockCase(r) \/ Look(r) \/ Decide(r)
  BY <1>3, <1>a DEF TypeOK, LockCase, Look, Decide, Goto
<1>4. CASE BeginExpiry(r)
  <2>1. expiring'[r] = {}
    BY <1>4, <1>a DEF BeginExpiry, ExpiriesAreOwned
  <2>2. at'[r] \in todo'[r]
    BY <1>4, <1>a DEF BeginExpiry, Visit, TypeOK
  <2> QED BY <2>1, <2>2
<1>5. CASE ExpireRow(r)
  <2>1. todo[r] \cap expiring[r] = {}
    BY <1>5, <1>a DEF ExpireRow, UpdatesGoOn
  <2>2. expiring'[r] \subseteq expiring[r] \cup {at[r]}
    BY <1>5, <1>a DEF ExpireRow, TypeOK
  <2>3. todo'[r] = todo[r] \ {at[r]} /\ at'[r] \in todo'[r]
    BY <1>5, <1>a DEF ExpireRow, Visit, TypeOK
  <2> QED BY <2>1, <2>2, <2>3
<1>6. CASE \/ CloseUnchanged(r) \/ Insert(r) \/ InsertFails(r) \/ Crash(r)
           \/ WriteRelease(r) \/ WriteCommit(r)
  BY <1>6, <1>a DEF TypeOK, CloseUnchanged, Insert, InsertFails, Crash, WriteRelease,
     WriteCommit, Settle, EndTransaction
<1> QED BY <1>1, <1>2, <1>3, <1>4, <1>5, <1>6 DEF OwnStep, Proceed

LEMMA StepNothingDue == Inv /\ [Next]_vars => NothingDueIsLeft'
<1> SUFFICES ASSUME Inv, [Next]_vars,
                    NEW r \in Requests, pc'[r] \in {"updating", "looking", "deciding"},
                    NEW k \in Keys, InState(k, "HELD")', Overdue(k, clock[r])',
                    row'[k].case = input'[r].case
             PROVE  k \in expiring'[r] \/ (pc'[r] = "updating" /\ k \in todo'[r])
  BY DEF NothingDueIsLeft, Due
<1>a. TypeOK /\ NothingDueIsLeft /\ RequestsHaveInput
  BY DEF Inv, ControlInv
<1>1. CASE BeginExpiry(r) \/ ExpireRow(r)
  <2>1. /\ row' = row /\ clock' = clock /\ input' = input
    BY <1>1 DEF BeginExpiry, ExpireRow, Visit
  <2>2. k \in Due(clock[r]) /\ row[k].case = input[r].case
    BY <2>1 DEF Due, InState, Exists, Overdue
  <2>3. CASE BeginExpiry(r)
    <3>1. todo'[r] = Due(clock[r])
          /\ pc'[r] = IF Due(clock[r]) = {} THEN "looking" ELSE "updating"
      BY <2>3, <1>a DEF BeginExpiry, Visit, TypeOK
    <3> QED BY <2>2, <3>1
  <2>4. CASE ExpireRow(r)
    <3>1. /\ expiring'[r] = expiring[r] \cup ({at[r]} \cap Due(clock[r]))
          /\ todo'[r] = todo[r] \ {at[r]}
          /\ pc'[r] = IF todo[r] \ {at[r]} = {} THEN "looking" ELSE "updating"
      BY <2>4, <1>a DEF ExpireRow, Visit, TypeOK
    <3>2. k \in expiring[r] \/ k \in todo[r]
      BY <2>2, <2>4, <1>a DEF ExpireRow, NothingDueIsLeft
    <3>3. CASE k \in expiring[r] \/ k = at[r]
      BY <2>2, <3>1, <3>3
    <3>4. CASE k \in todo[r] /\ k # at[r]
      <4>1. k \in todo'[r] /\ todo[r] \ {at[r]} # {}
        BY <3>1, <3>4
      <4> QED BY <3>1, <4>1
    <3> QED BY <3>2, <3>3, <3>4
  <2> QED BY <1>1, <2>3, <2>4
<1>2. CASE ~BeginExpiry(r) /\ ~ExpireRow(r)
  <2>1. /\ pc[r] \in {"updating", "looking", "deciding"}
        /\ pc[r] = "updating" => pc'[r] = "updating"
        /\ clock'[r] = clock[r] /\ input'[r] = input[r] /\ expiring'[r] = expiring[r]
        /\ todo'[r] = todo[r]
    <3>1. CASE ~OwnStep(r)
      BY <3>1, OthersStandStill DEF At
    <3>2. CASE Arrive(r)
      BY <3>2, <1>a DEF TypeOK, Arrive, Reserve, ReadForRelease, ReadForCommit, Goto
    <3>3. CASE LockCase(r) \/ Look(r) \/ Decide(r)
      BY <3>3, <1>a DEF TypeOK, LockCase, Look, Decide, Goto
    <3>4. CASE \/ CloseUnchanged(r) \/ Insert(r) \/ InsertFails(r) \/ Crash(r)
               \/ WriteRelease(r) \/ WriteCommit(r)
      BY <3>4, <1>a DEF TypeOK, CloseUnchanged, Insert, InsertFails, Crash,
         WriteRelease, WriteCommit, Settle, EndTransaction, Answers
    <3> QED BY <1>2, <3>1, <3>2, <3>3, <3>4 DEF OwnStep, Proceed
  <2>2. Exists(k)
    <3> SUFFICES ASSUME ~Exists(k) PROVE FALSE
      OBVIOUS
    <3>1. PICK s \in Requests : Insert(s) /\ k = input[s].key
      <4>1. ASSUME NEW s \in Requests, Insert(s) PROVE k = input[s].key
        BY <4>1, PublishedRows DEF Insert, InState, Exists
      <4>2. ASSUME NEW s \in Requests, CloseUnchanged(s) PROVE FALSE
        BY <4>2, PublishedRows DEF CloseUnchanged, InState, Exists
      <4>3. ASSUME NEW s \in Requests, WriteRelease(s) \/ WriteCommit(s) PROVE FALSE
        BY <4>3, SettledRows
        DEF WriteRelease, WriteCommit, Settle, InState, Exists
      <4>4. row' # row
        BY DEF InState, Exists
      <4> QED
        BY <4>1, <4>2, <4>3, <4>4 DEF Next, Arrive, Proceed, Reserve, ReadForRelease,
           ReadForCommit, LockCase, BeginExpiry, ExpireRow, Visit, Look, Decide, InsertFails,
           Crash, Tick, vars
    <3>2. row'[k] = NewRow(s)
      BY <3>1, PublishedRows DEF Insert
    <3>3. input[s].case = input[r].case
      BY <2>1, <3>1, <3>2, NewRowType DEF Insert
    <3>4. s # r
      BY <2>1, <3>1 DEF Insert
    <3> QED
      BY <2>1, <3>1, <3>3, <3>4, OneTransactionPerCase DEF InTransaction, Insert
  <2>3. row'[k] = row[k]
    BY <2>2, RowsPersist DEF InState
  <2>4. k \in Due(clock[r]) /\ row[k].case = input[r].case
    BY <2>1, <2>2, <2>3 DEF Due, InState, Overdue
  <2> QED BY <1>a, <2>1, <2>4 DEF NothingDueIsLeft
<1> QED BY <1>1, <1>2

\* A fresh grant is the insertion of its key's only row.
LEMMA StepGrants == Inv /\ [Next]_vars => GrantsHaveRows' /\ FreshGrantsAreUnique'
<1> SUFFICES ASSUME Inv, [Next]_vars PROVE GrantsHaveRows' /\ FreshGrantsAreUnique'
  OBVIOUS
<1>a. TypeOK /\ RequestsHaveInput /\ GrantsHaveRows /\ FreshGrantsAreUnique
  BY DEF Inv, ControlInv
<1>b. \A r \in Requests : pc[r] = "granted" => input[r].key \in Keys
  BY <1>a DEF RequestsHaveInput, Inputs
<1>1. ASSUME NEW s \in Requests, Insert(s) PROVE GrantsHaveRows' /\ FreshGrantsAreUnique'
  <2>1. /\ \A r \in Requests \ {s} : pc'[r] = pc[r]
        /\ input' = input
        /\ input[s].key \in Keys /\ ~Exists(input[s].key)
    BY <1>1, <1>a DEF Insert, EndTransaction, KeyFree, TypeOK, RequestsHaveInput,
       InTransaction, Inputs
  <2>2. Exists(input[s].key)'
    BY <1>1, <2>1, PublishedRows, NewRowType DEF Insert, Exists
  <2>3. \A r \in Requests \ {s} : pc'[r] = "granted" =>
            /\ input[r].key # input[s].key
            /\ Exists(input[r].key)'
    BY <1>a, <1>b, <2>1, RowsPersist DEF GrantsHaveRows
  <2> QED BY <1>a, <2>1, <2>2, <2>3 DEF GrantsHaveRows, FreshGrantsAreUnique, Exists
<1>2. CASE ~\E s \in Requests : Insert(s)
  <2>1. \A r \in Requests : pc'[r] = "granted" => pc[r] = "granted" /\ input'[r] = input[r]
    <3> DEFINE Kept == \A r \in Requests :
                        pc'[r] = "granted" => pc[r] = "granted" /\ input'[r] = input[r]
    <3>1. ASSUME NEW s \in Requests, Arrive(s) PROVE Kept
      BY <3>1, <1>a DEF TypeOK, Arrive, Reserve, ReadForRelease, ReadForCommit, Goto
    <3>2. ASSUME NEW s \in Requests,
                 LockCase(s) \/ BeginExpiry(s) \/ ExpireRow(s) \/ Look(s) \/ Decide(s)
          PROVE Kept
      BY <3>2, <1>a DEF TypeOK, LockCase, BeginExpiry, ExpireRow, Visit, Look, Decide, Goto
    <3>3. ASSUME NEW s \in Requests,
                 \/ CloseUnchanged(s) \/ InsertFails(s) \/ Crash(s)
                 \/ WriteRelease(s) \/ WriteCommit(s)
          PROVE Kept
      BY <3>3, <1>a DEF TypeOK, CloseUnchanged, InsertFails, Crash, WriteRelease,
         WriteCommit, Settle, EndTransaction
    <3>4. CASE Tick \/ UNCHANGED vars
      BY <3>4 DEF Tick, vars
    <3> QED BY <1>2, <3>1, <3>2, <3>3, <3>4 DEF Next, Proceed
  <2>2. \A r \in Requests : pc'[r] = "granted" => Exists(input[r].key)'
    BY <1>a, <1>b, <2>1, RowsPersist DEF GrantsHaveRows
  <2> QED BY <1>a, <2>1, <2>2 DEF GrantsHaveRows, FreshGrantsAreUnique, Exists
<1> QED BY <1>1, <1>2

\* What a row is about never changes.
LEMMA RowsKeepTerms ==
    ASSUME Inv, [Next]_vars, NEW k \in Keys, Exists(k)
    PROVE  row'[k].case = row[k].case /\ row'[k].amount = row[k].amount
<1> DEFINE Kept == row'[k].case = row[k].case /\ row'[k].amount = row[k].amount
<1>1. \A s \in States :
        /\ [row[k] EXCEPT !.state = s].case = row[k].case
        /\ [row[k] EXCEPT !.state = s].amount = row[k].amount
  BY RowFields DEF Inv, Rows
<1>2. ASSUME NEW r \in Requests, CloseUnchanged(r) \/ Insert(r) PROVE Kept
  <2>1. Published(r)[k].case = row[k].case /\ Published(r)[k].amount = row[k].amount
    BY <1>1 DEF Published, States
  <2>2. Published(r) \in [Keys -> Rows \cup {NoRow}]
    BY PublishedRows
  <2> QED BY <1>2, <2>1, <2>2 DEF CloseUnchanged, Insert, KeyFree
<1>3. ASSUME NEW r \in Requests, NEW s \in States,
             row' = [row EXCEPT ![input[r]].state = s]
      PROVE  Kept
  BY <1>1, <1>3 DEF Inv, TypeOK
<1>4. CASE row' = row
  BY <1>4
<1> QED
  BY <1>2, <1>3, <1>4 DEF Next, Arrive, Proceed, Reserve, ReadForRelease, ReadForCommit,
     LockCase, BeginExpiry, ExpireRow, Visit, Look, Decide, InsertFails, WriteRelease,
     WriteCommit, Settle, Crash, Tick, vars, States

LEMMA StepLapses == Inv /\ [Next]_vars => LapsesAreRecorded'
<1> SUFFICES ASSUME Inv, [Next]_vars PROVE LapsesAreRecorded'
  OBVIOUS
<1>1. LapsesAreRecorded
  BY DEF Inv, ControlInv
<1>2. CASE Recorded
  BY <1>2 DEF Recorded, LapsesAreRecorded, InState, Exists
<1>3. CASE row' = row /\ lapsed' = lapsed
  BY <1>1, <1>3 DEF LapsesAreRecorded, InState, Exists
<1> QED
  BY <1>2, <1>3 DEF Next, Arrive, Proceed, Reserve, ReadForRelease, ReadForCommit,
     LockCase, BeginExpiry, ExpireRow, Visit, Look, Decide, CloseUnchanged, Insert,
     InsertFails, WriteRelease, WriteCommit, Settle, Crash, Tick, vars

\* Nothing but an INSERT adds to what counts against a case without a break.
LEMMA UnbrokenGrowsByInsert ==
    ASSUME Inv, [Next]_vars, NEW c \in Cases, NEW k \in Unbroken(c)'
    PROVE  \/ k \in Unbroken(c) /\ row'[k].amount = row[k].amount
           \/ \E r \in Requests : /\ Insert(r) /\ k = input[r].key
                                 /\ input[r].case = c
                                 /\ row'[k].amount = input[r].amount
<1>1. /\ k \in Keys /\ k \notin lapsed' /\ Exists(k)'
      /\ row'[k].state \in {"HELD", "COMMITTED"} /\ row'[k].case = c
  BY DEF Unbroken, InState
<1>2. k \notin lapsed
  <2>1. CASE Recorded
    BY <1>1, <2>1 DEF Recorded
  <2>2. CASE lapsed' = lapsed
    BY <1>1, <2>2
  <2> QED
    BY <2>1, <2>2 DEF Next, Arrive, Proceed, Reserve, ReadForRelease, ReadForCommit,
       LockCase, BeginExpiry, ExpireRow, Visit, Look, Decide, CloseUnchanged, Insert,
       InsertFails, WriteRelease, WriteCommit, Settle, Crash, Tick, vars
<1>3. CASE Exists(k)
  <2>1. row[k].state \in {"HELD", "COMMITTED"}
    <3>1. row[k].state \in States
      BY <1>1, <1>3, RowFields DEF Inv
    <3>2. LapsesAreRecorded
      BY DEF Inv, ControlInv
    <3> QED BY <1>1, <1>2, <1>3, <3>1, <3>2 DEF LapsesAreRecorded, InState, States
  <2> QED BY <1>1, <1>2, <1>3, <2>1, RowsKeepTerms DEF Unbroken, InState
<1>4. CASE ~Exists(k)
  <2>1. PICK r \in Requests : Insert(r) /\ k = input[r].key
    <3>1. ASSUME NEW r \in Requests, Insert(r) PROVE k = input[r].key
      BY <1>1, <1>4, <3>1, PublishedRows DEF Insert, Exists
    <3>2. ASSUME NEW r \in Requests, CloseUnchanged(r) PROVE FALSE
      BY <1>1, <1>4, <3>2, PublishedRows DEF CloseUnchanged, Exists
    <3>3. ASSUME NEW r \in Requests, WriteRelease(r) \/ WriteCommit(r) PROVE FALSE
      BY <1>1, <1>4, <3>3, SettledRows DEF WriteRelease, WriteCommit, Settle, Exists
    <3>4. row' # row
      BY <1>1, <1>4 DEF Exists
    <3> QED
      BY <3>1, <3>2, <3>3, <3>4 DEF Next, Arrive, Proceed, Reserve, ReadForRelease,
         ReadForCommit, LockCase, BeginExpiry, ExpireRow, Visit, Look, Decide, InsertFails,
         Crash, Tick, vars
  <2>2. row'[k] = NewRow(r)
    BY <1>1, <2>1, PublishedRows DEF Insert
  <2>3. NewRow(r).case = input[r].case /\ NewRow(r).amount = input[r].amount
    BY DEF NewRow
  <2> QED BY <1>1, <2>1, <2>2, <2>3
<1> QED BY <1>3, <1>4

\* Rows that are there have amounts that add up.
LEMMA RowsAddUp ==
    ASSUME Inv, NEW ks \in SUBSET Keys, \A k \in ks : Exists(k)
    PROVE  /\ IsFiniteSet(ks)
           /\ \A k \in ks : [j \in ks |-> row[j].amount][k] \in Nat
           /\ Sum(ks) \in Nat
<1>1. IsFiniteSet(ks)
  BY FS_Subset, ControlAssumption
<1>2. \A k \in ks : [j \in ks |-> row[j].amount][k] \in Nat
  BY RowFields, ControlAssumption DEF Inv, Rows
<1> QED BY <1>1, <1>2, TotalIsNatural DEF Sum

\* Fewer rows, or the same, with the amounts they had: no greater sum.
LEMMA SumShrinks ==
    ASSUME Inv, NEW ks \in SUBSET Keys, \A k \in ks : Exists(k),
           NEW rest \in SUBSET ks, \A k \in rest : row'[k].amount = row[k].amount
    PROVE  /\ Total([k \in rest |-> row'[k].amount], rest) \in Nat
           /\ Total([k \in rest |-> row'[k].amount], rest) <= Sum(ks)
<1> DEFINE amounts == [k \in ks |-> row[k].amount]
           others == [k \in rest |-> row'[k].amount]
<1>1. IsFiniteSet(ks) /\ \A k \in ks : amounts[k] \in Nat
  BY RowsAddUp
<1>2. \A k \in rest : others[k] = amounts[k]
  OBVIOUS
<1>3. Total(others, rest) <= Total(amounts, ks) /\ Total(others, rest) \in Nat
  <2>1. IsFiniteSet(rest) /\ \A k \in rest : others[k] \in Nat
    BY <1>1, <1>2, FS_Subset
  <2> HIDE DEF amounts, others
  <2> QED BY <1>1, <1>2, <2>1, TotalIsMonotone, TotalIsNatural
<1> QED BY <1>3 DEF Sum

\* A step without an INSERT for a case leaves its budget as it was, or frees some.
LEMMA WithoutInsert ==
    ASSUME Inv, [Next]_vars, NEW c \in Cases,
           \A r \in Requests : input[r].case = c => ~Insert(r)
    PROVE  /\ Unbroken(c)' \subseteq Unbroken(c)
           /\ \A k \in Unbroken(c)' : row'[k].amount = row[k].amount
BY UnbrokenGrowsByInsert

LEMMA StepCeiling == Inv /\ [Next]_vars => CeilingHolds'
<1> SUFFICES ASSUME Inv, [Next]_vars, NEW c \in Cases
             PROVE  Sum(Unbroken(c))' <= Authorized
  BY DEF CeilingHolds
<1>1. \A k \in Unbroken(c) : k \in Keys /\ Exists(k)
  BY DEF Unbroken, InState
<1>2. Authorized \in Nat /\ Sum(Unbroken(c)) <= Authorized
  BY ControlAssumption DEF Inv, ControlInv, CeilingHolds
<1>3. Unbroken(c)' \subseteq Keys
  BY DEF Unbroken
<1>4. CASE \A r \in Requests : input[r].case = c => ~Insert(r)
  <2>1. Unbroken(c)' \in SUBSET Unbroken(c)
    BY <1>4, WithoutInsert
  <2>2. Sum(Unbroken(c))' \in Nat /\ Sum(Unbroken(c))' <= Sum(Unbroken(c))
    BY <1>1, <1>4, <2>1, WithoutInsert, SumShrinks DEF Sum
  <2> QED BY <1>1, <1>2, <2>2, RowsAddUp
<1>5. ASSUME NEW r \in Requests, input[r].case = c, Insert(r)
      PROVE  Sum(Unbroken(c))' <= Authorized
  <2> DEFINE rest == Unbroken(c) \ expiring[r]
             own == input[r].key
             before == [k \in rest |-> row[k].amount]
             both == [k \in rest \cup {own} |->
                        IF k = own THEN input[r].amount ELSE row[k].amount]
             after == [k \in Unbroken(c)' |-> row'[k].amount]
  <2>1. own \in Keys /\ input[r].amount \in Nat /\ ~Exists(own)
    BY <1>5, ControlAssumption DEF Inv, ControlInv, RequestsHaveInput, InTransaction,
       Insert, KeyFree, Inputs
  <2>2. \A s \in Requests : Insert(s) => s = r
    BY <1>5 DEF Inv, TypeOK, Insert, EndTransaction
  <2>3. \A k \in Unbroken(c)' : k \in rest \/ k = own
    <3> TAKE k \in Unbroken(c)'
    <3>1. k \in expiring[r] /\ k # own => row'[k].state = "EXPIRED"
      BY <1>3, <1>5, PublishedRows DEF Insert
    <3>2. row'[k].state # "EXPIRED"
      BY DEF Unbroken, InState
    <3> QED BY <3>1, <3>2, <2>2, UnbrokenGrowsByInsert
  <2>4. \A k \in Unbroken(c)' : after[k] = both[k]
    <3> TAKE k \in Unbroken(c)'
    <3>1. CASE k = own
      BY <1>1, <2>1, <2>2, <3>1, UnbrokenGrowsByInsert
    <3>2. CASE k # own
      BY <2>2, <2>3, <3>2, UnbrokenGrowsByInsert
    <3> QED BY <3>1, <3>2
  <2>5. IsFiniteSet(rest) /\ Sum(rest) \in Nat /\ \A k \in rest : before[k] \in Nat
    BY <1>1, RowsAddUp
  <2>6. own \notin rest
    BY <1>1, <2>1
  <2>7. \A k \in rest \cup {own} : both[k] \in Nat
    BY <2>1, <2>5
  <2>8. /\ Total(both, rest \cup {own}) = Total(both, rest) + input[r].amount
        /\ IsFiniteSet(rest \cup {own})
    <3>1. both[own] = input[r].amount
      OBVIOUS
    <3> HIDE DEF both, rest, own
    <3>2. Total(both, rest \cup {own}) = Total(both, rest) + both[own]
      BY <2>5, <2>6, <2>7, TotalOfOneMore
    <3>3. IsFiniteSet(rest \cup {own})
      BY <2>5, FS_AddElement
    <3> QED BY <3>1, <3>2, <3>3
  <2>9. Total(both, rest) <= Sum(rest) /\ Total(both, rest) \in Nat
    <3>1. \A k \in rest : both[k] = before[k]
      BY <2>6
    <3>2. Total(both, rest) <= Total(before, rest) /\ Total(both, rest) \in Nat
      <4> HIDE DEF both, rest, before
      <4> QED BY <2>5, <2>7, <3>1, TotalIsMonotone, TotalIsNatural
    <3> QED BY <3>2 DEF Sum
  <2>10. Total(after, Unbroken(c)') <= Total(both, rest \cup {own})
    <3>1. Unbroken(c)' \subseteq rest \cup {own}
      BY <2>3
    <3> HIDE DEF both, rest, own, after
    <3> QED BY <2>4, <2>7, <2>8, <3>1, TotalIsMonotone
  <2>11. Sum(rest) + input[r].amount <= Authorized
    BY <1>5 DEF Inv, ControlInv, GrantsFit, Insert
  <2>12. IsFiniteSet(Unbroken(c)') /\ Total(after, Unbroken(c)') \in Nat
    <3>1. IsFiniteSet(Unbroken(c)')
      BY <1>3, FS_Subset, ControlAssumption
    <3>2. \A k \in Unbroken(c)' : after[k] \in Nat
      BY <2>3, <2>4, <2>7
    <3> HIDE DEF after
    <3> QED BY <3>1, <3>2, TotalIsNatural
  <2>13. Sum(Unbroken(c))' = Total(after, Unbroken(c)')
    BY DEF Sum
  <2> HIDE DEF both, rest, own, after
  <2> QED BY <1>2, <2>1, <2>5, <2>8, <2>9, <2>10, <2>11, <2>12, <2>13
<1> QED BY <1>4, <1>5

LEMMA StepGrantsFit == Inv /\ [Next]_vars => GrantsFit'
<1> SUFFICES ASSUME Inv, [Next]_vars, NEW r \in Requests, pc'[r] = "granting"
             PROVE  (Sum(Unbroken(input[r].case) \ expiring[r]) + input[r].amount
                        <= Authorized)'
  BY DEF GrantsFit
<1> DEFINE c == input[r].case
           left == (Unbroken(c) \ expiring[r])'
<1>1. pc[r] = "granting" \/ (Decide(r) /\ ~Exceeds(r))
  BY GrantingStep
<1>2. input[r] \in Inputs /\ InTransaction(r)
  BY <1>1 DEF Inv, ControlInv, RequestsHaveInput, InTransaction, Decide
<1>3. c \in Cases /\ input[r].amount \in Nat
  BY <1>2, ControlAssumption DEF Inputs
<1>4. input'[r] = input[r] /\ expiring'[r] = expiring[r]
  BY GrantingStep
<1>5. \A s \in Requests : input[s].case = c => ~Insert(s)
  <2> SUFFICES ASSUME NEW s \in Requests, Insert(s), input[s].case = c PROVE FALSE
    OBVIOUS
  <2>1. pc[s] = "granting" /\ pc'[s] = "granted"
    BY DEF Inv, TypeOK, Insert, EndTransaction
  <2> QED BY <1>2, <2>1, OneTransactionPerCase DEF InTransaction
<1>6. left = Unbroken(c)' \ expiring[r]
  BY <1>4
<1>7. /\ left \subseteq Unbroken(c) \ expiring[r]
      /\ \A k \in left : row'[k].amount = row[k].amount
  BY <1>3, <1>4, <1>5, <1>6, WithoutInsert
<1>8. Sum(Unbroken(c) \ expiring[r])' = Total([k \in left |-> row'[k].amount], left)
  BY DEF Sum
<1>9. CASE pc[r] = "granting"
  <2>1. Sum(Unbroken(c) \ expiring[r]) + input[r].amount <= Authorized
    BY <1>9 DEF Inv, ControlInv, GrantsFit
  <2>2. \A k \in Unbroken(c) \ expiring[r] : k \in Keys /\ Exists(k)
    BY DEF Unbroken, InState
  <2>3. /\ Total([k \in left |-> row'[k].amount], left) \in Nat
        /\ Total([k \in left |-> row'[k].amount], left) <= Sum(Unbroken(c) \ expiring[r])
    <3> HIDE DEF left
    <3> QED BY <1>7, <2>2, SumShrinks
  <2>4. Sum(Unbroken(c) \ expiring[r]) \in Nat
    BY <2>2, RowsAddUp
  <2> QED BY <1>3, <1>4, <1>8, <2>1, <2>3, <2>4, ControlAssumption
<1>10. CASE Decide(r) /\ ~Exceeds(r)
  <2>1. \A k \in Counted(r) : k \in Keys /\ Exists(k)
    BY DEF Counted, InState
  <2>2. Sum(Counted(r)) \in Nat
    BY <2>1, RowsAddUp
  <2>3. Unbroken(c) \ expiring[r] \subseteq Counted(r)
    BY DEF Unbroken, Counted
  <2>4. /\ Total([k \in left |-> row'[k].amount], left) \in Nat
        /\ Total([k \in left |-> row'[k].amount], left) <= Sum(Counted(r))
    <3>1. left \in SUBSET Counted(r) /\ \A k \in left : row'[k].amount = row[k].amount
      BY <1>7, <2>3
    <3> HIDE DEF left
    <3> QED BY <2>1, <3>1, SumShrinks
  <2>5. Sum(Counted(r)) + input[r].amount <= Authorized
    BY <1>3, <1>10, <2>2, ControlAssumption DEF Exceeds
  <2> QED BY <1>3, <1>4, <1>8, <2>2, <2>4, <2>5, ControlAssumption
<1> QED BY <1>1, <1>9, <1>10

\* The inductive invariant holds in every reachable state.
LEMMA Invariance == Spec => []Inv
<1>1. Init => Inv
  BY InitInv
<1>2. Inv /\ [Next]_vars => Inv'
  BY StepType, StepInput, StepLock, StepExpiries, StepUpdates, StepNothingDue, StepGrants,
     StepLapses, StepGrantsFit, StepCeiling
  DEF Inv, ControlInv
<1> QED BY <1>1, <1>2, PTL DEF Spec

-----------------------------------------------------------------------------
(***************************************************************************)
(* The theorems.                                                           *)
(***************************************************************************)
\* Every reachable state has its type: no statement ever settles or expires a row
\* that is not there.
THEOREM TypeCorrect == Spec => []TypeOK
<1>1. Inv => TypeOK
  BY DEF Inv
<1> QED BY <1>1, Invariance, PTL

\* However retries race, an idempotency key is freshly granted to one request only.
THEOREM GrantedOnce == Spec => []FreshGrantsAreUnique
<1>1. Inv => FreshGrantsAreUnique
  BY DEF Inv, ControlInv
<1> QED BY <1>1, Invariance, PTL

\* The ceiling holds for every number of requests, keys, cases and amounts: holds that
\* kept their budget since they were granted fit under it together.
THEOREM CeilingIsKept == Spec => []CeilingHolds
<1>1. Inv => CeilingHolds
  BY DEF Inv, ControlInv
<1> QED BY <1>1, Invariance, PTL

\* A dead agent's hold refuses nobody: the sum a refusal rests on contains no hold
\* whose deadline had passed when the request got its turn.
THEOREM NoRefusalByTheDead == Spec => RefusalsAreEarned
<1> DEFINE Earned ==
        \A r \in Requests :
            pc[r] = "deciding" /\ pc'[r] = "refusing" =>
                Sum(StillDue(r)) + input[r].amount > Authorized
<1>1. Inv /\ [Next]_vars => [Earned]_vars
  <2> SUFFICES ASSUME Inv, [Next]_vars,
                      NEW r \in Requests, pc[r] = "deciding", pc'[r] = "refusing"
               PROVE  Sum(StillDue(r)) + input[r].amount > Authorized
    OBVIOUS
  <2>1. Decide(r) /\ Exceeds(r)
    BY RefusingStep
  <2>2. \A k \in Keys : k \in Counted(r) <=> k \in StillDue(r)
    <3> TAKE k \in Keys
    <3>1. k \in expiring[r] => InState(k, "HELD") /\ Overdue(k, clock[r])
      BY DEF Inv, ControlInv, ExpiriesAreOwned
    <3>2. InState(k, "HELD") /\ Overdue(k, clock[r]) /\ row[k].case = input[r].case
            => k \in expiring[r]
      BY DEF Inv, ControlInv, NothingDueIsLeft, Due
    <3> QED BY <3>1, <3>2 DEF Counted, StillDue, InState
  <2>3. Counted(r) = StillDue(r)
    BY <2>2 DEF Counted, StillDue
  <2> QED BY <2>1, <2>3 DEF Exceeds
<1> QED BY <1>1, Invariance, PTL DEF Spec, RefusalsAreEarned

\* Expiry is never published over a row somebody settled meanwhile, nor before its
\* deadline.
THEOREM ExpiryIsSafe == Spec => OnlyOverdueHoldsExpire
<1> DEFINE Safe ==
        \A k \in Keys :
            Exists(k) /\ ~InState(k, "EXPIRED") /\ row'[k].state = "EXPIRED" =>
                InState(k, "HELD") /\ Overdue(k, now)
<1>1. Inv /\ [Next]_vars => [Safe]_vars
  <2> SUFFICES ASSUME Inv, [Next]_vars, NEW k \in Keys, Exists(k),
                      ~InState(k, "EXPIRED"), row'[k].state = "EXPIRED"
               PROVE  InState(k, "HELD") /\ Overdue(k, now)
    OBVIOUS
  <2>1. PICK r \in Requests : k \in expiring[r]
    <3>1. ASSUME NEW r \in Requests, CloseUnchanged(r) \/ Insert(r)
          PROVE  k \in expiring[r]
      BY <3>1, PublishedRows DEF CloseUnchanged, Insert, KeyFree, InState
    <3>2. ASSUME NEW r \in Requests, WriteRelease(r) \/ WriteCommit(r)
          PROVE  FALSE
      BY <3>2, SettledRows DEF WriteRelease, WriteCommit, Settle, InState
    <3>3. row' # row
      BY DEF InState
    <3> QED
      BY <3>1, <3>2, <3>3 DEF Next, Arrive, Proceed, Reserve, ReadForRelease,
         ReadForCommit, LockCase, BeginExpiry, ExpireRow, Visit, Look, Decide, InsertFails,
         Crash, Tick, vars
  <2>2. InState(k, "HELD") /\ Overdue(k, clock[r]) /\ clock[r] <= now
    BY <2>1 DEF Inv, ControlInv, ExpiriesAreOwned
  <2> QED
    BY <2>2, RowFields, ControlAssumption DEF Inv, TypeOK, Overdue
<1> QED BY <1>1, Invariance, PTL DEF Spec, OnlyOverdueHoldsExpire

-----------------------------------------------------------------------------
(***************************************************************************)
(* Who waits for whom.                                                     *)
(***************************************************************************)
\* Whoever is waited for has locks; and if it waits itself, it is in expire_due.
LEMMA WaitedForExpires ==
    ASSUME Inv, NEW r \in Requests, NEW s \in Requests, WaitsFor(r, s), Waits(s)
    PROVE  /\ InTransaction(s) /\ pc[s] = "updating"
           /\ pc[r] = "locking" \/ expiring[s] # {}
<1>1. InTransaction(s)
  <2>1. CASE pc[r] = "locking" /\ caseLock[input[r].case] = s
    <3>1. input[r].case \in Cases
      BY <2>1 DEF Inv, ControlInv, RequestsHaveInput, Inputs
    <3> QED BY <2>1, <3>1 DEF Inv, ControlInv, LockIsTransaction
  <2>2. CASE expiring[s] # {}
    BY <2>2 DEF Inv, ControlInv, ExpiriesAreOwned
  <2> QED BY <2>1, <2>2 DEF WaitsFor
<1>2. pc[s] = "updating"
  BY <1>1 DEF Waits, WaitsFor, InTransaction
<1>3. pc[r] = "locking" \/ expiring[s] # {}
  BY DEF WaitsFor
<1> QED BY <1>1, <1>2, <1>3

\* An expiry that waits, waits for one of another case.
LEMMA ExpiryWaitsForOther ==
    ASSUME Inv, NEW r \in Requests, NEW s \in Requests, WaitsFor(r, s), pc[r] = "updating"
    PROVE  /\ r # s /\ expiring[s] # {}
           /\ input[r].case # input[s].case
<1>1. at[r] \in expiring[s]
  BY DEF WaitsFor
<1>2. r # s
  BY <1>1 DEF Inv, ControlInv, UpdatesGoOn
<1>3. InTransaction(r) /\ InTransaction(s)
  BY <1>1 DEF Inv, ControlInv, ExpiriesAreOwned, InTransaction
<1> QED BY <1>1, <1>2, <1>3, OneTransactionPerCase

\* Whatever the number of requests and cases: a circle is one of expiries that have expired
\* rows each, so no release, no commit and nobody who waits for an advisory lock is in it.
\* And while requests are underway one of them does not wait, unless two reservations of
\* two cases both wait in expire_due with rows expired; in one case nothing ever deadlocks.
THEOREM DeadlocksAreOfExpiries == Spec => []OnlyExpiriesDeadlock
<1>1. Inv => OnlyExpiriesDeadlock
  <2> SUFFICES ASSUME Inv PROVE OnlyExpiriesDeadlock
    OBVIOUS
  <2>1. ASSUME NEW r \in Requests, InCircle(r) PROVE ExpiresInVain(r)
    <3>1. PICK circle \in SUBSET {s \in Requests : Waits(s)} :
            /\ r \in circle
            /\ \A s \in circle : /\ \E t \in circle : WaitsFor(s, t)
                                 /\ \E t \in circle : WaitsFor(t, s)
      BY <2>1 DEF InCircle
    <3>2. PICK t \in circle : WaitsFor(t, r)
      BY <3>1
    <3>3. PICK u \in circle : WaitsFor(u, t)
      BY <3>1, <3>2
    <3>4. pc[t] = "updating"
      BY <3>1, <3>3, WaitedForExpires
    <3> QED BY <3>1, <3>2, <3>4, WaitedForExpires DEF ExpiresInVain
  <2>2. ASSUME NEW r \in Requests, Underway(r),
               \A s \in Requests : Underway(s) => Waits(s)
        PROVE  \E s, t \in Requests : /\ ExpiresInVain(s) /\ ExpiresInVain(t)
                                      /\ input[s].case # input[t].case
    <3>1. \A s \in Requests : InTransaction(s) => Waits(s)
      BY <2>2 DEF Underway, InTransaction, Answers
    <3>2. \A s, t \in Requests : WaitsFor(s, t) => Waits(t)
      <4> SUFFICES ASSUME NEW s \in Requests, NEW t \in Requests, WaitsFor(s, t)
                   PROVE  InTransaction(t)
        BY <3>1
      <4>1. CASE pc[s] = "locking" /\ caseLock[input[s].case] = t
        <5>1. input[s].case \in Cases
          BY <4>1 DEF Inv, ControlInv, RequestsHaveInput, Inputs
        <5> QED BY <4>1, <5>1 DEF Inv, ControlInv, LockIsTransaction
      <4>2. CASE expiring[t] # {}
        BY <4>2 DEF Inv, ControlInv, ExpiriesAreOwned
      <4> QED BY <4>1, <4>2 DEF WaitsFor
    <3>3. PICK s \in Requests : WaitsFor(r, s)
      BY <2>2 DEF Waits
    <3>4. pc[s] = "updating"
      BY <3>2, <3>3, WaitedForExpires
    <3>5. PICK t \in Requests : WaitsFor(s, t)
      BY <3>2, <3>3 DEF Waits
    <3>6. ExpiresInVain(t)
      BY <3>2, <3>4, <3>5, WaitedForExpires, ExpiryWaitsForOther DEF ExpiresInVain
    <3>7. PICK u \in Requests : WaitsFor(t, u)
      BY <3>6 DEF ExpiresInVain, Waits
    <3>8. ExpiresInVain(u) /\ input[t].case # input[u].case
      BY <3>2, <3>6, <3>7, WaitedForExpires, ExpiryWaitsForOther DEF ExpiresInVain
    <3> QED BY <3>6, <3>8
  <2> QED BY <2>1, <2>2 DEF OnlyExpiriesDeadlock
<1> QED BY <1>1, Invariance, PTL

-----------------------------------------------------------------------------
(***************************************************************************)
(* Reservations implement their promise to clients that ask for one thing  *)
(* at a time under a key and give no ttl.                                  *)
(***************************************************************************)
\* Nothing expires, and what was released is settled.
NothingExpires ==
    /\ \A k \in Keys : Exists(k) =>
            row[k].deadline = NoDeadline /\ row[k].state # "EXPIRED"
    /\ \A k \in lapsed : InState(k, "RELEASED")

\* What a release or commit read of its row still holds when it writes.
ReadsStand ==
    \A r \in Requests :
        /\ pc[r] = "releasing" => InState(input[r], "HELD")
        /\ pc[r] = "committing" => ~InState(input[r], "RELEASED")

Undisturbed == NothingExpires /\ ReadsStand

LEMMA NothingToPublish ==
    ASSUME Inv, NothingExpires, NEW r \in Requests
    PROVE  expiring[r] = {} /\ Published(r) = row
<1>1. expiring[r] = {}
  BY DEF Inv, TypeOK, ControlInv, ExpiriesAreOwned, NothingExpires, InState, Overdue
<1> QED BY <1>1 DEF Published, Inv, TypeOK

\* The only writes: a new row, a released row, a committed row.
LEMMA WhoWrites ==
    ASSUME Inv, NothingExpires, [Next]_vars
    PROVE  \/ row' = row
           \/ \E r \in Requests : Insert(r) \/ WriteRelease(r) \/ WriteCommit(r)
<1>1. ASSUME NEW r \in Requests, CloseUnchanged(r) PROVE row' = row
  BY <1>1, NothingToPublish DEF CloseUnchanged
<1> QED
  BY <1>1 DEF Next, Arrive, Proceed, Reserve, ReadForRelease, ReadForCommit, LockCase,
     BeginExpiry, ExpireRow, Visit, Look, Decide, InsertFails, Crash, Tick, vars

\* An INSERT adds its row to the table.
LEMMA InsertedRow ==
    ASSUME Inv, NothingExpires, NEW r \in Requests, Insert(r)
    PROVE  /\ input[r] \in Inputs /\ input[r].key \in Keys /\ ~Exists(input[r].key)
           /\ row' = [row EXCEPT ![input[r].key] = NewRow(r)]
           /\ NewRow(r) # NoRow
<1>1. pc[r] = "granting" /\ KeyFree(r)
  BY DEF Insert
<1>2. input[r] \in Inputs
  BY <1>1 DEF Inv, ControlInv, RequestsHaveInput, InTransaction
<1>3. Published(r) = row
  BY NothingToPublish
<1> QED BY <1>1, <1>2, <1>3, NewRowType DEF Insert, Inputs, KeyFree

LEMMA StepNothingExpires ==
    ASSUME Ttls = {NoTtl}, Inv, Undisturbed, [Next]_vars
    PROVE  NothingExpires'
<1>a. NothingExpires /\ ReadsStand
  BY DEF Undisturbed
<1>1. /\ \A k \in Keys : Exists(k)' =>
            row'[k].deadline = NoDeadline /\ row'[k].state # "EXPIRED"
      /\ \A k \in lapsed : InState(k, "RELEASED")'
  <2> DEFINE Fine == /\ \A k \in Keys : Exists(k)' =>
                            row'[k].deadline = NoDeadline /\ row'[k].state # "EXPIRED"
                     /\ \A k \in lapsed : InState(k, "RELEASED")'
  <2>1. CASE row' = row
    BY <1>a, <2>1 DEF NothingExpires, InState, Exists
  <2>2. ASSUME NEW r \in Requests, Insert(r) PROVE Fine
    <3>1. NewRow(r).deadline = NoDeadline /\ NewRow(r).state = "HELD"
      BY <1>a, <2>2, InsertedRow DEF NewRow, Inputs
    <3>2. \A k \in Keys : row'[k] = IF k = input[r].key THEN NewRow(r) ELSE row[k]
      BY <1>a, <2>2, InsertedRow DEF Inv, TypeOK
    <3>3. lapsed \subseteq Keys
      BY DEF Inv, TypeOK
    <3>4. ~Exists(input[r].key)
      BY <1>a, <2>2, InsertedRow
    <3> QED BY <1>a, <3>1, <3>2, <3>3, <3>4 DEF NothingExpires, InState, Exists
  <2>3. ASSUME NEW r \in Requests, WriteRelease(r) \/ WriteCommit(r) PROVE Fine
    <3>1. PICK to \in {"RELEASED", "COMMITTED"} :
            /\ row' = [row EXCEPT ![input[r]].state = to]
            /\ to = "COMMITTED" => pc[r] = "committing"
      BY <2>3 DEF WriteRelease, WriteCommit, Settle
    <3>2. pc[r] \in {"releasing", "committing"}
      BY <2>3 DEF WriteRelease, WriteCommit, Settle
    <3>3. /\ input[r] \in Keys /\ Exists(input[r])
          /\ \A k \in Keys : row'[k] = NoRow <=> row[k] = NoRow
          /\ \A k \in Keys : k # input[r] => row'[k] = row[k]
          /\ row'[input[r]].state = to
      BY <3>1, <3>2, SettledRows DEF Inv, ControlInv, RequestsHaveInput
    <3>4. row'[input[r]].deadline = row[input[r]].deadline
      BY <3>1, <3>3, RowFields DEF Inv, TypeOK, Rows
    <3>5. \A k \in lapsed : InState(k, "RELEASED")'
      <4> TAKE k \in lapsed
      <4>1. k \in Keys /\ InState(k, "RELEASED")
        BY <1>a DEF NothingExpires, Inv, TypeOK
      <4>2. CASE k = input[r]
        BY <1>a, <3>1, <3>3, <4>1, <4>2 DEF ReadsStand, InState, Exists
      <4>3. CASE k # input[r]
        BY <3>3, <4>1, <4>3 DEF InState, Exists
      <4> QED BY <4>2, <4>3
    <3> QED BY <1>a, <3>3, <3>4, <3>5 DEF NothingExpires, Exists
  <2> QED BY <1>a, <2>1, <2>2, <2>3, WhoWrites
<1>2. lapsed' = lapsed \/ Recorded
  BY DEF Next, Arrive, Proceed, Reserve, ReadForRelease, ReadForCommit, LockCase,
     BeginExpiry, ExpireRow, Visit, Look, Decide, CloseUnchanged, Insert, InsertFails,
     WriteRelease, WriteCommit, Settle, Crash, Tick, vars
<1>3. \A k \in lapsed' : k \in lapsed \/ InState(k, "RELEASED")'
  BY <1>1, <1>2 DEF Recorded, InState, Exists
<1> QED BY <1>1, <1>3 DEF NothingExpires

\* While a request is underway nobody else writes the row of its key.
LEMMA OwnRowStands ==
    ASSUME Inv, NothingExpires, OneAtATime, [Next]_vars,
           NEW r \in Requests, Underway(r), ~OwnStep(r)
    PROVE  row'[KeyOf(r)] = row[KeyOf(r)]
<1>a. KeyOf(r) \in Keys
  BY DEF Inv, ControlInv, RequestsHaveInput, InTransaction, Inputs, TypeOK, KeyOf,
     Underway, Answers
<1>1. ASSUME NEW s \in Requests, Insert(s) PROVE row'[KeyOf(r)] = row[KeyOf(r)]
  <2>1. s # r /\ pc[s] = "granting"
    BY <1>1 DEF OwnStep, Proceed, Insert
  <2>2. KeyOf(r) # input[s].key
    BY <2>1 DEF OneAtATime, Underway, KeyOf, Answers
  <2> QED BY <1>1, <1>a, <2>2, InsertedRow DEF Inv, TypeOK
<1>2. ASSUME NEW s \in Requests, WriteRelease(s) \/ WriteCommit(s)
      PROVE  row'[KeyOf(r)] = row[KeyOf(r)]
  <2>1. s # r /\ pc[s] \in {"releasing", "committing"}
    BY <1>2 DEF OwnStep, Proceed, WriteRelease, WriteCommit, Settle
  <2>2. KeyOf(r) # input[s]
    BY <2>1 DEF OneAtATime, Underway, KeyOf, Answers
  <2> QED BY <1>2, <1>a, <2>2 DEF WriteRelease, WriteCommit, Settle, Inv, TypeOK
<1> QED BY <1>1, <1>2, WhoWrites

LEMMA StepReadsStand ==
    ASSUME Inv, Undisturbed, OneAtATime, [Next]_vars
    PROVE  ReadsStand'
<1> SUFFICES ASSUME NEW r \in Requests
    PROVE  /\ pc'[r] = "releasing" => InState(input[r], "HELD")'
           /\ pc'[r] = "committing" => ~InState(input[r], "RELEASED")'
  BY DEF ReadsStand
<1>a. TypeOK /\ NothingExpires /\ ReadsStand
  BY DEF Inv, Undisturbed
<1> DEFINE Stands == /\ pc'[r] = "releasing" => InState(input[r], "HELD")'
                     /\ pc'[r] = "committing" => ~InState(input[r], "RELEASED")'
<1>1. CASE ~OwnStep(r)
  <2>1. pc'[r] = pc[r] /\ input'[r] = input[r]
    BY <1>1, OthersStandStill DEF At
  <2>2. Underway(r) => row'[KeyOf(r)] = row[KeyOf(r)]
    BY <1>1, <1>a, OwnRowStands
  <2>3. ASSUME pc[r] \in {"releasing", "committing"} PROVE Stands
    BY <1>a, <2>1, <2>2, <2>3 DEF ReadsStand, Underway, KeyOf, Answers, InState, Exists
  <2> QED BY <2>1, <2>3
<1>2. ASSUME NEW in \in Inputs, Reserve(r, in) PROVE Stands
  BY <1>2, <1>a DEF TypeOK, Reserve, Goto
<1>3. ASSUME NEW k \in Keys, ReadForRelease(r, k) PROVE Stands
  <2>1. Exists(k) => row[k].state \in States \ {"EXPIRED"}
    BY <1>a, RowFields DEF NothingExpires
  <2> QED BY <1>3, <1>a, <2>1
      DEF TypeOK, ReadForRelease, Goto, InState, Exists, States
<1>4. ASSUME NEW k \in Keys, ReadForCommit(r, k) PROVE Stands
  BY <1>4, <1>a DEF TypeOK, ReadForCommit, Goto, InState, Exists
<1>5. CASE LockCase(r) \/ BeginExpiry(r) \/ ExpireRow(r)
  BY <1>5, <1>a DEF TypeOK, LockCase, BeginExpiry, ExpireRow, Visit, Goto
<1>6. CASE Look(r) \/ Decide(r)
  BY <1>6, <1>a DEF TypeOK, Look, Decide, Goto
<1>7. CASE CloseUnchanged(r) \/ Insert(r) \/ InsertFails(r) \/ Crash(r)
  BY <1>7, <1>a DEF TypeOK, CloseUnchanged, Insert, InsertFails, Crash, EndTransaction
<1>8. CASE WriteRelease(r) \/ WriteCommit(r)
  BY <1>8, <1>a DEF TypeOK, WriteRelease, WriteCommit, Settle, EndTransaction
<1> HIDE DEF Stands
<1> QED BY <1>1, <1>2, <1>3, <1>4, <1>5, <1>6, <1>7, <1>8
        DEF OwnStep, Arrive, Proceed, Stands

\* The budget of the promise is the budget of the table: its rows, summed.
Held(c) == {k \in Keys : (InState(k, "HELD") \/ InState(k, "COMMITTED")) /\ row[k].case = c}

LEMMA FitsIsSum ==
    ASSUME Inv, NEW c \in Cases, NEW n
    PROVE  Promise!Fits(c, n) <=> Sum(Held(c)) + n <= Authorized
<1> DEFINE hs == Promise!Budgeted(c)
           ofRow == [k \in Held(c) |-> row[k].amount]
           ofHold == [h \in hs |-> h.amount]
           hold == [k \in Held(c) |-> Hold(k)]
           key == [h \in hs |-> h.key]
<1>1. /\ \A k \in Held(c) : Hold(k) \in hs
      /\ \A h \in hs : h.key \in Held(c) /\ h = Hold(h.key)
  BY DEF Held, Promise!Budgeted, Holds, Hold, InState
<1>2. IsFiniteSet(Held(c)) /\ \A k \in Held(c) : ofRow[k] \in Nat
  BY RowsAddUp DEF Held, InState
<1>3. /\ hold \in [Held(c) -> hs]
      /\ \A x, y \in Held(c) : hold[x] = hold[y] => x = y
      /\ \A k \in Held(c) : ofRow[k] = ofHold[hold[k]]
  BY <1>1 DEF Hold
<1>4. /\ key \in [hs -> Held(c)]
      /\ \A x, y \in hs : key[x] = key[y] => x = y
      /\ \A h \in hs : ofHold[h] = ofRow[key[h]]
  <2>1. \A h \in hs : h.amount = row[h.key].amount
    BY <1>1 DEF Hold
  <2> QED BY <1>1, <2>1
<1>5. IsFiniteSet(hs) /\ \A h \in hs : ofHold[h] \in Nat
  <2>1. hold \in Surjection(Held(c), hs)
    BY <1>1, <1>3 DEF Surjection
  <2> HIDE DEF hs, ofRow, ofHold, hold, key
  <2>2. IsFiniteSet(hs)
    BY <1>2, <2>1, FS_Surjection
  <2> QED BY <1>2, <1>4, <2>2
<1>6. Total(ofHold, hs) = Total(ofRow, Held(c))
  <2> HIDE DEF hs, ofRow, ofHold, hold, key
  <2>1. Total(ofHold, hs) \in Nat /\ Total(ofHold, hs) <= Total(ofRow, Held(c))
    BY <1>2, <1>4, TotalByName
  <2>2. Total(ofRow, Held(c)) \in Nat /\ Total(ofRow, Held(c)) <= Total(ofHold, hs)
    BY <1>3, <1>5, TotalByName
  <2> QED BY <2>1, <2>2
<1>7. Promise!Total(ofHold, hs) = Total(ofHold, hs)
  BY DEF Promise!Total, Promise!UnitsOf, Promise!Cardinality, Total, UnitsOf, Cardinality
<1> QED BY <1>6, <1>7 DEF Promise!Fits, Sum

\* The promise is kept by each step: an INSERT grants, a settling statement settles,
\* and nothing else shows.
LEMMA StepKeepsPromise ==
    ASSUME Ttls = {NoTtl}, Inv, Undisturbed, [Next]_vars
    PROVE  [Promise!ReservationsNext]_Holds
<1>a. NothingExpires /\ ReadsStand /\ TypeOK
  BY DEF Undisturbed, Inv
<1>1. CASE row' = row
  <2>1. Holds' = Holds
    BY <1>1 DEF Holds, Hold, Exists
  <2> QED BY <2>1
<1>2. ASSUME NEW r \in Requests, Insert(r) PROVE Promise!ReservationsNext
  <2>1. PICK k \in Keys, c \in Cases, n \in Amounts :
            /\ k = input[r].key /\ c = input[r].case /\ n = input[r].amount
            /\ ~Exists(k) /\ NewRow(r) # NoRow
            /\ row' = [row EXCEPT ![k] = NewRow(r)]
    BY <1>a, <1>2, InsertedRow DEF Inputs
  <2>2. Promise!IsNew(k)
    BY <2>1 DEF Promise!IsNew, Holds, Hold
  <2>3. Promise!Fits(c, n)
    <3>1. Held(c) = Unbroken(c) \ expiring[r]
      BY <1>a, <2>1, NothingToPublish DEF Held, Unbroken, NothingExpires, InState
    <3>2. Sum(Held(c)) + n <= Authorized
      BY <1>2, <2>1, <3>1 DEF Insert, Inv, ControlInv, GrantsFit
    <3> QED BY <2>1, <3>2, FitsIsSum
  <2>4. Holds' = Holds \cup {Promise!Row(k, c, n, "HELD")}
    <3>1. \A j \in Keys : row'[j] = IF j = k THEN NewRow(r) ELSE row[j]
      BY <1>a, <2>1 DEF TypeOK
    <3>2. Hold(k)' = Promise!Row(k, c, n, "HELD")
      BY <2>1, <3>1 DEF Hold, NewRow, Promise!Row
    <3>3. \A j \in Keys : j # k => Hold(j)' = Hold(j) /\ (Exists(j)' <=> Exists(j))
      BY <3>1 DEF Hold, Exists
    <3>4. Exists(k)'
      BY <2>1, <3>1 DEF Exists
    <3> QED BY <2>1, <3>2, <3>3, <3>4 DEF Holds
  <2> QED BY <2>1, <2>2, <2>3, <2>4 DEF Promise!ReservationsNext, Promise!Take
<1>3. ASSUME NEW r \in Requests, WriteRelease(r) \/ WriteCommit(r)
      PROVE  Promise!ReservationsNext
  <2>1. PICK to \in {"RELEASED", "COMMITTED"}, k \in Keys :
            /\ k = input[r]
            /\ row' = [row EXCEPT ![k].state = to]
            /\ to = "RELEASED" => pc[r] = "releasing"
            /\ to = "COMMITTED" => pc[r] = "committing"
    BY <1>3 DEF WriteRelease, WriteCommit, Settle, Inv, ControlInv, RequestsHaveInput
  <2>2. pc[r] \in {"releasing", "committing"}
    BY <2>1
  <2>3. /\ Exists(k)
        /\ \A j \in Keys : row'[j] = NoRow <=> row[j] = NoRow
        /\ \A j \in Keys : j # k => row'[j] = row[j]
    BY <2>1, <2>2, SettledRows DEF Inv, ControlInv, RequestsHaveInput
  <2>4. Hold(k)' = [Hold(k) EXCEPT !.state = to]
    BY <1>a, <2>1, <2>3, RowFields DEF TypeOK, Rows, Hold
  <2>5. \A j \in Keys : (Exists(j)' <=> Exists(j)) /\ (j # k => Hold(j)' = Hold(j))
    BY <2>3 DEF Hold, Exists
  <2>6. Hold(k) \in Holds /\ \A j \in Keys : Hold(j) = Hold(k) => j = k
    BY <2>3 DEF Holds, Hold
  <2>7. Holds' = (Holds \ {Hold(k)}) \cup {[Hold(k) EXCEPT !.state = to]}
    BY <2>3, <2>4, <2>5, <2>6 DEF Holds
  <2>8. Promise!Settle(Hold(k), to)
    BY <2>7 DEF Promise!Settle
  <2>9. /\ to = "RELEASED" => Hold(k).state = "HELD"
        /\ to = "COMMITTED" => Hold(k).state # "RELEASED"
    BY <1>a, <2>1, <2>3 DEF ReadsStand, InState, Hold
  <2>10. Promise!Release(Hold(k)) \/ Promise!Commit(Hold(k))
    BY <2>8, <2>9 DEF Promise!Release, Promise!Commit
  <2> QED BY <2>6, <2>10 DEF Promise!ReservationsNext
<1> QED BY <1>a, <1>1, <1>2, <1>3, WhoWrites

LEMMA AlwaysUndisturbed ==
    ASSUME Ttls = {NoTtl}
    PROVE  Spec /\ []OneAtATime => []Undisturbed
<1>1. Init => Undisturbed
  BY DEF Init, Undisturbed, NothingExpires, ReadsStand, Exists
<1>2. Inv /\ Undisturbed /\ OneAtATime /\ [Next]_vars => Undisturbed'
  BY StepNothingExpires, StepReadsStand DEF Undisturbed
<1> QED BY <1>1, <1>2, Invariance, PTL DEF Spec

\* For agents as agents/ writes them, one thing at a time under each key and no ttl,
\* the many statements, locks, retries and crashes of reserve, release and commit
\* amount to a table of reservations changed in single steps.
THEOREM ReserveIsAtomic ==
    ASSUME Ttls = {NoTtl}
    PROVE  Spec /\ []OneAtATime => ImplementsReservations
<1>1. Init => Promise!ReservationsInit
  BY DEF Init, Promise!ReservationsInit, Holds, Exists
<1>2. Inv /\ Undisturbed /\ [Next]_vars => [Promise!ReservationsNext]_Holds
  BY StepKeepsPromise
<1> QED BY <1>1, <1>2, Invariance, AlwaysUndisturbed, PTL
        DEF Spec, ImplementsReservations, Promise!ReservationsSpec

-----------------------------------------------------------------------------
(***************************************************************************)
(* The other half of the promise: refusals.  Whether holds lapse does not  *)
(* matter to it.                                                           *)
(***************************************************************************)
\* Until it has inserted its row, a reservation under a new key has the key to itself.
NewKeysAreFree == \A r \in Requests : pc[r] \in {"deciding", "granting"} => KeyFree(r)

LEMMA OnlyInsertsAddRows ==
    ASSUME Inv, [Next]_vars, NEW k \in Keys, ~Exists(k), Exists(k)'
    PROVE  \E s \in Requests : Insert(s) /\ input[s].key = k
<1>a. TypeOK
  BY DEF Inv
<1>1. \A s \in Requests : k \notin expiring[s]
  BY DEF Inv, ControlInv, ExpiriesAreOwned, InState
<1>2. ASSUME NEW s \in Requests PROVE ~CloseUnchanged(s)
  BY <1>1 DEF CloseUnchanged, Published, Exists
<1>3. ASSUME NEW s \in Requests, Insert(s) PROVE input[s].key = k
  <2>1. Published(s)[k] = NoRow
    BY <1>1 DEF Published, Exists
  <2>2. input[s].key # k => row'[k] = Published(s)[k]
    BY <1>3 DEF Insert, Published
  <2> QED BY <2>1, <2>2 DEF Exists
<1>4. ASSUME NEW s \in Requests PROVE ~WriteRelease(s) /\ ~WriteCommit(s)
  <2>1. SUFFICES ASSUME WriteRelease(s) \/ WriteCommit(s) PROVE FALSE
    OBVIOUS
  <2>2. PICK to \in {"RELEASED", "COMMITTED"} :
            /\ pc[s] \in {"releasing", "committing"}
            /\ row' = [row EXCEPT ![input[s]].state = to]
    BY <2>1 DEF WriteRelease, WriteCommit, Settle
  <2> QED BY <2>2, SettledRows DEF Exists
<1>5. row' # row
  BY DEF Exists
<1> QED
  BY <1>2, <1>3, <1>4, <1>5
  DEF Next, Arrive, Proceed, Reserve, ReadForRelease, ReadForCommit, LockCase,
      BeginExpiry, ExpireRow, Visit, Look, Decide, InsertFails, Crash, Tick, vars

LEMMA StepKeepsNewKeysFree ==
    ASSUME Inv, NewKeysAreFree, OneAtATime, [Next]_vars
    PROVE  NewKeysAreFree'
<1> SUFFICES ASSUME NEW r \in Requests, pc'[r] \in {"deciding", "granting"}
             PROVE  ~Exists(input[r].key)'
  BY DEF NewKeysAreFree, KeyFree
<1>a. TypeOK
  BY DEF Inv
<1>1. CASE ~OwnStep(r)
  <2>1. pc'[r] = pc[r] /\ input'[r] = input[r]
    BY <1>1, OthersStandStill DEF At
  <2>2. pc[r] \in {"deciding", "granting"} /\ ~Exists(input[r].key)
    BY <2>1 DEF NewKeysAreFree, KeyFree
  <2>3. input[r].key \in Keys
    BY <2>2 DEF Inv, ControlInv, RequestsHaveInput, InTransaction, Inputs
  <2>4. ASSUME NEW s \in Requests, Insert(s) PROVE input[s].key # input[r].key
    <3>1. s # r /\ pc[s] = "granting"
      BY <1>1, <2>4 DEF OwnStep, Proceed, Insert
    <3> QED BY <2>2, <3>1 DEF OneAtATime, Underway, KeyOf, Answers
  <2>5. row'[input[r].key] = NoRow
    BY <2>2, <2>3, <2>4, OnlyInsertsAddRows DEF Exists
  <2> QED BY <2>1, <2>5 DEF Exists
<1>2. CASE Look(r) \/ Decide(r)
  BY <1>2, <1>a DEF TypeOK, Look, Decide, Goto, NewKeysAreFree, KeyFree, Exists
<1>3. CASE Arrive(r)
  BY <1>3, <1>a DEF TypeOK, Arrive, Reserve, ReadForRelease, ReadForCommit, Goto
<1>4. CASE LockCase(r) \/ BeginExpiry(r) \/ ExpireRow(r)
  BY <1>4, <1>a DEF TypeOK, LockCase, BeginExpiry, ExpireRow, Visit, Goto
<1>5. CASE CloseUnchanged(r) \/ Insert(r) \/ InsertFails(r) \/ Crash(r)
  BY <1>5, <1>a DEF TypeOK, CloseUnchanged, Insert, InsertFails, Crash, EndTransaction
<1>6. CASE WriteRelease(r) \/ WriteCommit(r)
  BY <1>6, <1>a DEF TypeOK, WriteRelease, WriteCommit, Settle, EndTransaction
<1> QED BY <1>1, <1>2, <1>3, <1>4, <1>5, <1>6 DEF OwnStep, Proceed

\* Who asks for one thing at a time under a key is refused only what the table, at that
\* moment, has no budget for, and never under a key that has its row already.
THEOREM RefusalsAreDue == Spec /\ []OneAtATime => RefusalsAreExact
<1> DEFINE Exact ==
        \A r \in Requests :
            pc[r] = "deciding" /\ pc'[r] = "refusing" =>
                /\ Promise!IsNew(input[r].key)
                /\ ~Promise!Fits(input[r].case, input[r].amount)
<1>1. Init => NewKeysAreFree
  BY DEF Init, NewKeysAreFree
<1>2. Inv /\ NewKeysAreFree /\ OneAtATime /\ [Next]_vars => NewKeysAreFree'
  BY StepKeepsNewKeysFree
<1>3. Inv /\ NewKeysAreFree /\ [Next]_vars => [Exact]_vars
  <2> SUFFICES ASSUME Inv, NewKeysAreFree, [Next]_vars,
                      NEW r \in Requests, pc[r] = "deciding", pc'[r] = "refusing"
               PROVE  /\ Promise!IsNew(input[r].key)
                      /\ ~Promise!Fits(input[r].case, input[r].amount)
    OBVIOUS
  <2>1. Decide(r) /\ Exceeds(r)
    BY RefusingStep
  <2>2. input[r] \in Inputs
    BY DEF Inv, ControlInv, RequestsHaveInput, InTransaction
  <2>3. ~Exists(input[r].key)
    BY DEF NewKeysAreFree, KeyFree
  <2>4. Counted(r) \subseteq Held(input[r].case)
    BY DEF Counted, Held
  <2>5. /\ Sum(Counted(r)) \in Nat /\ Sum(Held(input[r].case)) \in Nat
        /\ Sum(Counted(r)) <= Sum(Held(input[r].case))
    <3>1. Held(input[r].case) \subseteq Keys /\ \A k \in Held(input[r].case) : Exists(k)
      BY DEF Held, InState
    <3> HIDE DEF Held
    <3>2. Sum(Counted(r)) <= Sum(Held(input[r].case))
      BY <2>4, <3>1, RowsAddUp, TotalIsMonotone DEF Sum
    <3> QED BY <2>4, <3>1, <3>2, RowsAddUp
  <2>6. ~Promise!Fits(input[r].case, input[r].amount)
    <3>1. input[r].case \in Cases /\ input[r].amount \in Nat
      BY <2>2, ControlAssumption DEF Inputs
    <3> QED BY <2>1, <2>5, <3>1, FitsIsSum, ControlAssumption DEF Exceeds
  <2> QED BY <2>3, <2>6 DEF Promise!IsNew, Holds, Hold
<1> QED BY <1>1, <1>2, <1>3, Invariance, PTL DEF Spec, RefusalsAreExact
=============================================================================
