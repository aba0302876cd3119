----------------------------- MODULE MCControl -----------------------------
(***************************************************************************)
(* The instances of Control that TLC checks.                               *)
(***************************************************************************)
EXTENDS Control, TLC

CONSTANTS r1, r2, r3, r4, kA, kB, cA, cB

MCSymmetry == Permutations(Requests) \cup Permutations(Keys) \cup Permutations(Cases)

\* Two cases may have a hold each from earlier requests, to lapse before long.
MCTwoHolds ==
    /\ row = [k \in Keys |-> [case |-> IF k = kA THEN cA ELSE cB, amount |-> 1,
                              state |-> "HELD", deadline |-> 1]]
    /\ caseLock = [c \in Cases |-> NoRequest]
    /\ expiring = [r \in Requests |-> {}]
    /\ todo = [r \in Requests |-> {}]
    /\ at = [r \in Requests |-> NoInput]
    /\ pc = [r \in Requests |-> "idle"]
    /\ input = [r \in Requests |-> NoInput]
    /\ clock = [r \in Requests |-> 0]
    /\ now = 0
    /\ lapsed = {}

\* The requests are alike, so they may as well arrive in the order of their names, and the
\* first one may speak of the first key, and of the first case if there is no row yet.  A
\* replay asks in vain, whatever ttl it names.
InOrder ==
    /\ pc[r2] # "idle" => pc[r1] # "idle"
    /\ pc[r3] # "idle" => pc[r2] # "idle"
    /\ pc[r1] # "idle" => input[r1] \in {kA} \cup {in \in Inputs : in.key = kA}
Arrivals ==
    \A r \in Requests : pc[r] = "idle" /\ pc'[r] = "locking" =>
        IF Exists(input'[r].key) THEN input'[r].ttl = NoTtl
                                 ELSE r = r1 => input'[r].case = cA

MCFairSpec ==
    /\ Init \/ MCTwoHolds
    /\ [][Next /\ InOrder' /\ Arrivals]_vars
    /\ \A r \in Requests : WF_vars(Proceed(r))
    /\ WF_vars(\E r \in Requests : DeadlockVictim(r))

\* The clients in agents/: one thing at a time under each key.
MCOneAtATimeSpec == Init /\ [][Next /\ OneAtATime']_vars
=============================================================================
