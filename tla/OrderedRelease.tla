--------------------------- MODULE OrderedRelease ---------------------------
(***************************************************************************)
(* What the deterministic barrier promises its callers, without threads,   *)
(* locks, events, leases or timeouts: arrivals are released one at a time, *)
(* in exactly the declared order, each one only after it arrived; once the *)
(* run has failed nothing more is released; and nobody resumes without     *)
(* having been released.                                                   *)
(***************************************************************************)
EXTENDS Integers, Sequences

CONSTANT Order      \* the keys of the run, in the order they must be released

VARIABLES
    arrived,    \* declared keys that have arrived
    released,   \* the order in which keys were released
    failed,     \* the run was aborted
    resumed     \* keys whose caller was told to go on

absVars == <<arrived, released, failed, resumed>>

AbsInit ==
    /\ arrived = {}
    /\ released = <<>>
    /\ failed = FALSE
    /\ resumed = {}

Keys == {Order[i] : i \in 1..Len(Order)}

\* The only key that may be released now.
NextInOrder(k) ==
    /\ Len(released) < Len(Order)
    /\ k = Order[Len(released) + 1]

\* A key arrives; the one the schedule waits for is released on arrival.
AbsArrive(k) ==
    /\ ~failed
    /\ k \in Keys \ arrived
    /\ arrived' = arrived \cup {k}
    /\ released' = IF NextInOrder(k) THEN Append(released, k) ELSE released
    /\ UNCHANGED <<failed, resumed>>

\* A key that arrived early is released when its turn comes.
AbsRelease(k) ==
    /\ ~failed
    /\ k \in arrived
    /\ NextInOrder(k)
    /\ released' = Append(released, k)
    /\ UNCHANGED <<arrived, failed, resumed>>

AbsFail ==
    /\ failed' = TRUE
    /\ UNCHANGED <<arrived, released, resumed>>

AbsResume(k) ==
    /\ \E i \in 1..Len(released) : released[i] = k
    /\ resumed' = resumed \cup {k}
    /\ UNCHANGED <<arrived, released, failed>>

AbsNext ==
    \/ AbsFail
    \/ \E k \in Keys : AbsArrive(k) \/ AbsRelease(k) \/ AbsResume(k)

AbsSpec == AbsInit /\ [][AbsNext]_absVars
=============================================================================
