------------------------------ MODULE MCLabRun ------------------------------
(***************************************************************************)
(* The instances of LabRun that TLC checks: schedules/*.yaml, and arms of  *)
(* two agents that nothing orders on top of services that may fail at      *)
(* every request.  Amounts are hundreds of dollars.                        *)
(***************************************************************************)
EXTENDS LabRun, TLC

CONSTANTS A, B, C, P, Q, R, billing, ledger, case1

MCServiceOrder == <<billing, ledger>>
MCCheckpointAt ==
    (billing :> [inserting |-> "billing.after_read_before_decide",
                 answering |-> "billing.after_commit_before_ack"]) @@
    (ledger :> [inserting |-> "ledger.after_read_before_decide",
                answering |-> "ledger.after_commit_before_ack"])

Diligent(target, amount) ==
    [policy |-> "diligent", target |-> target, amount |-> amount, approved |-> TRUE,
     retry |-> FALSE, abandon |-> FALSE]
Refund(amount) == Diligent(billing, amount)
Credit(amount) == Diligent(ledger, amount)
Retrying(c) == [c EXCEPT !.retry = TRUE]
Abandoning(c) == [c EXCEPT !.abandon = TRUE]
Unapproved(c) == [c EXCEPT !.approved = FALSE]
Modelled(c) == [c EXCEPT !.policy = "llm"]
And(a, b) == (A :> a) @@ (B :> b)

\* The agents, use_reservations and use_projection.
Given(config, reservations, crm) ==
    [config |-> config, reservations |-> reservations, crm |-> crm, enforced |-> TRUE]

-----------------------------------------------------------------------------
\* The steps of an actor.
Reads(a) == << <<a, "agent.before_reads">>, <<a, "agent.after_reads_before_act">> >>
Reserves(a) == << <<a, "agent.before_reserve">> >>
Writes(a, s) ==
    << <<a, MCCheckpointAt[s].inserting>>, <<a, MCCheckpointAt[s].answering>> >>
Applies(p) == << <<p, "crm.before_apply_event">> >>
CatchesUp(p) == << <<p, "crm.before_poll">> >> \o Applies(p)

\* A and B both read before either of them acts.
BothRead == << Reads(A)[1], Reads(B)[1], Reads(B)[2], Reads(A)[2] >>

Run(id, given, actors, steps, expect) ==
    [id |-> id, experiment |-> given, actors |-> actors, steps |-> steps, expect |-> expect,
     ordered |-> TRUE, faulty |-> FALSE, faults |-> {}, order |-> MCServiceOrder,
     pinned |-> FALSE, raises |-> {}, sees |-> <<>>]
Pinned(s, sees) == [s EXCEPT !.pinned = TRUE, !.sees = sees]

P0 == Pinned(Run("P0", Given(And(Refund(6), Credit(5)), TRUE, FALSE), <<A, B>>,
        BothRead \o Reserves(A) \o Writes(A, billing) \o Reserves(B), 6), (A :> 0) @@ (B :> 0))
P1 == Pinned(Run("P1", Given(And(Refund(6), Credit(3)), FALSE, FALSE), <<A, B>>,
        Reads(A) \o Writes(A, billing) \o Reads(B) \o Writes(B, ledger), 9), B :> 6)
P2 == Pinned(Run("P2", Given(And(Refund(6), Credit(5)), FALSE, FALSE), <<A, B>>,
        BothRead \o Writes(A, billing) \o Writes(B, ledger), 11), (A :> 0) @@ (B :> 0))
P3 == Pinned([Run("P3", Given(A :> Retrying(Refund(6)), FALSE, FALSE), <<A>>,
        Reads(A) \o Writes(A, billing) \o << Writes(A, billing)[1] >>, 6)
            EXCEPT !.faults = {<<Writes(A, billing)[2], 0>>}], A :> 0)
S1 == Pinned(Run("S1", Given(And(Refund(6), Credit(5)), FALSE, TRUE), <<A, B, P>>,
        Reads(A) \o Writes(A, billing) \o Reads(B) \o Writes(B, ledger)
            \o CatchesUp(P) \o Applies(P), 11), B :> 0)
S1C == Run("S1C", Given(And(Refund(6), Credit(5)), FALSE, TRUE), <<A, B, P>>,
        Reads(A) \o Writes(A, billing) \o CatchesUp(P) \o Reads(B), 6)
S1H == Pinned(Run("S1H", Given(And(Refund(6), Credit(5)), TRUE, TRUE), <<A, B, P>>,
        Reads(A) \o Reserves(A) \o Writes(A, billing) \o Reads(B) \o Reserves(B)
            \o CatchesUp(P), 6), B :> 0)
S3 == [Run("S3", Given(And(Refund(4), Credit(3)) @@ (C :> Credit(4)), FALSE, TRUE),
        <<A, B, C, P>>,
        Reads(A) \o Writes(A, billing) \o Reads(B) \o Writes(B, ledger) \o CatchesUp(P)
            \o Reads(C) \o Writes(C, ledger) \o Applies(P) \o Applies(P), 11)
                EXCEPT !.sees = C :> 4]
S4 == [S1C EXCEPT !.id = "S4", !.order = <<ledger, billing>>]
S5 == Run("S5", Given(A :> Refund(6), FALSE, TRUE), <<A, P, R, Q>>,
        Reads(A) \o Writes(A, billing) \o CatchesUp(P) \o CatchesUp(Q), 6)
S6 == Pinned([Run("S6", Given(And(Unapproved(Refund(6)), Unapproved(Credit(6))), FALSE, FALSE),
        <<A, B>>, Reads(A) \o Reads(B), 0) EXCEPT !.raises = {A, B}], (A :> 0) @@ (B :> 0))
S8 == Run("S8", Given(And(Abandoning(Refund(6)), Credit(5)), TRUE, FALSE), <<A, B>>,
        Reads(A) \o Reserves(A) \o Reads(B) \o Reserves(B), 0)

-----------------------------------------------------------------------------
\* Agents that nothing orders; the services of an arm of models enforce nothing.
Unordered(id, given) ==
    [Run(id, given, <<A, B>>, <<>>, 0) EXCEPT !.ordered = FALSE, !.faulty = TRUE]
Unenforced(given) == [given EXCEPT !.enforced = FALSE]

Arms ==
    { Unordered("natural", Unenforced(Given(And(Refund(6), Credit(5)), FALSE, FALSE))),
      Unordered("reserving", Given(And(Retrying(Refund(6)), Credit(5)), TRUE, FALSE)),
      Unordered("refused",
          Given(And(Abandoning(Refund(6)), Unapproved(Credit(6))), TRUE, FALSE)),
      Unordered("models", Unenforced(Given(And(Modelled(Refund(6)), Modelled(Credit(5))),
          FALSE, FALSE))),
      Unordered("model reserving", Unenforced(Given(And(Modelled(Refund(6)), Credit(5)),
          TRUE, FALSE))) }

MCReplies ==
    {<<>>} \cup {<<t>> : t \in Tools} \cup
    {<<"reserve_budget", "issue">>, <<"decline", "issue">>, <<"issue", "decline">>,
     <<"decline", "reserve_budget">>, <<"issue", "issue">>}

MCSchedules == {P0, P1, P2, P3, S1, S1C, S1H, S3, S4, S5, S6, S8} \cup Arms
OnlyS3 == {S3}
MCExperiments == {s.experiment : s \in MCSchedules}
=============================================================================
