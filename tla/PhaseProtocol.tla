----------------------------- MODULE PhaseProtocol -----------------------------
(***************************************************************************)
(* What an architecture plan promises about its two phases, whoever keeps   *)
(* it and however: work on a phase is reported complete, a review of work   *)
(* so reported approves it or sends it back, and phase B goes on only while *)
(* phase A is approved.  Anyone may reopen a phase, start the plan afresh   *)
(* or lose it.                                                              *)
(***************************************************************************)
CONSTANT None           \* there is no plan

VARIABLE phases         \* the status of each phase, or None

PhaseIds == {"phaseA", "phaseB"}

InTurn(phase) == phase = "phaseB" => phases["phaseA"] = "review_approved"

Becomes(phase, status) == phases' = [phases EXCEPT ![phase] = status]

Complete(phase) ==
    /\ InTurn(phase)
    /\ phases[phase] /= "review_approved"
    /\ Becomes(phase, "coder_completed")

Review(phase) ==
    /\ InTurn(phase)
    /\ phases[phase] = "coder_completed"
    /\ Becomes(phase, "review_approved") \/ Becomes(phase, "changes_requested")

Reopen(phase) == Becomes(phase, "not_started") \/ Becomes(phase, "changes_requested")

Fresh == phases' = [phase \in PhaseIds |-> "not_started"]

Lose == phases' = None

Next ==
    \/ Fresh
    \/ Lose
    \/ /\ phases /= None
       /\ \E phase \in PhaseIds : Complete(phase) \/ Review(phase) \/ Reopen(phase)

===============================================================================
