---------------------------- MODULE ShipSupervisor ----------------------------
(***************************************************************************)
(* One AFK run driven the way buildAfkShipKickoff (prompt.ts) and README.md *)
(* tell the session to drive it: the event it sends is the one the durable  *)
(* state asks for (nextAction, and the stage), and it stops when the run is *)
(* delivered or blocked.  The coder, the reviewer and the quality audit     *)
(* answer what they like.                                                   *)
(*                                                                          *)
(* ShipEngine says what the engine does whatever it is sent; this module,   *)
(* what the loop it was built for achieves with it.                         *)
(***************************************************************************)
EXTENDS ShipEngine

VARIABLE changeReviewed   \* history: a verdict came after the last change

vars == <<run, changeReviewed>>

InitSupervised == Init /\ changeReviewed = FALSE

Running == run.stage \notin {"delivery_complete", "blocked"}

\* The next action on the state, before a first event has set one.
AskedFor(action) ==
    /\ Running
    /\ \/ run.nextAction = action
       \/ run.nextAction = Unset /\ run.lane # "debug" /\ action = "implement"

-------------------------------------------------------------------------------

\* The debug lane: diagnose, then leave it by one of the two selections.
DiagnoseFirst ==
    /\ Running /\ run.lane = "debug" /\ ~run.diagnosed
    /\ Diagnose(run, run')
    /\ UNCHANGED changeReviewed

LeaveDebugLane ==
    /\ Running /\ run.lane = "debug" /\ run.diagnosed
    /\ SelectNextLane(run, run') \/ SelectReportOnly(run, run')
    /\ UNCHANGED changeReviewed

Implement ==
    /\ AskedFor("implement") /\ run.stage = "created"
    /\ ImplementStarted(run, run')
    /\ UNCHANGED changeReviewed

Code ==
    /\ AskedFor("implement") /\ run.stage = "implementing"
    /\ CoderCompleted(run, run')
    /\ changeReviewed' = FALSE

Review ==
    /\ AskedFor("review")
    /\ ReviewerApproved(run, run') \/ ReviewerChangesRequested(run, run')
    /\ changeReviewed' = TRUE

\* The reviewer-free path of a text hotfix may bring its evidence instead.
BringEvidence ==
    /\ AskedFor("review")
    /\ EvidenceCollected(run, run')
    /\ UNCHANGED changeReviewed

Fix ==
    /\ AskedFor("fix")
    /\ FocusedFixCompleted(run, run')
    /\ changeReviewed' = FALSE

Finalize ==
    /\ AskedFor("finalize")
    /\ FinalizationRecorded(run, run')
    /\ UNCHANGED changeReviewed

\* A start may name report-only as the selection of a run that is no debug run.
ReportOnly ==
    /\ AskedFor("report-only") /\ run.lane # "debug"
    /\ SelectReportOnly(run, run')
    /\ UNCHANGED changeReviewed

NextSupervised ==
    \/ DiagnoseFirst
    \/ LeaveDebugLane
    \/ Implement
    \/ Code
    \/ Review
    \/ BringEvidence
    \/ Fix
    \/ Finalize
    \/ ReportOnly

\* The supervising session keeps sending the event that is asked for, and the
\* coder and the reviewer it delegates to come back; nothing makes it collect
\* evidence while a review is pending.
Fairness ==
    /\ WF_vars(DiagnoseFirst) /\ WF_vars(LeaveDebugLane)
    /\ WF_vars(Implement) /\ WF_vars(Code) /\ WF_vars(Review)
    /\ WF_vars(Fix) /\ WF_vars(Finalize) /\ WF_vars(ReportOnly)

SpecSupervised == InitSupervised /\ [][NextSupervised]_vars /\ Fairness

-------------------------------------------------------------------------------
(* Properties. *)

\* In the loop the supervisor drives, every change of a delivered run that owes
\* a review was made before a verdict; the verdict on record is an approval.
\* (The engine alone does not give this: a focused fix after an approval keeps
\* the old approval.)
DeliveredChangesWereReviewed ==
    Delivered /\ run.reviewerRequired =>
        changeReviewed /\ run.reviewerOutcome = "approved"

\* README.md:720-725: the loop goes on "until the run completes, is blocked, or
\* hits its retry budget"; it always does, however often the reviewer asks for
\* changes.
LoopTerminates == <>(run.stage \in {"delivery_complete", "blocked"})

===============================================================================
