--------------------------- MODULE MCShipSupervisor ---------------------------
(***************************************************************************)
(* ShipEngine, ShipSupervisor and LanePolicy for TLC, side by side: a          *)
(* behaviour sends one run its events in any order, with one attempt to spend;  *)
(* or it drives one run in every lane, with attempts enough that a fix can be   *)
(* reviewed, sent back and run out of budget; or it classifies a text hotfix,   *)
(* again and again, as more of it becomes known.                              *)
(*                                                                           *)
(* To keep the runs of the first side small InUse leaves out what another      *)
(* lane's run already shows: a file that does not look like code outside a      *)
(* text hotfix, a permission outside a full sprint, a diagnosis outside a debug *)
(* run and its promotions.                                                   *)
(***************************************************************************)
EXTENDS ShipSupervisor, LanePolicy

CONSTANTS code, text, push

\* The two copies of the rule for paths that look like code take the same files for code
\* (lane-policy.ts and ship-engine.ts have the same expressions).
ASSUME SameRuleAssumption == CodePaths \cap Files = CodeFiles

VARIABLE side

AllStarts == {[lane |-> "hotfix", kind |-> "text-evidence-only"],
              [lane |-> "hotfix", kind |-> "code-changing"],
              [lane |-> "full-sprint", kind |-> Unset],
              [lane |-> "debug", kind |-> Unset]}

MCAmended ==
    {"lane", "hotfixKind", "scoped", "changedFiles", "changedLOC", "textOnlyClass", "refs", "validated"}

sideVars == <<vars, request, side>>

SideInit ==
    /\ InitSupervised /\ LaneInit /\ side \in {"events", "loop", "classifier"}
    /\ side = "events" => run.retryBudget = 1 /\ run.selectedNextLane = Unset
    /\ side = "loop" => run.permissions = {}
    /\ side = "classifier" =>
          run = InitialShipState("hotfix", "text-evidence-only", 0, {}, FALSE, Unset)

OnEvents(A) == side = "events" /\ A /\ UNCHANGED <<changeReviewed, request, side>>
OnLoop(A) == side = "loop" /\ A /\ UNCHANGED <<request, side>>
OnClassifier(A) == side = "classifier" /\ A /\ UNCHANGED <<vars, side>>

SideNext == OnEvents(Next) \/ OnLoop(NextSupervised) \/ OnClassifier(Amend)

InUse ==
    side = "events" =>
        /\ run.attempts <= 2
        /\ text \in run.changedFiles \cup run.evidenceRefs => IsTextHotfix(run)
        /\ push \in run.permissions =>
              run.lane = "full-sprint" /\ run.selectedNextLane = Unset
        /\ run.diagnosed => run.lane = "debug" \/ run.selectedNextLane # Unset

SideFairness ==
    /\ WF_sideVars(OnLoop(DiagnoseFirst)) /\ WF_sideVars(OnLoop(LeaveDebugLane))
    /\ WF_sideVars(OnLoop(Implement)) /\ WF_sideVars(OnLoop(Code)) /\ WF_sideVars(OnLoop(Review))
    /\ WF_sideVars(OnLoop(Fix)) /\ WF_sideVars(OnLoop(Finalize)) /\ WF_sideVars(OnLoop(ReportOnly))

SideSpec == SideInit /\ [][SideNext]_sideVars /\ SideFairness

\* Of a driven run: nothing but what was reviewed last is delivered.
DrivenChangesWereReviewed == side = "loop" => DeliveredChangesWereReviewed

\* Driven, the loop ends.
DrivenLoopTerminates == side = "loop" => LoopTerminates

\* The run of the text hotfix as classified, once its coder has reported the same files, refs
\* and, for validation evidence, a passed check.
Reported ==
    [run EXCEPT !.changedFiles = request.changedFiles, !.evidenceRefs = request.refs,
                !.checks = IF request.validated THEN {"passed"} ELSE {}]

\* The classifier and the engine decide on review in code of their own, each with its copy of
\* the rule for paths that look like code, and a run remembers no classification: what is
\* classified as free of review the engine takes as evidence too, and of a change whose class is
\* certain the engine accepts nothing that the classifier refuses.  A run of another kind owes
\* the review that its classification asks for.
ClassifierAndEngineAgree ==
    /\ side = "classifier" /\ IsText(request) =>
          /\ status(request) = "evidence-only" /\ request.changedFiles # {} => TextEvidenceReady(Reported)
          /\ TextEvidenceReady(Reported) /\ request.textOnlyClass \notin {"other", "uncertain"} =>
                ~reviewerRequired(request)
    /\ ~IsText(request) =>
          reviewerRequired(request) = DefaultReviewerRequired(request.lane, request.hotfixKind)

===============================================================================
