---------------------------- MODULE DelegateProofs ----------------------------
(*****************************************************************************)
(* What holds of a delegate in every interleaving of its child, the script    *)
(* in its pane and its parent, and of a deep planning call in every one of its*)
(* workers.                                                                   *)
(*                                                                            *)
(* The three writers of a delegate share one file, and what keeps them apart  *)
(* is who may have it open: from its test of the file to its write a writer is*)
(* the only one that has it, because the child calls no tool while it saves   *)
(* and the script waits for the child's exit.                                 *)
(*                                                                            *)
(* The planners that a round has taken off its queue are those that have run  *)
(* in it and those that its workers hold, and nobody runs twice in a round:   *)
(* results are counted by the pairs of planner and round.                     *)
(*****************************************************************************)
EXTENDS Delegate, DeepPlanning, FiniteSetTheorems, TLAPS

-------------------------------------------------------------------------------
(* The inductive invariant. *)

\* Nothing runs before the parent has started it, and the parent completes a
\* pane only, on a sidecar that it has read.
StartedInOrder ==
    /\ parent.at = "starting" => child.at = "unborn" /\ shell = "unborn"
    /\ parent.at \in {"waiting", "completing"} => child.at # "unborn"
    /\ parent.at = "completing" => config.display = "pane" /\ parent.done \in Sidecars

\* The script has tested the file only after the child's exit and before any call.
WritersTakeTurns ==
    /\ child.at = "saving" => ~called
    /\ shell = "reporting" => child.at = "exited" /\ ~called
    /\ child.at = "unborn" => ~called

\* A sidecar that says more than that the process has ended is the child's own.
SidecarIsTheChilds ==
    /\ doneFile \in Sidecars /\ doneFile.completion # "process_exit" => signalled
    /\ parent.done \in Sidecars /\ parent.done.completion # "process_exit" => signalled

\* A pane that has returned says the same in its result and in its manifest.
ResultStands ==
    Returned /\ config.display = "pane" =>
        /\ parent.status = "completed" => signalled
        /\ parent.status = "completed" <=> parent.manifest = "completed"

DelegateInv ==
    /\ DelegateTypeOK
    /\ StartedInOrder
    /\ WritersTakeTurns
    /\ SidecarIsTheChilds
    /\ ResultStands
    /\ ExplicitStands
    /\ NoWorkAfterReturn

LEMMA SidecarsWritten ==
    /\ Explicit \in Sidecars /\ AutoExit \in Sidecars
    /\ \A code : ProcessExit(code) \in Sidecars /\ ProcessExit(code).completion = "process_exit"
  BY DEF Explicit, AutoExit, ProcessExit, ExitOfScript, Sidecars

\* A run with a bad exit code is never completed.
LEMMA FinalStatus ==
    ASSUME NEW wasAborted \in BOOLEAN, NEW stop, NEW exit
    PROVE  /\ NormalizeFinalStatus(wasAborted, stop, exit) \in {"completed", "failed", "aborted"}
           /\ exit # "zero" => NormalizeFinalStatus(wasAborted, stop, exit) # "completed"
  <1>1. CASE wasAborted \/ stop = "aborted"
    BY <1>1 DEF NormalizeFinalStatus
  <1>2. CASE ~wasAborted /\ stop # "aborted" /\ (exit # "zero" \/ stop = "error")
    BY <1>2 DEF NormalizeFinalStatus
  <1>3. CASE ~wasAborted /\ stop # "aborted" /\ exit = "zero" /\ stop # "error"
    BY <1>3 DEF NormalizeFinalStatus
  <1> QED
    BY <1>1, <1>2, <1>3

\* Result and manifest of a pane are computed apart, and agree.
LEMMA PaneOutcome ==
    ASSUME NEW done \in Sidecars, NEW seen \in Sessions
    PROVE  /\ PaneStatus(done, seen) \in {"completed", "failed", "aborted"}
           /\ PaneManifestState(done, seen) \in {"completed", "failed"}
           /\ PaneStatus(done, seen) = "completed" <=> PaneManifestState(done, seen) = "completed"
           /\ PaneStatus(done, seen) = "completed" => done.completion # "process_exit"
  <1>1. CASE OutcomeFails(done, seen.text)
    BY <1>1, FinalStatus DEF PaneStatus, PaneManifestState, OutcomeExit
  <1>2. CASE ~OutcomeFails(done, seen.text)
    BY <1>2, FinalStatus DEF PaneStatus, PaneManifestState, OutcomeExit, OutcomeFails
  <1> QED
    BY <1>1, <1>2

\* The fields of a result, and those it leaves.
LEMMA Returning ==
    ASSUME parent \in Parents,
           NEW status \in {"completed", "failed", "aborted"},
           NEW source \in {"none", "explicit", "auto_exit", "process_exit", "legacy"},
           NEW manifest \in {"running", "completed", "failed", "aborted"},
           Return(status, source, manifest)
    PROVE  /\ parent' \in Parents
           /\ parent'.at = "returned" /\ parent'.status = status
           /\ parent'.manifest = manifest /\ parent'.done = parent.done
  BY DEF Return, Parents

LEMMA Waiting ==
    ASSUME parent \in Parents, parent' = [parent EXCEPT !.at = "waiting"]
    PROVE  /\ parent' \in Parents
           /\ parent'.at = "waiting" /\ parent'.done = parent.done
  BY DEF Parents

LEMMA InitDelegate == Init => DelegateInv
  <1> SUFFICES ASSUME Init PROVE DelegateInv
    OBVIOUS
  <1>1. session \in Sessions
    BY DEF Init, Sessions
  <1>2. DelegateTypeOK
    BY <1>1 DEF Init, DelegateTypeOK, Parents
  <1> QED
    BY <1>2, SidecarAssumption
    DEF Init, DelegateInv, StartedInOrder, WritersTakeTurns, SidecarIsTheChilds, ResultStands,
        ExplicitStands, NoWorkAfterReturn, Returned

LEMMA TurnKeeps == DelegateInv /\ Turn => DelegateInv'
  <1> SUFFICES ASSUME DelegateInv, Turn PROVE DelegateInv'
    OBVIOUS
  <1>1. DelegateTypeOK'
    BY DEF DelegateInv, Turn, StopReasons, history, DelegateTypeOK, Parents, Sessions
  <1>2. /\ StartedInOrder' /\ WritersTakeTurns' /\ SidecarIsTheChilds'
        /\ ResultStands' /\ ExplicitStands' /\ NoWorkAfterReturn'
    BY SidecarAssumption DEF DelegateInv, Turn, StopReasons, history, StartedInOrder,
       WritersTakeTurns, SidecarIsTheChilds, ResultStands, ExplicitStands, NoWorkAfterReturn,
       Returned, Alive, DelegateTypeOK, Sidecars, Explicit
  <1> QED
    BY <1>1, <1>2 DEF DelegateInv

LEMMA CallDoneKeeps == DelegateInv /\ CallDone => DelegateInv'
  <1> SUFFICES ASSUME DelegateInv, CallDone PROVE DelegateInv'
    OBVIOUS
  <1>1. DelegateTypeOK'
    BY DEF DelegateInv, CallDone, Child, history, DelegateTypeOK, Parents
  <1>2. /\ StartedInOrder' /\ WritersTakeTurns' /\ SidecarIsTheChilds'
        /\ ResultStands' /\ ExplicitStands' /\ NoWorkAfterReturn'
    BY SidecarAssumption DEF DelegateInv, CallDone, Child, history, StartedInOrder,
       WritersTakeTurns, SidecarIsTheChilds, ResultStands, ExplicitStands, NoWorkAfterReturn,
       Returned, Alive, DelegateTypeOK, Sidecars, Explicit
  <1> QED
    BY <1>1, <1>2 DEF DelegateInv

LEMMA WriteExplicitKeeps == DelegateInv /\ WriteExplicit => DelegateInv'
  <1> SUFFICES ASSUME DelegateInv, WriteExplicit PROVE DelegateInv'
    OBVIOUS
  <1>1. DelegateTypeOK'
    BY SidecarsWritten DEF DelegateInv, WriteExplicit, Child, history, DelegateTypeOK, Parents
  <1>2. /\ StartedInOrder' /\ WritersTakeTurns' /\ SidecarIsTheChilds'
        /\ ResultStands' /\ ExplicitStands' /\ NoWorkAfterReturn'
    BY SidecarAssumption DEF DelegateInv, WriteExplicit, Child, Explicit, history,
       StartedInOrder, WritersTakeTurns, SidecarIsTheChilds, ResultStands, ExplicitStands,
       NoWorkAfterReturn, Returned, Alive, DelegateTypeOK, Sidecars, Explicit
  <1> QED
    BY <1>1, <1>2 DEF DelegateInv

LEMMA AgentEndKeeps == DelegateInv /\ AgentEnd => DelegateInv'
  <1> SUFFICES ASSUME DelegateInv, AgentEnd PROVE DelegateInv'
    OBVIOUS
  <1>1. DelegateTypeOK'
    BY DEF DelegateInv, AgentEnd, Child, MayAutoExit, history, DelegateTypeOK, Parents
  <1>2. /\ StartedInOrder' /\ WritersTakeTurns' /\ SidecarIsTheChilds'
        /\ ResultStands' /\ ExplicitStands' /\ NoWorkAfterReturn'
    BY SidecarAssumption DEF DelegateInv, AgentEnd, Child, MayAutoExit, history, StartedInOrder,
       WritersTakeTurns, SidecarIsTheChilds, ResultStands, ExplicitStands, NoWorkAfterReturn,
       Returned, Alive, DelegateTypeOK, Sidecars, Explicit
  <1> QED
    BY <1>1, <1>2 DEF DelegateInv

LEMMA WriteAutoExitKeeps == DelegateInv /\ WriteAutoExit => DelegateInv'
  <1> SUFFICES ASSUME DelegateInv, WriteAutoExit PROVE DelegateInv'
    OBVIOUS
  <1>1. DelegateTypeOK'
    BY SidecarsWritten DEF DelegateInv, WriteAutoExit, Child, history, DelegateTypeOK, Parents
  <1>2. /\ StartedInOrder' /\ WritersTakeTurns' /\ SidecarIsTheChilds'
        /\ ResultStands' /\ ExplicitStands' /\ NoWorkAfterReturn'
    BY SidecarAssumption DEF DelegateInv, WriteAutoExit, Child, AutoExit, history,
       StartedInOrder, WritersTakeTurns, SidecarIsTheChilds, ResultStands, ExplicitStands,
       NoWorkAfterReturn, Returned, Alive, DelegateTypeOK, Sidecars, Explicit
  <1> QED
    BY <1>1, <1>2 DEF DelegateInv

LEMMA ResumeKeeps == DelegateInv /\ Resume => DelegateInv'
  <1> SUFFICES ASSUME DelegateInv, Resume PROVE DelegateInv'
    OBVIOUS
  <1>1. DelegateTypeOK'
    BY DEF DelegateInv, Resume, Child, history, DelegateTypeOK, Parents
  <1>2. /\ StartedInOrder' /\ WritersTakeTurns' /\ SidecarIsTheChilds'
        /\ ResultStands' /\ ExplicitStands' /\ NoWorkAfterReturn'
    BY SidecarAssumption DEF DelegateInv, Resume, Child, history, StartedInOrder,
       WritersTakeTurns, SidecarIsTheChilds, ResultStands, ExplicitStands, NoWorkAfterReturn,
       Returned, Alive, DelegateTypeOK, Sidecars, Explicit
  <1> QED
    BY <1>1, <1>2 DEF DelegateInv

LEMMA ChildExitsKeeps == DelegateInv /\ ChildExits => DelegateInv'
  <1> SUFFICES ASSUME DelegateInv, ChildExits PROVE DelegateInv'
    OBVIOUS
  <1>1. DelegateTypeOK'
    BY DEF DelegateInv, ChildExits, history, DelegateTypeOK, Parents
  <1>2. /\ StartedInOrder' /\ WritersTakeTurns' /\ SidecarIsTheChilds'
        /\ ResultStands' /\ ExplicitStands' /\ NoWorkAfterReturn'
    BY SidecarAssumption DEF DelegateInv, ChildExits, history, StartedInOrder, WritersTakeTurns,
       SidecarIsTheChilds, ResultStands, ExplicitStands, NoWorkAfterReturn, Returned, Alive,
       DelegateTypeOK, Sidecars, Explicit
  <1> QED
    BY <1>1, <1>2 DEF DelegateInv

LEMMA ShellChecksKeeps == DelegateInv /\ ShellChecks => DelegateInv'
  <1> SUFFICES ASSUME DelegateInv, ShellChecks PROVE DelegateInv'
    OBVIOUS
  <1>1. DelegateTypeOK'
    BY DEF DelegateInv, ShellChecks, history, DelegateTypeOK, Parents
  <1>2. /\ StartedInOrder' /\ WritersTakeTurns' /\ SidecarIsTheChilds'
        /\ ResultStands' /\ ExplicitStands' /\ NoWorkAfterReturn'
    BY SidecarAssumption DEF DelegateInv, ShellChecks, history, StartedInOrder, WritersTakeTurns,
       SidecarIsTheChilds, ResultStands, ExplicitStands, NoWorkAfterReturn, Returned, Alive,
       DelegateTypeOK, Sidecars, Explicit
  <1> QED
    BY <1>1, <1>2 DEF DelegateInv

LEMMA ShellReportsKeeps == DelegateInv /\ ShellReports => DelegateInv'
  <1> SUFFICES ASSUME DelegateInv, ShellReports PROVE DelegateInv'
    OBVIOUS
  <1>1. DelegateTypeOK'
    BY SidecarsWritten DEF DelegateInv, ShellReports, history, DelegateTypeOK, Parents
  <1>2. /\ StartedInOrder' /\ WritersTakeTurns' /\ SidecarIsTheChilds'
        /\ ResultStands' /\ ExplicitStands' /\ NoWorkAfterReturn'
    BY SidecarAssumption DEF DelegateInv, ShellReports, ProcessExit, ExitOfScript, history,
       StartedInOrder, WritersTakeTurns, SidecarIsTheChilds, ResultStands, ExplicitStands,
       NoWorkAfterReturn, Returned, Alive, DelegateTypeOK, Sidecars, Explicit
  <1> QED
    BY <1>1, <1>2 DEF DelegateInv

LEMMA StartPaneKeeps == DelegateInv /\ StartPane => DelegateInv'
  <1> SUFFICES ASSUME DelegateInv, StartPane PROVE DelegateInv'
    OBVIOUS
  <1>1. /\ parent' \in Parents /\ parent'.done = parent.done
        /\ \/ /\ parent'.at = "waiting" /\ surface' = "open" /\ shell' = "running"
              /\ Child("working")
           \/ /\ parent'.at = "returned" /\ parent'.status = "failed"
              /\ parent'.manifest = "failed"
              /\ surface' \in {surface, "open", "closed"} /\ UNCHANGED <<shell, child>>
    BY Returning, Waiting DEF DelegateInv, DelegateTypeOK, StartPane
  <1>2. DelegateTypeOK'
    BY <1>1 DEF DelegateInv, StartPane, Child, history, DelegateTypeOK
  <1>3. /\ StartedInOrder' /\ WritersTakeTurns' /\ SidecarIsTheChilds'
        /\ ResultStands' /\ ExplicitStands' /\ NoWorkAfterReturn'
    BY <1>1 DEF DelegateInv, StartPane, Child, history, StartedInOrder, WritersTakeTurns,
       SidecarIsTheChilds, ResultStands, ExplicitStands, NoWorkAfterReturn, Returned, Alive,
       DelegateTypeOK
  <1> QED
    BY <1>2, <1>3 DEF DelegateInv

LEMMA PollAbortedKeeps == DelegateInv /\ PollAborted => DelegateInv'
  <1> SUFFICES ASSUME DelegateInv, PollAborted PROVE DelegateInv'
    OBVIOUS
  <1>1. /\ parent' \in Parents /\ parent'.done = parent.done
        /\ parent'.at = "returned" /\ parent'.status = "aborted" /\ parent'.manifest = "aborted"
    BY Returning DEF DelegateInv, DelegateTypeOK, PollAborted
  <1>2. DelegateTypeOK'
    BY <1>1 DEF DelegateInv, PollAborted, ClosesAtLast, CloseSurface, LeaveSurface, history,
       DelegateTypeOK
  <1>3. /\ StartedInOrder' /\ WritersTakeTurns' /\ SidecarIsTheChilds'
        /\ ResultStands' /\ ExplicitStands' /\ NoWorkAfterReturn'
    BY <1>1 DEF DelegateInv, PollAborted, Polling, ClosesAtLast, CloseSurface, LeaveSurface,
       history, StartedInOrder, WritersTakeTurns, SidecarIsTheChilds,
       ResultStands, ExplicitStands, NoWorkAfterReturn, Returned, Alive, DelegateTypeOK
  <1> QED
    BY <1>2, <1>3 DEF DelegateInv

LEMMA PollTimedOutKeeps == DelegateInv /\ PollTimedOut => DelegateInv'
  <1> SUFFICES ASSUME DelegateInv, PollTimedOut PROVE DelegateInv'
    OBVIOUS
  <1>1. DelegateTypeOK'
    BY DEF DelegateInv, PollTimedOut, Polling, Return, CloseSurface, DeadlineCounts,
       NormalizeFinalStatus, history, DelegateTypeOK, Parents
  <1>2. /\ StartedInOrder' /\ WritersTakeTurns' /\ SidecarIsTheChilds'
        /\ ResultStands' /\ ExplicitStands' /\ NoWorkAfterReturn'
    BY SidecarAssumption DEF DelegateInv, PollTimedOut, Polling, Return, CloseSurface,
       DeadlineCounts, NormalizeFinalStatus, history, StartedInOrder, WritersTakeTurns,
       SidecarIsTheChilds, ResultStands, ExplicitStands, NoWorkAfterReturn, Returned, Alive,
       DelegateTypeOK, Sidecars, Explicit
  <1> QED
    BY <1>1, <1>2 DEF DelegateInv

LEMMA PollDoneKeeps == DelegateInv /\ PollDone => DelegateInv'
  <1> SUFFICES ASSUME DelegateInv, PollDone PROVE DelegateInv'
    OBVIOUS
  <1>1. DelegateTypeOK'
    BY DEF DelegateInv, PollDone, Polling, history, DelegateTypeOK, Parents
  <1>2. /\ StartedInOrder' /\ WritersTakeTurns' /\ SidecarIsTheChilds'
        /\ ResultStands' /\ ExplicitStands' /\ NoWorkAfterReturn'
    BY SidecarAssumption DEF DelegateInv, PollDone, Polling, history, StartedInOrder,
       WritersTakeTurns, SidecarIsTheChilds, ResultStands, ExplicitStands, NoWorkAfterReturn,
       Returned, Alive, DelegateTypeOK, Sidecars, Explicit
  <1> QED
    BY <1>1, <1>2 DEF DelegateInv

LEMMA DrainSessionKeeps == DelegateInv /\ DrainSession => DelegateInv'
  <1> SUFFICES ASSUME DelegateInv, DrainSession PROVE DelegateInv'
    OBVIOUS
  <1>1. DelegateTypeOK'
    BY DEF DelegateInv, DrainSession, Polling, history, DelegateTypeOK, Parents
  <1>2. /\ StartedInOrder' /\ WritersTakeTurns' /\ SidecarIsTheChilds'
        /\ ResultStands' /\ ExplicitStands' /\ NoWorkAfterReturn'
    BY SidecarAssumption DEF DelegateInv, DrainSession, Polling, history, StartedInOrder,
       WritersTakeTurns, SidecarIsTheChilds, ResultStands, ExplicitStands, NoWorkAfterReturn,
       Returned, Alive, DelegateTypeOK, Sidecars, Explicit
  <1> QED
    BY <1>1, <1>2 DEF DelegateInv

LEMMA CompletePaneKeeps == DelegateInv /\ CompletePane => DelegateInv'
  <1> SUFFICES ASSUME DelegateInv, CompletePane PROVE DelegateInv'
    OBVIOUS
  <1>1. /\ parent' \in Parents /\ parent'.done = parent.done /\ parent'.at = "returned"
        /\ parent'.status = "completed" <=> parent'.manifest = "completed"
        /\ parent'.status = "completed" => parent.done.completion # "process_exit"
    <2>1. parent \in Parents /\ session \in Sessions /\ parent.done \in Sidecars
      BY DEF DelegateInv, DelegateTypeOK, StartedInOrder, CompletePane
    <2>2. parent.done.completion \in {"explicit", "auto_exit", "process_exit"}
      BY <2>1 DEF Sidecars
    <2> QED
      BY <2>1, <2>2, PaneOutcome DEF CompletePane, Parents
  <1>2. DelegateTypeOK'
    BY <1>1 DEF DelegateInv, CompletePane, ClosesAtLast, CloseSurface, LeaveSurface, history,
       DelegateTypeOK
  <1>3. /\ StartedInOrder' /\ WritersTakeTurns' /\ SidecarIsTheChilds'
        /\ ResultStands' /\ ExplicitStands' /\ NoWorkAfterReturn'
    BY <1>1 DEF DelegateInv, CompletePane, ClosesAtLast, CloseSurface, LeaveSurface,
       history, StartedInOrder, WritersTakeTurns, SidecarIsTheChilds,
       ResultStands, ExplicitStands, NoWorkAfterReturn, Returned, Alive, DelegateTypeOK
  <1> QED
    BY <1>2, <1>3 DEF DelegateInv

LEMMA StartHeadlessKeeps == DelegateInv /\ StartHeadless => DelegateInv'
  <1> SUFFICES ASSUME DelegateInv, StartHeadless PROVE DelegateInv'
    OBVIOUS
  <1>1. /\ parent' \in Parents /\ parent'.done = parent.done
        /\ \/ parent'.at = "waiting" /\ Child("working")
           \/ parent'.at = "returned" /\ UNCHANGED child
    BY Returning, Waiting, FinalStatus DEF DelegateInv, DelegateTypeOK, StartHeadless
  <1>2. DelegateTypeOK'
    BY <1>1 DEF DelegateInv, StartHeadless, Child, history, DelegateTypeOK
  <1>3. /\ StartedInOrder' /\ WritersTakeTurns' /\ SidecarIsTheChilds'
        /\ ResultStands' /\ ExplicitStands' /\ NoWorkAfterReturn'
    BY <1>1 DEF DelegateInv, StartHeadless, Child, history, StartedInOrder, WritersTakeTurns,
       SidecarIsTheChilds, ResultStands, ExplicitStands, NoWorkAfterReturn, Returned, Alive,
       DelegateTypeOK
  <1> QED
    BY <1>2, <1>3 DEF DelegateInv

LEMMA KillChildKeeps == DelegateInv /\ KillChild => DelegateInv'
  <1> SUFFICES ASSUME DelegateInv, KillChild PROVE DelegateInv'
    OBVIOUS
  <1>1. DelegateTypeOK'
    BY DEF DelegateInv, KillChild, history, DelegateTypeOK, Parents
  <1>2. /\ StartedInOrder' /\ WritersTakeTurns' /\ SidecarIsTheChilds'
        /\ ResultStands' /\ ExplicitStands' /\ NoWorkAfterReturn'
    BY SidecarAssumption DEF DelegateInv, KillChild, history, StartedInOrder, WritersTakeTurns,
       SidecarIsTheChilds, ResultStands, ExplicitStands, NoWorkAfterReturn, Returned, Alive,
       DelegateTypeOK, Sidecars, Explicit
  <1> QED
    BY <1>1, <1>2 DEF DelegateInv

LEMMA ChildClosesKeeps == DelegateInv /\ ChildCloses => DelegateInv'
  <1> SUFFICES ASSUME DelegateInv, ChildCloses PROVE DelegateInv'
    OBVIOUS
  <1>1. /\ parent' \in Parents /\ parent'.done = parent.done /\ parent'.at = "returned"
    <2>1. HeadlessSource \in {"explicit", "auto_exit", "process_exit", "legacy"}
      BY DEF HeadlessSource, Sidecars
    <2> QED
      BY <2>1, Returning, FinalStatus DEF DelegateInv, DelegateTypeOK, ChildCloses
  <1>2. DelegateTypeOK'
    BY <1>1 DEF DelegateInv, ChildCloses, history, DelegateTypeOK
  <1>3. /\ StartedInOrder' /\ WritersTakeTurns' /\ SidecarIsTheChilds'
        /\ ResultStands' /\ ExplicitStands' /\ NoWorkAfterReturn'
    BY <1>1 DEF DelegateInv, ChildCloses, history, StartedInOrder, WritersTakeTurns,
       SidecarIsTheChilds, ResultStands, ExplicitStands, NoWorkAfterReturn, Returned, Alive,
       DelegateTypeOK
  <1> QED
    BY <1>2, <1>3 DEF DelegateInv

LEMMA AbortKeeps == DelegateInv /\ Abort => DelegateInv'
  <1> SUFFICES ASSUME DelegateInv, Abort PROVE DelegateInv'
    OBVIOUS
  <1>1. DelegateTypeOK'
    BY DEF DelegateInv, Abort, history, DelegateTypeOK, Parents
  <1>2. /\ StartedInOrder' /\ WritersTakeTurns' /\ SidecarIsTheChilds'
        /\ ResultStands' /\ ExplicitStands' /\ NoWorkAfterReturn'
    BY SidecarAssumption DEF DelegateInv, Abort, history, StartedInOrder, WritersTakeTurns,
       SidecarIsTheChilds, ResultStands, ExplicitStands, NoWorkAfterReturn, Returned, Alive,
       DelegateTypeOK, Sidecars, Explicit
  <1> QED
    BY <1>1, <1>2 DEF DelegateInv

LEMMA DeadlinePassesKeeps == DelegateInv /\ DeadlinePasses => DelegateInv'
  <1> SUFFICES ASSUME DelegateInv, DeadlinePasses PROVE DelegateInv'
    OBVIOUS
  <1>1. DelegateTypeOK'
    BY DEF DelegateInv, DeadlinePasses, Polling, history, DelegateTypeOK, Parents
  <1>2. /\ StartedInOrder' /\ WritersTakeTurns' /\ SidecarIsTheChilds'
        /\ ResultStands' /\ ExplicitStands' /\ NoWorkAfterReturn'
    BY SidecarAssumption DEF DelegateInv, DeadlinePasses, Polling, history, StartedInOrder,
       WritersTakeTurns, SidecarIsTheChilds, ResultStands, ExplicitStands, NoWorkAfterReturn,
       Returned, Alive, DelegateTypeOK, Sidecars, Explicit
  <1> QED
    BY <1>1, <1>2 DEF DelegateInv

LEMMA StutterKeeps == DelegateInv /\ UNCHANGED vars => DelegateInv'
  BY DEF DelegateInv, DelegateTypeOK, StartedInOrder, WritersTakeTurns, SidecarIsTheChilds,
     ResultStands, ExplicitStands, NoWorkAfterReturn, Returned, Alive, vars

LEMMA DelegateStep == DelegateInv /\ [Next]_vars => DelegateInv'
  <1> SUFFICES ASSUME DelegateInv, [Next]_vars PROVE DelegateInv'
    OBVIOUS
  <1> QED
    BY TurnKeeps, CallDoneKeeps, WriteExplicitKeeps, AgentEndKeeps, WriteAutoExitKeeps,
       ResumeKeeps, ChildExitsKeeps, ShellChecksKeeps, ShellReportsKeeps,
       StartPaneKeeps, PollAbortedKeeps, PollTimedOutKeeps, PollDoneKeeps,
       DrainSessionKeeps, CompletePaneKeeps, StartHeadlessKeeps, KillChildKeeps,
       ChildClosesKeeps, AbortKeeps, DeadlinePassesKeeps,
       StutterKeeps
    DEF Next, ChildStep, ParentStep

\* The invariant holds in every reachable state, for every choice of the child's start and every
\* interleaving of child, script and parent.
THEOREM DelegateInvariant == Spec => []DelegateInv
  BY InitDelegate, DelegateStep, PTL DEF Spec

-------------------------------------------------------------------------------
(* What the invariant is for. *)

\* Every state of a delegate is of its type.
THEOREM DelegateTypes == Spec => []DelegateTypeOK
  <1>1. DelegateInv => DelegateTypeOK
    BY DEF DelegateInv
  <1> QED
    BY <1>1, DelegateInvariant, PTL

\* No pane is completed, in its result or in its manifest, that the child has not itself
\* signalled (pane-completion.ts), in whatever order child, script and parent come.
THEOREM CompletionsAreSignalled == Spec => []CompletionWasSignalled
  <1>1. DelegateInv => CompletionWasSignalled
    BY DEF DelegateInv, ResultStands, CompletionWasSignalled
  <1> QED
    BY <1>1, DelegateInvariant, PTL

\* No writer but the completion tool touches the sidecar once it was called
\* (done-tools.ts), also when the child dies within the write.
THEOREM ExplicitAlwaysStands == Spec => []ExplicitStands
  <1>1. DelegateInv => ExplicitStands
    BY DEF DelegateInv
  <1> QED
    BY <1>1, DelegateInvariant, PTL

\* No child goes on beside the next delegate once its call has returned, unless its
\* pane is kept open on purpose (pane.ts, finally; headless.ts, close).
THEOREM ChildrenStopWithTheirCall == Spec => []NoWorkAfterReturn
  <1>1. DelegateInv => NoWorkAfterReturn
    BY DEF DelegateInv
  <1> QED
    BY <1>1, DelegateInvariant, PTL

-------------------------------------------------------------------------------
(* Deep planning.  The workers of a round hold different planners, each taken  *)
(* from below the cursor, and a planner below it has been run in this round or  *)
(* is held by a worker: so a round whose workers found the queue empty has run   *)
(* each planner once.                                                         *)

Busy(w) == worker[w].at \in {"starting", "running"}

Ran(i, p, r) == results[i].planner = p /\ results[i].round = r

Planners == 1..Len(plan.planners)

CallInOrder ==
    /\ callAt \in {"called", "refused", "opening"} =>
          worker = <<>> /\ results = <<>> /\ round = 0 /\ cursor = 1
    /\ callAt \notin {"called", "refused"} => plan.rounds > 0 /\ plan.maxConcurrency > 0
    /\ callAt \in {"rounds", "ended"} =>
          Len(plan.planners) > 0 /\ round \in 1..plan.rounds /\ DOMAIN worker = Workers
    /\ callAt = "ended" => round = plan.rounds /\ RoundOver
    /\ cursor <= Len(plan.planners) + 1
    /\ DOMAIN worker # {} => round > 0

HeldOnce ==
    /\ \A w \in DOMAIN worker : Busy(w) =>
          /\ worker[w].planner \in 1..(cursor - 1)
          /\ \A i \in 1..Len(results) : ~Ran(i, worker[w].planner, round)
    /\ \A v, w \in DOMAIN worker :
          v # w /\ Busy(v) /\ Busy(w) => worker[v].planner # worker[w].planner

RunOnce ==
    /\ \A i \in 1..Len(results) :
          /\ results[i].planner \in Planners /\ results[i].round \in 1..round
          /\ results[i].round = round => results[i].planner < cursor
    /\ \A i, j \in 1..Len(results) :
          i # j => ~Ran(j, results[i].planner, results[i].round)

NoneSkipped ==
    callAt \in {"rounds", "ended"} /\ ~abortSignal =>
        /\ \A p \in Planners, r \in 1..(round - 1) : \E i \in 1..Len(results) : Ran(i, p, r)
        /\ \A p \in 1..(cursor - 1) :
              \/ \E i \in 1..Len(results) : Ran(i, p, round)
              \/ \E w \in DOMAIN worker : Busy(w) /\ worker[w].planner = p
        /\ \A w \in DOMAIN worker : worker[w].at = "returned" => cursor > Len(plan.planners)

DeepInv == DeepTypeOK /\ CallInOrder /\ HeldOnce /\ RunOnce /\ NoneSkipped

LEMMA InitDeep == DeepInit => DeepInv
  <1> SUFFICES ASSUME DeepInit PROVE DeepInv
    OBVIOUS
  <1>1. DeepTypeOK
    <2>1. DOMAIN <<>> = {} /\ <<>> \in [{} -> WorkerStates]
      OBVIOUS
    <2>2. plan.planners = <<>> /\ plan.rounds = 0 /\ plan.maxConcurrency = 0 /\ worker = <<>>
      BY DEF DeepInit, NoPlan
    <2>3. \A S : <<>> \in Seq(S)
      OBVIOUS
    <2>4. /\ plan.planners \in Seq({plan.planners[n] : n \in DOMAIN plan.planners})
          /\ worker \in [DOMAIN worker -> WorkerStates] /\ DOMAIN worker \subseteq Nat
      BY <2>1, <2>2, <2>3
    <2>5. /\ callAt = "called" /\ round = 0 /\ cursor = 1 /\ results \in Seq(Records)
          /\ abortSignal \in BOOLEAN
      BY <2>3 DEF DeepInit
    <2> QED
      BY <2>2, <2>4, <2>5 DEF DeepTypeOK
  <1>2. CallInOrder
    BY DEF DeepInit, CallInOrder, NoPlan
  <1>3. HeldOnce /\ RunOnce /\ NoneSkipped
    BY DEF DeepInit, HeldOnce, RunOnce, NoneSkipped, Busy
  <1> QED
    BY <1>1, <1>2, <1>3 DEF DeepInv

Effective(base, force, planners, tuning) ==
    mergeDeepPlanningConfig(normalizeDeepPlanning(base),
        [force |-> force, planners |-> planners, plannerCount |-> tuning.plannerCount,
         rounds |-> tuning.rounds, maxConcurrency |-> tuning.maxConcurrency])

WellMerged(merged) ==
    /\ merged.planners \in Seq({merged.planners[n] : n \in DOMAIN merged.planners})
    /\ merged.rounds \in Nat \ {0} /\ merged.maxConcurrency \in Nat \ {0}

\* Whatever is asked for and configured, there is at least a round and a worker to be.
LEMMA MergedPlan ==
    ASSUME NEW base \in Configured, NEW force \in BOOLEAN, NEW planners \in PlannerLists,
           NEW tuning \in Tunings
    PROVE  WellMerged(Effective(base, force, planners, tuning))
  <1> DEFINE merged == Effective(base, force, planners, tuning)
             section == normalizeDeepPlanning(base)
             listed == dedupePlanners(IF planners # <<>> THEN planners ELSE section.planners)
             count == clampPositive(tuning.plannerCount, section.plannerCount)
  <1>1. /\ tuning.plannerCount \in Nat /\ tuning.rounds \in Nat /\ tuning.maxConcurrency \in Nat
        /\ planners \in Seq(Ids)
    BY DeepPlanningAssumption DEF Counts
  <1>2. base \in [enabled : BOOLEAN, planners : Seq(Ids), plannerCount : Nat,
                  rounds : Nat, maxConcurrency : Nat]
    BY DeepPlanningAssumption
  <1>3. /\ section.planners \in Seq(Ids)
        /\ section.plannerCount \in Nat \ {0}
        /\ section.rounds \in Nat \ {0} /\ section.maxConcurrency \in Nat \ {0}
    BY <1>2 DEF normalizeDeepPlanning, clampPositive
  <1>4. count \in Nat \ {0}
    BY <1>1, <1>3 DEF clampPositive
  <1>5. PICK S : listed \in Seq(S)
    <2> DEFINE ids == IF planners # <<>> THEN planners ELSE section.planners
    <2>1. ids \in Seq(Ids)
      BY <1>1, <1>3
    <2> DEFINE deduped[n \in DOMAIN ids] ==
                   LET taken == {deduped[m] : m \in 1..(n - 1)}
                       named == IF ids[n].name = Unnamed
                                THEN [name |-> "planner", numbers |-> <<n>>] ELSE ids[n]
                   IN  IF named \in taken THEN [named EXCEPT !.numbers = Append(@, n)] ELSE named
    <2>2. listed = [n \in DOMAIN ids |-> deduped[n]]
      BY DEF dedupePlanners
    <2> HIDE DEF ids, deduped
    <2>3. listed \in Seq({deduped[n] : n \in DOMAIN ids})
      BY <2>1, <2>2
    <2> QED
      BY <2>3
  <1>6. merged.planners = SubSeq(listed, 1, IF count < Len(listed) THEN count ELSE Len(listed))
    BY DEF mergeDeepPlanningConfig, Effective
  <1> HIDE DEF merged, listed, count
  <1>7. merged.planners \in Seq(S)
    BY <1>4, <1>5, <1>6
  <1>8. merged.planners \in Seq({merged.planners[n] : n \in DOMAIN merged.planners})
    BY <1>7
  <1>9. merged.rounds \in Nat \ {0} /\ merged.maxConcurrency \in Nat \ {0}
    BY <1>1, <1>3 DEF mergeDeepPlanningConfig, clampPositive, Effective, merged
  <1> QED
    BY <1>8, <1>9 DEF WellMerged, merged

LEMMA StartDeepPlanKeeps == DeepInv /\ StartDeepPlan => DeepInv'
  <1> SUFFICES ASSUME DeepInv, StartDeepPlan PROVE DeepInv'
    OBVIOUS
  <1>1. /\ plan'.planners \in Seq({plan'.planners[n] : n \in DOMAIN plan'.planners})
        /\ plan'.rounds \in Nat \ {0} /\ plan'.maxConcurrency \in Nat \ {0}
    <2>1. PICK base \in Configured, force \in BOOLEAN, planners \in PlannerLists,
               tuning \in Tunings :
             plan' = Effective(base, force, planners, tuning)
      BY DEF StartDeepPlan, Effective
    <2>2. WellMerged(Effective(base, force, planners, tuning))
      BY MergedPlan
    <2> QED
      BY <2>1, <2>2 DEF WellMerged
  <1>2. Len(plan'.planners) \in Nat
    BY <1>1
  <1>3. /\ callAt' \in {"refused", "opening"}
        /\ worker' = <<>> /\ results' = <<>> /\ round' = 0 /\ cursor' = 1
        /\ UNCHANGED <<round, cursor, worker, results, abortSignal>>
    BY DEF DeepInv, CallInOrder, StartDeepPlan
  <1>4. DeepTypeOK'
    BY <1>1, <1>3 DEF DeepInv, DeepTypeOK
  <1>5. CallInOrder'
    BY <1>1, <1>2, <1>3 DEF CallInOrder
  <1>6. HeldOnce' /\ RunOnce' /\ NoneSkipped'
    BY <1>3 DEF HeldOnce, RunOnce, NoneSkipped
  <1> QED
    BY <1>4, <1>5, <1>6 DEF DeepInv

\* A round begins with nobody holding a planner.
LEMMA BeginRoundKeeps ==
    ASSUME DeepInv, NEW r \in Nat, r = round + 1, r <= plan.rounds, BeginRound(r),
           callAt \in {"opening", "rounds"}, callAt' = "rounds", plan.planners # <<>>,
           callAt = "rounds" => RoundOver,
           UNCHANGED <<plan, results, abortSignal>>
    PROVE  DeepInv'
  <1>1. Len(plan.planners) \in Nat \ {0} /\ plan.maxConcurrency \in Nat \ {0}
    BY DEF DeepInv, DeepTypeOK, CallInOrder
  <1>2. Workers # {} /\ DOMAIN worker' = Workers /\ Workers \subseteq Nat /\ Workers' = Workers
    BY <1>1 DEF BeginRound, NewWorkers, Workers, workerConcurrency
  <1>3. \A w \in DOMAIN worker' : worker'[w] = Free
    BY DEF BeginRound, NewWorkers
  <1>4. DeepTypeOK'
    BY <1>2, <1>3 DEF DeepInv, DeepTypeOK, BeginRound, NewWorkers, Free, WorkerStates
  <1>5. CallInOrder'
    BY <1>1, <1>2 DEF DeepInv, DeepTypeOK, CallInOrder, BeginRound
  <1>6. HeldOnce'
    BY <1>3 DEF HeldOnce, Busy, Free
  <1>7. RunOnce'
    BY DEF DeepInv, DeepTypeOK, RunOnce, BeginRound, Ran, Planners
  <1>8. NoneSkipped'
    <2> SUFFICES ASSUME ~abortSignal
                 PROVE  \A p \in Planners, q \in 1..round :
                            \E i \in 1..Len(results) : Ran(i, p, q)
      BY <1>3 DEF DeepInv, DeepTypeOK, NoneSkipped, BeginRound, Ran, Planners, Busy, Free
    <2>1. CASE callAt = "opening"
      BY <2>1 DEF DeepInv, CallInOrder
    <2>2. CASE callAt = "rounds"
      <3>1. cursor = Len(plan.planners) + 1
        BY <1>1, <1>2, <2>2 DEF DeepInv, DeepTypeOK, CallInOrder, NoneSkipped, RoundOver
      <3>2. \A w \in DOMAIN worker : ~Busy(w)
        BY <2>2 DEF DeepInv, CallInOrder, RoundOver, Busy
      <3>3. ASSUME NEW p \in Planners PROVE \E i \in 1..Len(results) : Ran(i, p, round)
        BY <1>1, <2>2, <3>1, <3>2 DEF DeepInv, NoneSkipped, Planners
      <3>4. ASSUME NEW p \in Planners, NEW q \in 1..(round - 1)
            PROVE  \E i \in 1..Len(results) : Ran(i, p, q)
        BY <2>2 DEF DeepInv, NoneSkipped
      <3>5. \A q \in 1..round : q = round \/ q \in 1..(round - 1)
        BY DEF DeepInv, DeepTypeOK
      <3> QED
        BY <3>3, <3>4, <3>5
    <2> QED
      BY <2>1, <2>2
  <1> QED
    BY <1>4, <1>5, <1>6, <1>7, <1>8 DEF DeepInv

LEMMA ensurePlanningRoomKeeps == DeepInv /\ ensurePlanningRoom => DeepInv'
  <1> SUFFICES ASSUME DeepInv, ensurePlanningRoom PROVE DeepInv'
    OBVIOUS
  <1>1. CASE UNCHANGED <<round, cursor, worker>> /\ callAt' \in {"threw", "refused"}
    BY <1>1 DEF ensurePlanningRoom, DeepInv, DeepTypeOK, CallInOrder, HeldOnce, RunOnce,
       NoneSkipped, Busy, Ran, Planners
  <1>2. CASE plan.planners # <<>> /\ callAt' = "rounds" /\ BeginRound(1)
    <2>1. round = 0 /\ 1 <= plan.rounds
      BY DEF ensurePlanningRoom, DeepInv, DeepTypeOK, CallInOrder
    <2> QED
      BY <1>2, <2>1, BeginRoundKeeps DEF ensurePlanningRoom
  <1> QED
    BY <1>1, <1>2 DEF ensurePlanningRoom

LEMMA NextRoundKeeps == DeepInv /\ NextRound => DeepInv'
  <1> SUFFICES ASSUME DeepInv, NextRound PROVE DeepInv'
    OBVIOUS
  <1>1. CASE round < plan.rounds
    <2>1. round + 1 \in Nat /\ round + 1 <= plan.rounds /\ plan.planners # <<>>
      BY <1>1 DEF NextRound, DeepInv, DeepTypeOK, CallInOrder
    <2> QED
      BY <1>1, <2>1, BeginRoundKeeps DEF NextRound
  <1>2. CASE ~(round < plan.rounds)
    BY <1>2 DEF NextRound, DeepInv, DeepTypeOK, CallInOrder, HeldOnce, RunOnce, NoneSkipped,
       Busy, Ran, Planners, RoundOver, Workers
  <1> QED
    BY <1>1, <1>2

LEMMA AbortDeepPlanKeeps == DeepInv /\ AbortDeepPlan => DeepInv'
  BY DEF AbortDeepPlan, DeepInv, DeepTypeOK, CallInOrder, HeldOnce, RunOnce, NoneSkipped, Busy,
     Ran, Planners, RoundOver, Workers

\* A worker that does anything is in the round that is under way, or in the one that a
\* refused lock has cut short.
LEMMA WorkerInRound ==
    ASSUME DeepInv, NEW w \in DOMAIN worker, worker[w].at # "returned"
    PROVE  callAt \in {"rounds", "threw"}
  <1>1. worker # <<>> /\ (callAt = "ended" => w \in Workers)
    BY DEF DeepInv, CallInOrder
  <1> QED
    BY <1>1 DEF DeepInv, DeepTypeOK, CallInOrder, RoundOver

LEMMA TakePlannerKeeps ==
    ASSUME DeepInv, NEW w \in DOMAIN worker, TakePlanner(w)
    PROVE  DeepInv'
  <1>1. /\ callAt \in {"rounds", "threw"} /\ Len(plan.planners) \in Nat
        /\ DOMAIN worker' = DOMAIN worker
    BY WorkerInRound DEF TakePlanner, DeepInv, DeepTypeOK
  <1>2. CASE abortSignal \/ cursor > Len(plan.planners)
    <2>1. /\ worker' = [worker EXCEPT ![w].at = "returned"]
          /\ worker'[w].at = "returned" /\ \A v \in DOMAIN worker \ {w} : worker'[v] = worker[v]
          /\ UNCHANGED <<plan, callAt, round, cursor, results, abortSignal>>
      BY <1>2 DEF TakePlanner, DeepInv, DeepTypeOK, WorkerStates
    <2>2. DeepTypeOK'
      BY <2>1 DEF DeepInv, DeepTypeOK, WorkerStates
    <2>3. CallInOrder'
      BY <1>1, <2>1 DEF DeepInv, CallInOrder, Workers
    <2>4. HeldOnce' /\ RunOnce'
      BY <1>1, <2>1 DEF DeepInv, HeldOnce, RunOnce, Busy, Ran, Planners
    <2>5. NoneSkipped'
      BY <1>1, <1>2, <2>1 DEF DeepInv, NoneSkipped, Busy, Ran, Planners, TakePlanner
    <2> QED
      BY <2>2, <2>3, <2>4, <2>5 DEF DeepInv
  <1>3. CASE ~(abortSignal \/ cursor > Len(plan.planners))
    <2>1. /\ worker' = [worker EXCEPT ![w] = [at |-> "starting", planner |-> cursor]]
          /\ worker'[w] = [at |-> "starting", planner |-> cursor]
          /\ \A v \in DOMAIN worker \ {w} : worker'[v] = worker[v]
          /\ cursor' = cursor + 1 /\ cursor \in Planners
          /\ UNCHANGED <<plan, callAt, round, results, abortSignal>>
      BY <1>1, <1>3 DEF TakePlanner, DeepInv, DeepTypeOK, Planners
    <2>2. DeepTypeOK'
      BY <2>1 DEF DeepInv, DeepTypeOK, WorkerStates
    <2>3. CallInOrder'
      BY <1>1, <2>1 DEF DeepInv, DeepTypeOK, CallInOrder, Workers, Planners
    <2>4. HeldOnce'
      BY <1>1, <2>1 DEF DeepInv, DeepTypeOK, HeldOnce, RunOnce, Busy, Ran, Planners
    <2>5. RunOnce'
      BY <1>1, <2>1 DEF DeepInv, DeepTypeOK, RunOnce, Ran, Planners, Records
    <2>6. NoneSkipped'
      <3>1. Busy(w)' /\ worker'[w].planner = cursor /\ ~Busy(w)
        BY <2>1 DEF Busy, TakePlanner
      <3>2. \A v \in DOMAIN worker : Busy(v) => Busy(v)' /\ worker'[v].planner = worker[v].planner
        BY <2>1, <3>1 DEF Busy
      <3>3. 1..(cursor' - 1) = 1..(cursor - 1) \cup {cursor}
        BY <2>1 DEF DeepInv, DeepTypeOK
      <3> QED
        BY <1>1, <1>3, <2>1, <3>1, <3>2, <3>3 DEF DeepInv, NoneSkipped, Ran, Planners
    <2> QED
      BY <2>2, <2>3, <2>4, <2>5, <2>6 DEF DeepInv
  <1> QED
    BY <1>2, <1>3

\* A message to the room changes where its worker is, or ends the call.
LEMMA PostKeeps ==
    ASSUME DeepInv, NEW w \in DOMAIN worker, NEW topic, NEW next,
           Post(w, topic, next),
           \/ worker[w].at = "starting" /\ next = "running"
           \/ worker[w].at = "reporting" /\ next = "free"
    PROVE  DeepInv'
  <1>1. callAt \in {"rounds", "threw"} /\ DOMAIN worker' = DOMAIN worker
    BY WorkerInRound DEF Post, DeepInv, DeepTypeOK
  <1>2. /\ worker'[w].planner = worker[w].planner
        /\ \/ worker'[w].at = next /\ callAt' = callAt
           \/ worker'[w].at = "threw" /\ callAt' = "threw"
        /\ \A v \in DOMAIN worker \ {w} : worker'[v] = worker[v]
        /\ UNCHANGED <<plan, round, cursor, results, abortSignal>>
    BY DEF Post, DeepInv, DeepTypeOK, WorkerStates
  <1>3. DeepTypeOK'
    <2>1. worker' \in [DOMAIN worker -> WorkerStates]
      BY DEF Post, DeepInv, DeepTypeOK, WorkerStates
    <2> QED
      BY <1>1, <1>2, <2>1 DEF DeepInv, DeepTypeOK
  <1>4. CallInOrder'
    BY <1>1, <1>2 DEF DeepInv, CallInOrder, Workers
  <1>5. HeldOnce' /\ RunOnce'
    BY <1>1, <1>2 DEF DeepInv, HeldOnce, RunOnce, Busy, Ran, Planners
  <1>6. NoneSkipped'
    BY <1>1, <1>2 DEF DeepInv, NoneSkipped, Busy, Ran, Planners
  <1> QED
    BY <1>3, <1>4, <1>5, <1>6 DEF DeepInv

LEMMA runAgentKeeps ==
    ASSUME DeepInv, NEW w \in DOMAIN worker, runAgentPresetHeadless(w)
    PROVE  DeepInv'
  <1> DEFINE n == Len(results) + 1
  <1>1. callAt \in {"rounds", "threw"} /\ DOMAIN worker' = DOMAIN worker
    BY WorkerInRound DEF runAgentPresetHeadless, DeepInv, DeepTypeOK
  <1>2. /\ worker[w].planner \in 1..(cursor - 1) /\ worker[w].planner \in Planners
        /\ round \in Nat /\ round >= 1
    BY <1>1 DEF runAgentPresetHeadless, DeepInv, DeepTypeOK, HeldOnce, Busy, CallInOrder, Planners
  <1>3. PICK status \in {"completed", "failed", "aborted"} :
           results' = Append(results, [planner |-> worker[w].planner, round |-> round,
                                       status |-> status])
    BY DEF runAgentPresetHeadless
  <1>4. /\ n \in Nat /\ Len(results') = n
        /\ results'[n].planner = worker[w].planner /\ results'[n].round = round
        /\ \A i \in 1..Len(results) : results'[i] = results[i]
    BY <1>3 DEF DeepInv, DeepTypeOK
  <1>5. /\ worker'[w].at = "reporting"
        /\ \A v \in DOMAIN worker \ {w} : worker'[v] = worker[v]
        /\ UNCHANGED <<plan, callAt, round, cursor, abortSignal>>
    BY DEF runAgentPresetHeadless, DeepInv, DeepTypeOK, WorkerStates
  <1>6. DeepTypeOK'
    <2>1. worker' \in [DOMAIN worker -> WorkerStates]
      BY DEF runAgentPresetHeadless, DeepInv, DeepTypeOK, WorkerStates
    <2>2. results' \in Seq(Records)
      BY <1>2, <1>3 DEF DeepInv, DeepTypeOK, Records, Planners
    <2> QED
      BY <1>1, <1>5, <2>1, <2>2 DEF DeepInv, DeepTypeOK
  <1>7. CallInOrder'
    BY <1>1, <1>5 DEF DeepInv, CallInOrder, Workers
  <1>8. HeldOnce'
    BY <1>1, <1>4, <1>5 DEF DeepInv, HeldOnce, Busy, Ran, runAgentPresetHeadless
  <1>9. RunOnce'
    <2>1. Len(results) \in Nat /\ cursor \in Nat
      BY DEF DeepInv, DeepTypeOK
    <2>2. \A i \in 1..Len(results) : ~Ran(i, worker[w].planner, round)
      BY DEF DeepInv, HeldOnce, Busy, runAgentPresetHeadless
    <2>3. \A i \in 1..n : i = n \/ i \in 1..Len(results)
      BY <2>1
    <2>4. \A i \in 1..n :
             /\ results'[i].planner \in Planners /\ results'[i].round \in 1..round
             /\ results'[i].round = round => results'[i].planner < cursor
      BY <1>2, <1>4, <2>1, <2>3 DEF DeepInv, RunOnce
    <2>5. \A i, j \in 1..n :
             i # j => ~(/\ results'[j].planner = results'[i].planner
                        /\ results'[j].round = results'[i].round)
      BY <1>4, <2>2, <2>3 DEF DeepInv, RunOnce, Ran
    <2> QED
      BY <1>4, <1>5, <2>4, <2>5 DEF RunOnce, Ran, Planners
  <1>10. NoneSkipped'
    BY <1>1, <1>4, <1>5 DEF DeepInv, NoneSkipped, Busy, Ran, Planners, runAgentPresetHeadless
  <1> QED
    BY <1>6, <1>7, <1>8, <1>9, <1>10 DEF DeepInv

LEMMA DeepStep == DeepInv /\ [DeepNext]_deepVars => DeepInv'
  <1> SUFFICES ASSUME DeepInv, [DeepNext]_deepVars PROVE DeepInv'
    OBVIOUS
  <1>1. ASSUME NEW w \in DOMAIN worker, RunPlanner(w) PROVE DeepInv'
    BY <1>1, TakePlannerKeeps, PostKeeps, runAgentKeeps DEF RunPlanner, PostStart, PostComplete
  <1>2. CASE UNCHANGED deepVars
    BY <1>2 DEF deepVars, DeepInv, DeepTypeOK, CallInOrder, HeldOnce, RunOnce, NoneSkipped, Busy,
       Ran, Planners, RoundOver, Workers
  <1> QED
    BY <1>1, <1>2, StartDeepPlanKeeps, ensurePlanningRoomKeeps, NextRoundKeeps,
       AbortDeepPlanKeeps DEF DeepNext

\* The invariant of the workers holds throughout, for every plan and every moment of an abort, a
\* refused lock or a throw.
THEOREM DeepInvariant == DeepSpec => []DeepInv
  BY InitDeep, DeepStep, PTL DEF DeepSpec

\* Results that differ in planner or round, one for each of them, are as many as there are of
\* both together.
LEMMA EveryRoundCounted ==
    ASSUME DeepInv, NEW rounds \in Nat, rounds = round,
           \A p \in Planners, r \in 1..rounds : \E i \in 1..Len(results) : Ran(i, p, r)
    PROVE  Len(results) = Len(plan.planners) * rounds
  <1> DEFINE Place == [i \in 1..Len(results) |-> <<results[i].planner, results[i].round>>]
             Places == Planners \X (1..rounds)
  <1>1. Len(results) \in Nat /\ Len(plan.planners) \in Nat
    BY DEF DeepInv, DeepTypeOK
  <1>2. Place \in [1..Len(results) -> Places]
    BY DEF DeepInv, RunOnce
  <1>3. \A i, j \in 1..Len(results) : Place[i] = Place[j] => i = j
    BY DEF DeepInv, RunOnce, Ran
  <1>4. \A place \in Places : \E i \in 1..Len(results) : Place[i] = place
    BY DEF Ran
  <1>5. Place \in Bijection(1..Len(results), Places)
    <2> HIDE DEF Place, Places
    <2> QED
      BY <1>2, <1>3, <1>4 DEF Bijection, Injection, Surjection, IsInjective
  <1>6. Cardinality(Places) = Cardinality(1..Len(results)) /\ IsFiniteSet(1..Len(results))
    <2>1. ExistsBijection(1..Len(results), Places)
      BY <1>5 DEF ExistsBijection
    <2> QED
      BY <1>1, <2>1, FS_Interval, FS_Bijection
  <1>7. /\ Cardinality(1..Len(results)) = Len(results)
        /\ Cardinality(Planners) = Len(plan.planners) /\ IsFiniteSet(Planners)
        /\ Cardinality(1..rounds) = rounds /\ IsFiniteSet(1..rounds)
    <2>1. \A n \in Nat : IsFiniteSet(1..n) /\ Cardinality(1..n) = n
      <3>1. ASSUME NEW n \in Nat PROVE IsFiniteSet(1..n) /\ Cardinality(1..n) = n
        <4>1. /\ IsFiniteSet(1..n)
              /\ Cardinality(1..n) = IF 1 > n THEN 0 ELSE n - 1 + 1
          BY FS_Interval
        <4> QED
          BY <4>1
      <3> QED
        BY <3>1
    <2> QED
      BY <1>1, <2>1 DEF Planners
  <1>8. Cardinality(Places) = Len(plan.planners) * rounds
    BY <1>7, FS_Product
  <1> QED
    BY <1>6, <1>7, <1>8

\* A deep planning call that ends without an abort or a failure has had every planner run in
\* every round, and none twice, for any number of planners, rounds and workers and however the
\* workers interleave (deep-planning.ts: runPlanner, Promise.all).
THEOREM EveryRoundIsRun == DeepSpec => []SuccessMeansEveryRound
  <1>1. DeepInv => SuccessMeansEveryRound
    <2> SUFFICES ASSUME DeepInv, callAt = "ended", ~abortSignal
                 PROVE  /\ Len(results) = Len(plan.planners) * plan.rounds
                        /\ \A p \in Planners, r \in 1..plan.rounds :
                              \E i \in 1..Len(results) : Ran(i, p, r)
      BY DEF SuccessMeansEveryRound, Ran, Planners
    <2>1. /\ round = plan.rounds /\ round \in Nat /\ Len(plan.planners) \in Nat \ {0}
          /\ plan.maxConcurrency \in Nat \ {0}
          /\ DOMAIN worker = Workers /\ \A w \in Workers : worker[w].at = "returned"
      BY DEF DeepInv, DeepTypeOK, CallInOrder, RoundOver
    <2>2. 1 \in Workers
      BY <2>1 DEF Workers, workerConcurrency
    <2>3. cursor = Len(plan.planners) + 1
      BY <2>1, <2>2 DEF DeepInv, DeepTypeOK, CallInOrder, NoneSkipped
    <2>4. ASSUME NEW p \in Planners PROVE \E i \in 1..Len(results) : Ran(i, p, round)
      BY <2>1, <2>3 DEF DeepInv, NoneSkipped, Planners, Busy
    <2>5. ASSUME NEW p \in Planners, NEW r \in 1..(round - 1)
          PROVE  \E i \in 1..Len(results) : Ran(i, p, r)
      BY DEF DeepInv, NoneSkipped
    <2>6. \A r \in 1..round : r = round \/ r \in 1..(round - 1)
      BY <2>1
    <2> QED
      BY <2>1, <2>4, <2>5, <2>6, EveryRoundCounted
  <1> QED
    BY <1>1, DeepInvariant, PTL

===============================================================================
