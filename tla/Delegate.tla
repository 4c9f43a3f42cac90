------------------------------- MODULE Delegate -------------------------------
(***************************************************************************)
(* One delegated agent, from its launch to the result its parent returns    *)
(* (extensions/workflow/delegate: pane.ts, headless.ts, done-tools.ts,      *)
(* pane-completion.ts, pane-status.ts).                                     *)
(*                                                                          *)
(* The child pi process says that it is done in a file, the done sidecar,   *)
(* for which there are three writers: the completion tool, the fallback at  *)
(* the end of an agent run (agent_end) and, in a pane, the shell script     *)
(* after the child's exit.  In a pane the parent polls for the file, with a *)
(* deadline; headless, it waits for the child to exit and reads it then.    *)
(* The call may be aborted, and the child may exit or be killed anywhere.   *)
(*                                                                          *)
(* Abstracted: the sidecar's evidence, summary and warning; a session is    *)
(* its last assistant message's stop reason and whether any had text; exit  *)
(* codes are zero, nonzero or none (killed by a signal).  cmux and pi are   *)
(* taken to obey: closing a surface ends what runs in it, and the sidecar   *)
(* of agent_end is written before a next prompt is answered.                *)
(***************************************************************************)
CONSTANTS
    Displays,   \* the transports in use: "pane", "headless"
    Absent,     \* no sidecar
    Torn        \* a sidecar that does not parse yet, or never will

VARIABLES
    config,     \* display, and delegatePaneAutoClose
    doneFile,   \* the done sidecar
    session,    \* what the child's session says so far
    child,      \* the child pi process and its exit code
    shell,      \* the script in the pane
    surface,    \* the pane
    parent,     \* the parent's call: the sidecar it took (finalDoneData), the session as it
                \* saw it, the result it returned and the state its manifest has
    aborted,    \* the call's abort signal
    deadline,   \* DELEGATE_PANE_MAX_WAIT_MS have passed
    called,     \* history: the child has called the completion tool
    signalled   \* history: the child, not the shell, has written a sidecar

vars == <<config, doneFile, session, child, shell, surface, parent, aborted,
          deadline, called, signalled>>
history == <<called, signalled>>

-------------------------------------------------------------------------------
StopReasons == {"normal", "error", "aborted"}

Sidecars == [completion : {"explicit", "auto_exit", "process_exit"},
             exit : {"zero", "nonzero"}]

\* A file is not there, or does not parse, or says how the delegate ended.
ASSUME SidecarAssumption == Absent \notin Sidecars /\ Torn \notin Sidecars /\ Absent # Torn

Explicit == [completion |-> "explicit", exit |-> "zero"]
AutoExit == [completion |-> "auto_exit", exit |-> "zero"]

\* What the script's $? is after a child exited so; a signal gives 128 + n.
ExitOfScript(code) == IF code = "zero" THEN "zero" ELSE "nonzero"

ProcessExit(code) == [completion |-> "process_exit", exit |-> ExitOfScript(code)]

NormalizeFinalStatus(wasAborted, stop, exit) ==
    CASE wasAborted \/ stop = "aborted" -> "aborted"
      [] ~wasAborted /\ stop # "aborted" /\ (exit # "zero" \/ stop = "error") -> "failed"
      [] OTHER -> "completed"

\* resolvePaneCompletionOutcome.  Its test of the stop reason in an auto_exit
\* sidecar never fails: agent_end writes none after a bad stop reason.
OutcomeFails(done, text) ==
    \/ done.completion = "process_exit"
    \/ done.completion = "auto_exit" /\ ~text

\* Mutant of OutcomeExit: the exit code of the script is taken over.
OutcomeExitOfScript(done, text) == done.exit

OutcomeExit(done, text) ==
    IF OutcomeFails(done, text) THEN "nonzero" ELSE done.exit

\* The status a pane returns and the state of its manifest once a sidecar came.
PaneStatus(done, seen) ==
    IF OutcomeFails(done, seen.text)
    THEN IF seen.stop = "aborted" THEN "aborted" ELSE "failed"
    ELSE NormalizeFinalStatus(FALSE, seen.stop, OutcomeExit(done, seen.text))

PaneManifestState(done, seen) ==
    IF NormalizeFinalStatus(FALSE, seen.stop, OutcomeExit(done, seen.text)) = "completed"
    THEN "completed" ELSE "failed"

Alive == child.at \notin {"unborn", "exited"}

-------------------------------------------------------------------------------
Init ==
    /\ config \in [display : Displays, autoClose : BOOLEAN]
    /\ doneFile = Absent
    /\ session = [stop |-> "none", text |-> FALSE]
    /\ child = [at |-> "unborn", code |-> "none"]
    /\ shell = "unborn"
    /\ surface = "none"
    /\ parent = [at |-> "starting", done |-> Absent, seen |-> session,
                 status |-> "none", source |-> "none", manifest |-> "running"]
    /\ aborted = FALSE
    /\ deadline = FALSE
    /\ called = FALSE
    /\ signalled = FALSE

Child(place) == child' = [child EXCEPT !.at = place]

\* The surface is closed: the shell and the child in it are hung up.
CloseSurface ==
    /\ surface' = "closed"
    /\ shell' = "gone"
    /\ child' = IF Alive THEN [at |-> "exited", code |-> "none"] ELSE child

LeaveSurface == UNCHANGED <<surface, shell, child>>

-------------------------------------------------------------------------------
(* The child.  It works in turns, of which each ends with a message; after    *)
(* its completion call it is told to shut down and finishes what it is doing. *)

Turn ==
    /\ child.at \in {"working", "leaving"}
    /\ \E stop \in StopReasons, text \in BOOLEAN :
         session' = [stop |-> stop, text |-> session.text \/ text]
    /\ UNCHANGED <<config, doneFile, child, shell, surface, parent, aborted,
                   deadline, history>>

\* sub_agent_done: writeFileSync opens the sidecar ...
CallDone ==
    /\ child.at \in {"working", "leaving"}
    /\ Child("calling")
    /\ doneFile' = Torn
    /\ called' = TRUE
    /\ UNCHANGED <<config, session, shell, surface, parent, aborted, deadline,
                   signalled>>

\* ... and writes it; the shutdown is asked for.
WriteExplicit ==
    /\ child.at = "calling"
    /\ Child("leaving")
    /\ doneFile' = Explicit
    /\ signalled' = TRUE
    /\ UNCHANGED <<config, session, shell, surface, parent, aborted, deadline, called>>

\* Mutant of MayAutoExit: flag "w" for "wx".
MayAutoExitOver == session.stop = "normal"

\* agent_end: after a normal stop, unless there is a sidecar already.
MayAutoExit == session.stop = "normal" /\ doneFile = Absent

AgentEnd ==
    /\ child.at \in {"working", "leaving"}
    /\ session.stop # "none"
    /\ IF MayAutoExit
       THEN Child("saving") /\ doneFile' = Torn
       ELSE /\ Child(IF child.at = "leaving" THEN "leaving" ELSE "ended")
            /\ UNCHANGED doneFile
    /\ UNCHANGED <<config, session, shell, surface, parent, aborted, deadline, history>>

WriteAutoExit ==
    /\ child.at = "saving"
    /\ Child("leaving")
    /\ doneFile' = AutoExit
    /\ signalled' = TRUE
    /\ UNCHANGED <<config, session, shell, surface, parent, aborted, deadline, called>>

\* Somebody types into the pane.
Resume ==
    /\ config.display = "pane"
    /\ child.at = "ended"
    /\ Child("working")
    /\ UNCHANGED <<config, doneFile, session, shell, surface, parent, aborted,
                   deadline, history>>

\* The child quits, crashes or is killed.
ChildExits ==
    /\ Alive
    /\ \E code \in {"zero", "nonzero", "none"} :
         child' = [at |-> "exited", code |-> code]
    /\ UNCHANGED <<config, doneFile, session, shell, surface, parent, aborted,
                   deadline, history>>

\* The script: `if [ ! -f done.json ]; then printf ... > done.json; fi`.
ShellChecks ==
    /\ shell = "running" /\ child.at = "exited"
    /\ IF doneFile = Absent
       THEN shell' = "reporting" /\ doneFile' = Torn
       ELSE shell' = "gone" /\ UNCHANGED doneFile
    /\ UNCHANGED <<config, session, child, surface, parent, aborted, deadline, history>>

ShellReports ==
    /\ shell = "reporting"
    /\ shell' = "gone"
    /\ doneFile' = ProcessExit(child.code)
    /\ UNCHANGED <<config, session, child, surface, parent, aborted, deadline, history>>

-------------------------------------------------------------------------------
(* The parent in a pane. *)

\* The result, and the manifest as the `finally` leaves it.
Return(status, source, manifest) ==
    parent' = [parent EXCEPT !.at = "returned", !.status = status,
                             !.source = source, !.manifest = manifest]

\* Mutant of ClosesAtLast: only a completed delegate's surface is closed.
ClosesAtLastIfDone == config.autoClose /\ parent.at = "completing"

\* The `finally`: the surface goes, unless it is to be kept for inspection.
ClosesAtLast == config.autoClose

StartPane ==
    /\ parent.at = "starting" /\ config.display = "pane"
    /\ \/ /\ parent' = [parent EXCEPT !.at = "waiting"]     \* command sent
          /\ surface' = "open" /\ shell' = "running" /\ Child("working")
       \/ /\ Return("failed", "none", "failed")             \* no surface
          /\ UNCHANGED <<surface, shell, child>>
       \/ /\ Return("failed", "none", "failed")             \* command not sent
          /\ surface' = IF config.autoClose THEN "closed" ELSE "open"
          /\ UNCHANGED <<shell, child>>
    /\ UNCHANGED <<config, doneFile, session, aborted, deadline, history>>

Polling == parent.at = "waiting" /\ config.display = "pane"

PollAborted ==
    /\ Polling /\ aborted
    /\ Return("aborted", "none", "aborted")
    /\ IF ClosesAtLast THEN CloseSurface ELSE LeaveSurface
    /\ UNCHANGED <<config, doneFile, session, aborted, deadline, history>>

\* Mutant of DeadlineCounts: a file that is there is waited for.
DeadlineCountsWithoutFile == deadline /\ doneFile = Absent

DeadlineCounts == deadline

PollTimedOut ==
    /\ Polling /\ ~aborted /\ DeadlineCounts
    /\ Return(NormalizeFinalStatus(FALSE, parent.seen.stop, "nonzero"), "none", "failed")
    /\ CloseSurface
    /\ UNCHANGED <<config, doneFile, session, aborted, deadline, history>>

PollDone ==
    /\ Polling /\ ~aborted /\ ~DeadlineCounts
    /\ doneFile \in Sidecars
    /\ parent' = [parent EXCEPT !.at = "completing", !.done = doneFile]
    /\ UNCHANGED <<config, doneFile, session, child, shell, surface, aborted,
                   deadline, history>>

DrainSession ==
    /\ Polling
    /\ parent' = [parent EXCEPT !.seen = session]
    /\ UNCHANGED <<config, doneFile, session, child, shell, surface, aborted,
                   deadline, history>>

\* The last drain, 300 ms later, and the outcome.
CompletePane ==
    /\ parent.at = "completing"
    /\ parent' = [parent EXCEPT !.at = "returned", !.seen = session,
                                !.status = PaneStatus(parent.done, session),
                                !.source = parent.done.completion,
                                !.manifest = PaneManifestState(parent.done, session)]
    /\ IF ClosesAtLast THEN CloseSurface ELSE LeaveSurface
    /\ UNCHANGED <<config, doneFile, session, aborted, deadline, history>>

-------------------------------------------------------------------------------
(* The parent of a headless child. *)

StartHeadless ==
    /\ parent.at = "starting" /\ config.display = "headless"
    /\ \/ /\ parent' = [parent EXCEPT !.at = "waiting"]
          /\ Child("working")
       \/ /\ Return(NormalizeFinalStatus(aborted, "none", "nonzero"),   \* no spawn
                    "process_exit", "running")
          /\ UNCHANGED child
    /\ UNCHANGED <<config, doneFile, session, shell, surface, aborted, deadline, history>>

\* SIGTERM at the abort and SIGKILL 5 s later.
KillChild ==
    /\ config.display = "headless" /\ aborted /\ parent.at = "waiting"
    /\ Alive
    /\ \E code \in {"zero", "nonzero", "none"} :
         child' = [at |-> "exited", code |-> code]
    /\ UNCHANGED <<config, doneFile, session, shell, surface, parent, aborted,
                   deadline, history>>

\* `code ?? 0`: a child killed by a signal counts as one that exited with 0.
ExitOfChild == IF child.code = "nonzero" THEN "nonzero" ELSE "zero"

HeadlessSource ==
    CASE doneFile \in Sidecars -> doneFile.completion
      [] doneFile \notin Sidecars /\ (aborted \/ ExitOfChild # "zero") -> "process_exit"
      [] OTHER -> "legacy"

ChildCloses ==
    /\ config.display = "headless" /\ parent.at = "waiting"
    /\ child.at = "exited"
    /\ Return(NormalizeFinalStatus(aborted, session.stop, ExitOfChild),
              HeadlessSource, "running")
    /\ UNCHANGED <<config, doneFile, session, child, shell, surface, aborted,
                   deadline, history>>

-------------------------------------------------------------------------------
(* The world around the call. *)

Abort ==
    /\ parent.at # "returned" /\ ~aborted
    /\ aborted' = TRUE
    /\ UNCHANGED <<config, doneFile, session, child, shell, surface, parent,
                   deadline, history>>

DeadlinePasses ==
    /\ Polling /\ ~deadline
    /\ deadline' = TRUE
    /\ UNCHANGED <<config, doneFile, session, child, shell, surface, parent,
                   aborted, history>>

ChildStep ==
    \/ Turn \/ CallDone \/ WriteExplicit \/ AgentEnd \/ WriteAutoExit
    \/ Resume \/ ChildExits \/ ShellChecks \/ ShellReports

ParentStep ==
    \/ StartPane \/ PollAborted \/ PollTimedOut \/ PollDone \/ DrainSession
    \/ CompletePane \/ StartHeadless \/ KillChild \/ ChildCloses

Next == ChildStep \/ ParentStep \/ Abort \/ DeadlinePasses

Spec == Init /\ [][Next]_vars

\* The timers of the parent run and the kernel delivers its signals; nothing is
\* assumed of the child.
FairSpec ==
    /\ Spec
    /\ WF_vars(PollAborted) /\ WF_vars(PollTimedOut) /\ WF_vars(CompletePane)
    /\ WF_vars(KillChild) /\ WF_vars(ChildCloses) /\ WF_vars(DeadlinePasses)

-------------------------------------------------------------------------------
(* Properties. *)

Returned == parent.at = "returned"

Sessions == [stop : StopReasons \cup {"none"}, text : BOOLEAN]

Parents ==
    [at : {"starting", "waiting", "completing", "returned"}, done : Sidecars \cup {Absent},
     seen : Sessions, status : {"none", "completed", "failed", "aborted"},
     source : {"none", "explicit", "auto_exit", "process_exit", "legacy"},
     manifest : {"running", "completed", "failed", "aborted"}]

DelegateTypeOK ==
    /\ config \in [display : Displays, autoClose : BOOLEAN]
    /\ doneFile \in Sidecars \cup {Absent, Torn}
    /\ session \in Sessions
    /\ child \in [at : {"unborn", "working", "calling", "saving", "leaving", "ended", "exited"},
                  code : {"none", "zero", "nonzero"}]
    /\ shell \in {"unborn", "running", "reporting", "gone"}
    /\ surface \in {"none", "open", "closed"}
    /\ parent \in Parents
    /\ aborted \in BOOLEAN /\ deadline \in BOOLEAN
    /\ called \in BOOLEAN /\ signalled \in BOOLEAN

\* "Shell/process exit without a completion sidecar is still treated as failure"
\* (README.md, pane mode): neither the result nor the manifest that
\* workflow_delegate_status reads says completed unless the child itself wrote a
\* sidecar, and the two agree, whichever writer came first and whatever the
\* exit code and the session say.
CompletionWasSignalled ==
    Returned /\ config.display = "pane" =>
        /\ parent.status = "completed" => signalled
        /\ parent.status = "completed" <=> parent.manifest = "completed"

\* "Explicit completion tool writes are never overwritten" (done-tools.ts):
\* from the call on neither agent_end nor the shell gets hold of the sidecar,
\* also when the child dies within the write or goes on after it.
ExplicitStands == called => doneFile \in {Torn, Explicit}

\* Once the parent has its result the child does not work on, beside the next
\* delegate in the same directory: it has exited or its surface was closed.
\* Kept surfaces (delegatePaneAutoClose: false) are the exception.
NoWorkAfterReturn ==
    Returned /\ (config.display = "headless" \/ config.autoClose) => ~Alive

\* The call returns: in a pane by its deadline, whatever the child does and even
\* if the sidecar never parses; headless, once it is aborted.
CallReturns ==
    parent.at # "starting" /\ (config.display = "pane" \/ aborted) ~> Returned

===============================================================================
