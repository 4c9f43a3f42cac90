-------------------------------- MODULE Scout --------------------------------
(***************************************************************************)
(* A scout (src/scout/runner.ts), at the end of an agent's turn: it looks   *)
(* through indexed files for markers, validates what it has found as if     *)
(* somebody else had, and records it as evidence.  It keeps to a number of  *)
(* files, of findings and of tokens, and to a deadline that is looked at    *)
(* between the files; any other amount of time may pass.                    *)
(*                                                                          *)
(* A file is the tokens of the findings that its lines would give, in the   *)
(* order of the lines.  A finding is the place of its line: every finding   *)
(* of the scan has the form that the validation asks for.                   *)
(***************************************************************************)
EXTENDS Naturals, SequencesExt

CONSTANTS
    Listings,       \* sequences of readable files: what the index may list
    FileLimits, FindingLimits, TokenLimits,     \* the limits of a run's configuration
    MinTokens       \* the least budget of tokens, whatever is asked for

ASSUME ScoutAssumption ==
    /\ \A listing \in Listings : listing \in Seq(Seq(Nat \ {0}))
    /\ FileLimits \cup FindingLimits \cup TokenLimits \cup {MinTokens} \subseteq Nat \ {0}

VARIABLES
    scout,          \* the run
    evidenceOf      \* the findings of the run that are in the evidence queue

scoutVars == <<scout, evidenceOf>>

NoScout == [at |-> "idle"]

ScoutInit == scout = NoScout /\ evidenceOf = <<>>

-------------------------------------------------------------------------------
Cost(listing, finding) == listing[finding.file][finding.line]

\* The tokens of a list of findings.
CostOf(listing, found) ==
    LET total[n \in 0..Len(found)] ==
            IF n = 0 THEN 0 ELSE total[n - 1] + Cost(listing, found[n])
    IN  total[Len(found)]

(***************************************************************************)
(* runScoutUnit; a scout that is disabled, or whose preset is, does not start. *)
(***************************************************************************)

\* The least of what is asked for, configured and preset, and the clamps.
EffectiveLimits(files, findings, tokens) ==
    [files |-> files, findings |-> findings,
     tokens |-> IF tokens < MinTokens THEN MinTokens ELSE tokens]

\* The sync may fail; the list of files is cut, and read while the tree goes on changing.
StartScout(listing, limits) ==
    /\ scout = NoScout
    /\ listing # <<>>                               \* else skipped
    /\ scout' = [at |-> "scanning",
                 listing |-> SubSeq(listing, 1, IF Len(listing) < limits.files
                                                THEN Len(listing) ELSE limits.files),
                 limits |-> limits, late |-> FALSE,
                 file |-> 0, line |-> 0, full |-> FALSE, found |-> <<>>, spent |-> 0,
                 trusted |-> <<>>, rejected |-> <<>>, counted |-> 0]
    /\ evidenceOf' = <<>>

(***************************************************************************)
(* deterministicScan, line by line: it ends with the first finding that is   *)
(* over a budget, or with the last file.                                     *)
(***************************************************************************)
WithinFile(run) == run.file > 0 /\ run.line < Len(run.listing[run.file])

\* Mutant of FitsScan: the budget is checked for what is already spent.
FitsScanSoFar(limits, spent, count, cost) ==
    spent <= limits.tokens /\ count < limits.findings

\* deterministicScan: the next finding is within the budgets.
FitsScan(limits, spent, count, cost) ==
    spent + cost <= limits.tokens /\ count < limits.findings

ScanFile ==
    /\ scout.at = "scanning" /\ ~scout.full /\ ~WithinFile(scout)
    /\ scout.file < Len(scout.listing)
    /\ scout' = [scout EXCEPT !.file = @ + 1, !.line = 0]
    /\ UNCHANGED evidenceOf

ScanLine ==
    /\ scout.at = "scanning" /\ ~scout.full /\ WithinFile(scout)
    /\ LET finding == [file |-> scout.file, line |-> scout.line + 1]
           cost == Cost(scout.listing, finding)
       IN  IF FitsScan(scout.limits, scout.spent, Len(scout.found), cost)
           THEN scout' = [scout EXCEPT !.line = @ + 1, !.found = Append(@, finding),
                                       !.spent = @ + cost]
           ELSE scout' = [scout EXCEPT !.full = TRUE]
    /\ UNCHANGED evidenceOf

\* The deadline is looked at between the files and after the scan: all of it is rejected.
DeadlinePasses ==
    /\ scout.at = "scanning" /\ (scout.full \/ ~WithinFile(scout))
    /\ scout' = [scout EXCEPT !.at = "ran", !.rejected = scout.found, !.late = TRUE]
    /\ UNCHANGED evidenceOf

(***************************************************************************)
(* validateScoutOutput: at most twice as many candidates as may be trusted   *)
(* are looked at, and one over a budget is passed over.                      *)
(***************************************************************************)
Validate ==
    /\ scout.at = "scanning"
    /\ scout.full \/ (~WithinFile(scout) /\ scout.file = Len(scout.listing))
    /\ scout' = [scout EXCEPT !.at = "validating"]
    /\ UNCHANGED evidenceOf

Looked(run) == Len(run.trusted) + Len(run.rejected)

Candidates(run) ==
    IF Len(run.found) < 2 * run.limits.findings THEN Len(run.found) ELSE 2 * run.limits.findings

ValidateFinding ==
    /\ scout.at = "validating" /\ Looked(scout) < Candidates(scout)
    /\ LET finding == scout.found[Looked(scout) + 1]
           cost == Cost(scout.listing, finding)
       IN  IF /\ scout.counted + cost <= scout.limits.tokens
              /\ Len(scout.trusted) < scout.limits.findings
           THEN scout' = [scout EXCEPT !.trusted = Append(@, finding), !.counted = @ + cost]
           ELSE scout' = [scout EXCEPT !.rejected = Append(@, finding)]
    /\ UNCHANGED evidenceOf

BeginAppends ==
    /\ scout.at = "validating" /\ Looked(scout) = Candidates(scout)
    /\ scout' = [scout EXCEPT !.at = "appending"]
    /\ UNCHANGED evidenceOf

(***************************************************************************)
(* The evidence, and the result.                                             *)
(***************************************************************************)
\* One record after the other; a failure ends the appends and is not the run's.
AppendFinding ==
    /\ scout.at = "appending" /\ Len(evidenceOf) < Len(scout.trusted)
    /\ \/ evidenceOf' = Append(evidenceOf, scout.trusted[Len(evidenceOf) + 1]) /\ UNCHANGED scout
       \/ scout' = [scout EXCEPT !.at = "ran"] /\ UNCHANGED evidenceOf

EndAppends ==
    /\ scout.at = "appending" /\ Len(evidenceOf) = Len(scout.trusted)
    /\ scout' = [scout EXCEPT !.at = "ran"]
    /\ UNCHANGED evidenceOf

ScoutReturns ==
    /\ scout.at = "ran"
    /\ scout' = NoScout
    /\ UNCHANGED evidenceOf

ScoutNext ==
    \/ \E listing \in Listings, files \in FileLimits, findings \in FindingLimits,
          tokens \in TokenLimits : StartScout(listing, EffectiveLimits(files, findings, tokens))
    \/ ScanFile \/ ScanLine \/ DeadlinePasses
    \/ Validate \/ ValidateFinding \/ BeginAppends
    \/ AppendFinding \/ EndAppends \/ ScoutReturns

ScoutSpec == ScoutInit /\ [][ScoutNext]_scoutVars

-------------------------------------------------------------------------------
\* The scan and the validation count alike: a scout that was in time trusts all
\* that it has found, within every limit, and a late one nothing; what is in the
\* queue of a failed append is the first part of what it trusts
\* (deterministicScan, validateScoutOutput, runScoutUnit).
ScoutTrustsWhatItFound ==
    scout.at \in {"appending", "ran"} =>
        /\ scout.trusted = IF scout.late THEN <<>> ELSE scout.found
        /\ CostOf(scout.listing, scout.trusted) <= scout.limits.tokens
        /\ Len(scout.trusted) <= scout.limits.findings
        /\ IsPrefix(evidenceOf, scout.trusted)

===============================================================================
