----------------------------- MODULE MCWorkspace ------------------------------
(***************************************************************************)
(* The configuration of a workspace on small instances, side by side: a       *)
(* behaviour runs the bootstrap of the global bundle with the local files at   *)
(* rest, or the overlays of two sessions over a bundle at rest.  The           *)
(* configuration that both sides make up is checked in every state of either.  *)
(***************************************************************************)
EXTENDS ConfigureOverlay, GlobalBootstrap

CONSTANTS s1, s2

VARIABLE side

workspaceVars == <<overlayVars, bootVars, side>>

MCChoices ==
    {[preset |-> <<"codex", "small">>, levels |-> {"medium"}],
     [preset |-> <<"gonka", "kimi">>, levels |-> {}]}

\* A provider without a model, and a fallback.
MCHandEdits ==
    {[NoConfig EXCEPT !.agents = [coder |-> [provider |-> "gonka"]]],
     [NoConfig EXCEPT !.profile = "gonka",
                      !.fallbacks = [coder |-> Preset("codex", "small", "medium"),
                                     reviewer |-> [model |-> "kimi"]]]}

\* Two sessions of one directory under a project with its own presets; and two of which one
\* runs below the other, with a profile on the command line.
MCEnvironments ==
    {[cwd |-> (s1 :> "root") @@ (s2 :> "root"), cliProfile |-> Unset,
      project |-> [NoConfig EXCEPT !.profile = "default",
                                   !.agents = [coder |-> [model |-> "small"],
                                               reviewer |-> [thinkingLevel |-> "low"]],
                                   !.runtime = [delegateDisplay |-> "pane"]]],
     [cwd |-> (s1 :> "root") @@ (s2 :> "below"), cliProfile |-> "gonka", project |-> NoConfig]}

\* Two bindings of the coder, an agent that overrides half a model, one whose preset is unknown.
MCCustomWorkflow ==
    [bindings |-> << <<"coder", "coderDefault">>, <<"coder", "half">>, <<"reviewer", "lost">>,
                     <<"brain", "brainDefault">> >>,
     config |-> [NoConfig EXCEPT !.profile = "gonka", !.runtime = [delegateDisplay |-> "pane"]]]

MCCustomCatalogs ==
    [agents |-> [half |-> Agent("coder", "none", [provider |-> "gonka"], {}),
                 lost |-> Agent("reviewer", "none", <<>>, {"goal", "unknown"}),
                 brainDefault |-> Agent("brain", "broken", [thinkingLevel |-> "low"], {})],
     models |-> [broken |-> [provider |-> "codex"], premiumCoder |-> Preset("gonka", "kimi", "off")],
     gates |-> [goal |-> "review-goal"]]

WorkspaceInit ==
    /\ OverlayInit /\ BootInit
    /\ side \in {"overlay", "boot"}
    /\ side = "overlay" => bundle["agents"] = "old" /\ bundle["workflow"] \in {"old", "custom"}

OnOverlay(A) == side = "overlay" /\ A /\ UNCHANGED <<bootVars, side>>
OnBoot(A) == side = "boot" /\ A /\ UNCHANGED <<overlayVars, side>>

WorkspaceNext == OnOverlay(OverlayNext(GlobalConfig(bundle))) \/ OnBoot(BootNext)

WorkspaceSpec ==
    /\ WorkspaceInit /\ [][WorkspaceNext]_workspaceVars
    /\ \A p \in Processes : WF_workspaceVars(OnBoot(BootStep(p)))

\* The properties of the configuration, of the global layer as the bundle has it.
AppliedIsEffective ==
    [][\A s \in Sessions : AppliedTakesEffect(s, GlobalConfig(bundle))]_workspaceVars
DelegatesAreAvailable == DelegatesRunAvailableModels(GlobalConfig(bundle))

===============================================================================
