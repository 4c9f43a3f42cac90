--------------------------- MODULE WorkflowConfig ----------------------------
(***************************************************************************)
(* What a workflow configuration is: presets of roles, the layers they come  *)
(* from, the profile among them, the resolution of a version 2 bundle into   *)
(* the same shape, and the guard that picks the preset a delegate runs with. *)
(*                                                                           *)
(* A preset is a partial function from the fields provider, model and        *)
(* thinkingLevel; an absent field is one the layer does not set.  Tools,     *)
(* prompts and the planners of deep planning go through the same catalogs    *)
(* and the same merge and are left out.  Of the runtime settings one stands  *)
(* for all: each is read, merged and written independently of the others.    *)
(***************************************************************************)
EXTENDS Naturals, Sequences, SequencesExt

CONSTANTS
    CustomWorkflow,   \* a version 2 workflow.json of the user: its config, with bindings
    CustomCatalogs    \* the user's catalogs: [agents, models, gates]

\* Beside its bindings the file sets runtime fields only; agents and goals come from the catalogs.
ASSUME WorkflowConfigAssumption ==
    /\ CustomWorkflow.config.agents = <<>> /\ CustomWorkflow.config.targets = {}
    /\ DOMAIN CustomCatalogs = {"agents", "models", "gates"}

Roles == {"brain", "coder", "reviewer"}
Delegates == {"coder", "reviewer"}
Unset == "unset"

Preset(provider, model, level) ==
    [provider |-> provider, model |-> model, thinkingLevel |-> level]

\* The fields of `over` replace those of `base`.
Over(base, over) ==
    [k \in DOMAIN base \cup DOMAIN over |-> IF k \in DOMAIN over THEN over[k] ELSE base[k]]

\* The same one level down: presets by role are merged field by field.
OverEach(base, over) ==
    Over(base, [r \in DOMAIN over |->
                   IF r \in DOMAIN base THEN Over(base[r], over[r]) ELSE over[r]])

NoConfig ==
    [profile |-> Unset, agents |-> <<>>, fallbacks |-> <<>>, runtime |-> <<>>, targets |-> {}]

\* Arrays are replaced, objects merged, absent keys keep the value below.
deepMerge(base, over) ==
    [profile |-> IF over.profile = Unset THEN base.profile ELSE over.profile,
     agents |-> OverEach(base.agents, over.agents),
     fallbacks |-> OverEach(base.fallbacks, over.fallbacks),
     runtime |-> Over(base.runtime, over.runtime),
     targets |-> IF over.targets = {} THEN base.targets ELSE over.targets]

DEFAULT_CONFIG ==
    [profile |-> Unset,
     agents |-> [brain |-> Preset("codex", "large", "xhigh"),
                 coder |-> Preset("codex", "small", "medium"),
                 reviewer |-> Preset("codex", "large", "high")],
     fallbacks |-> <<>>,
     runtime |-> [delegateDisplay |-> "headless"],
     targets |-> {"behaviour", "correctness"}]

(***************************************************************************)
(* Profiles.  The alias of gonka-hybrid applies the same presets.            *)
(***************************************************************************)
WORKFLOW_PROFILES ==
    [default |-> NoConfig,
     gonka |-> [NoConfig EXCEPT !.agents = [coder |-> Preset("gonka", "kimi", "off"),
                                            reviewer |-> Preset("gonka", "qwen", "off")]]]

normalizeWorkflowProfileId(id) == IF id \in DOMAIN WORKFLOW_PROFILES THEN id ELSE "default"

\* The first layer that names a profile, the command line before the files.
resolveWorkflowProfileSelection(cli, global, project, local) ==
    LET By(id, source) == [id |-> normalizeWorkflowProfileId(id), source |-> source]
    IN  IF cli # Unset THEN By(cli, "cli")
        ELSE IF local.profile # Unset THEN By(local.profile, "local")
        ELSE IF project.profile # Unset THEN By(project.profile, "project")
        ELSE IF global.profile # Unset THEN By(global.profile, "global")
        ELSE [id |-> "default", source |-> "default"]

\* The slip to guard against: the profile of the local file applied over that file.
ProfileOverLocal(cli, global, project, local) ==
    LET selected == resolveWorkflowProfileSelection(cli, global, project, local)
        layers == deepMerge(deepMerge(deepMerge(DEFAULT_CONFIG, global), project), local)
    IN  [config |-> deepMerge(layers, WORKFLOW_PROFILES[selected.id]), profileId |-> selected.id]

\* The profile comes just below the layer that names it, that of the command line on top.
LayersWithProfile(cli, global, project, local) ==
    LET selected == resolveWorkflowProfileSelection(cli, global, project, local)
        Below(source, config) ==
            IF selected.source = source
            THEN deepMerge(config, WORKFLOW_PROFILES[selected.id]) ELSE config
        withGlobal == deepMerge(Below("global", DEFAULT_CONFIG), global)
        withProject == deepMerge(Below("project", withGlobal), project)
        withLocal == deepMerge(Below("local", withProject), local)
    IN  [config |-> Below("cli", withLocal), profileId |-> selected.id]

(***************************************************************************)
(* A version 2 bundle.  Every file is one of                                 *)
(*     missing, torn (not JSON), managed, old (managed, earlier version),    *)
(*     legacy (the version 1 package default), custom, malformed (custom     *)
(*     JSON that the normalisers reject).                                    *)
(***************************************************************************)
Sidecars == <<"agents", "models", "gates">>
BundleFiles == {"workflow"} \cup ToSet(Sidecars)

Agent(role, preset, overrides, gates) ==
    [role |-> role, modelPreset |-> preset, overrides |-> overrides, qualityGates |-> gates]

ManagedCatalogs ==
    [agents |-> [brainDefault |-> Agent("brain", "premiumBrain", <<>>, {}),
                 coderDefault |-> Agent("coder", "premiumCoder", <<>>, {"typescript"}),
                 reviewerDefault |-> Agent("reviewer", "premiumReviewer", <<>>, {"goal", "typescript"})],
     models |-> [premiumBrain |-> Preset("codex", "large", "xhigh"),
                 premiumCoder |-> Preset("codex", "small", "medium"),
                 premiumReviewer |-> Preset("codex", "large", "high")],
     gates |-> [typescript |-> "checks", goal |-> "review-goal"]]

ManagedRoles == << <<"brain", "brainDefault">>, <<"coder", "coderDefault">>,
                   <<"reviewer", "reviewerDefault">> >>

\* What a catalog resolves to: nothing when it cannot be read or is rejected.
Catalog(bundle, key) ==
    CASE bundle[key] \in {"managed", "old"} -> ManagedCatalogs[key]
      [] bundle[key] = "custom"             -> CustomCatalogs[key]
      [] OTHER                              -> <<>>

\* A model preset without a provider and a model is dropped when the catalog is normalised.
UsablePresets(catalog) ==
    LET usable == {id \in DOMAIN catalog : {"provider", "model"} \subseteq DOMAIN catalog[id]}
    IN  [id \in usable |-> catalog[id]]

\* The overrides of an agent over its model preset, each where there is one.
ResolvedModel(bundle, agentId) ==
    LET agents == Catalog(bundle, "agents")
        presets == UsablePresets(Catalog(bundle, "models"))
    IN  IF agentId \notin DOMAIN agents THEN <<>>
        ELSE LET agent == agents[agentId]
             IN  IF agent.modelPreset \in DOMAIN presets
                 THEN Over(presets[agent.modelPreset], agent.overrides) ELSE agent.overrides

\* The goals of the first reviewer's agent that the catalog knows as review goals.
ReviewGoals(bundle, bindings) ==
    LET reviewers == SelectSeq(bindings, LAMBDA binding : binding[1] = "reviewer")
        agents == Catalog(bundle, "agents")
        gates == Catalog(bundle, "gates")
    IN  IF reviewers = <<>> \/ reviewers[1][2] \notin DOMAIN agents THEN {}
        ELSE {g \in agents[reviewers[1][2]].qualityGates :
                 g \in DOMAIN gates /\ gates[g] = "review-goal"}

\* The bindings in order, so that the last one of a role stands.
adaptV2ResolvedWorkflow(bundle, bindings) ==
    LET last(role) == FoldLeft(LAMBDA agent, binding : IF binding[1] = role THEN binding[2] ELSE agent,
                               Unset, bindings)
        bound == {bindings[i][1] : i \in DOMAIN bindings}
    IN  [NoConfig EXCEPT
            !.agents = [role \in bound |-> ResolvedModel(bundle, last(role))],
            !.targets = ReviewGoals(bundle, bindings)]

\* The global layer; errors leave diagnostics and what could be resolved.
GlobalConfig(bundle) ==
    CASE bundle["workflow"] \in {"managed", "old"} -> adaptV2ResolvedWorkflow(bundle, ManagedRoles)
      [] bundle["workflow"] = "custom" ->
            deepMerge(adaptV2ResolvedWorkflow(bundle, CustomWorkflow.bindings), CustomWorkflow.config)
      [] bundle["workflow"] = "legacy" ->
            [DEFAULT_CONFIG EXCEPT !.targets = {"requirements", "correctness"}]
      [] OTHER -> NoConfig

(***************************************************************************)
(* The guard of a delegation.                                                *)
(***************************************************************************)
Named(preset) == {"provider", "model"} \subseteq DOMAIN preset

\* A preset that does not name both is left to the child's own default.
isPresetModelAvailable(registry, preset) ==
    Named(preset) => <<preset.provider, preset.model>> \in registry

\* The slip to guard against: a fallback that names only a model borrows the provider.
PartialFallback(registry, config, role) ==
    LET primary == config.agents[role]
        fallback == IF role \in DOMAIN config.fallbacks THEN config.fallbacks[role] ELSE <<>>
        merged == Over(primary, fallback)
    IN  [ok |-> isPresetModelAvailable(registry, primary) \/ DOMAIN fallback # {},
         preset |-> IF isPresetModelAvailable(registry, primary) THEN primary ELSE merged]

resolveDelegatePresetWithFallback(registry, config, role) ==
    LET primary == config.agents[role]
        fallback == IF role \in DOMAIN config.fallbacks THEN config.fallbacks[role] ELSE <<>>
        merged == Over(primary, fallback)
    IN  CASE isPresetModelAvailable(registry, primary) -> [ok |-> TRUE, preset |-> primary]
          [] ~isPresetModelAvailable(registry, primary)
             /\ Named(fallback) /\ isPresetModelAvailable(registry, merged) ->
                [ok |-> TRUE, preset |-> merged]
          [] OTHER -> [ok |-> FALSE, preset |-> primary]

===============================================================================
