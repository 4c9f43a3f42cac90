-------------------------- MODULE ConfigureOverlay ---------------------------
(***************************************************************************)
(* The configuration overlay: sessions that open it in their directory, walk  *)
(* its blocks and write .pi/workflow.local.json, while editors and other      *)
(* sessions write the same file.  A session reads the layered configuration   *)
(* when the overlay opens, the local file again when a block opens, and once   *)
(* more when the block is applied; between those reads anything may change.    *)
(***************************************************************************)
EXTENDS WorkflowConfig

CONSTANTS
    Sessions,
    Environments,   \* what stays as it is: [cwd: [Sessions -> Dirs], cliProfile, project]
    GonkaConfigured,\* whether the broker's key is in the environment
    ModelChoices,   \* models of the registry: [preset: <<provider, model>>, levels: SUBSET STRING]
    EditedRoles,    \* bound: the roles the users edit
    HandEdits,      \* bound: the configurations an editor writes into a local file
    MaxStaged,      \* bound: edits staged in one visit of the Profile config block
    MaxWrites       \* bound: writes of local files

VARIABLES
    local,      \* [Dirs -> File]: the local override of a directory
    env,        \* where the sessions run, their --workflow-profile, the project's workflow.json
    overlay,    \* [Sessions -> Overlay]
    writes      \* writes of local files so far

overlayVars == <<local, env, overlay, writes>>

\* A session below the project's root has a directory of its own.
Dirs == {"root", "below"}

ASSUME ConfigureOverlayAssumption ==
    /\ \A e \in Environments : e.cwd \in [Sessions -> Dirs]
    /\ \A config \in HandEdits : DOMAIN config = DOMAIN NoConfig

File(state, config) == [state |-> state, config |-> config]
NoFile == File("missing", NoConfig)

\* A file that is missing, or that does not parse, reads as an empty object.
Contents(file) == IF file.state = "written" THEN file.config ELSE NoConfig
readExistingWorkflowLocal(dir) == Contents(local[dir])

\* The nearest file: that of the directory itself, else the one above.
findNearestFile(files, dir) ==
    IF files[dir].state = "missing" THEN files["root"] ELSE files[dir]

loadWorkflowConfig(files, dir, global) ==
    LayersWithProfile(env.cliProfile, global, env.project, Contents(findNearestFile(files, dir)))

(***************************************************************************)
(* Drafts.  An edit of a role is cleared, or a preset to merge.              *)
(***************************************************************************)
Cleared == [cleared |-> TRUE]
IsCleared(edit) == "cleared" \in DOMAIN edit

\* The presets of the local file become edits; those without a field do not.
hydrated(presets) ==
    LET kept == {r \in DOMAIN presets : DOMAIN presets[r] # {}}
    IN  [r \in kept |-> presets[r]]

hydrateProfileConfigDraft(localConfig, loadedProfile) ==
    [profile |-> IF localConfig.agents # <<>> THEN "custom" ELSE loadedProfile,
     agents |-> hydrated(localConfig.agents),
     fallbacks |-> hydrated(localConfig.fallbacks)]

profileFromLoaded(id) == IF id = "gonka" THEN "gonka" ELSE "default"

\* Roles without an edit are kept as the file has them.
Edited(presets, edits) ==
    LET cleared == {r \in DOMAIN edits : IsCleared(edits[r])}
        merged == OverEach(presets, [r \in DOMAIN edits \ cleared |-> edits[r]])
    IN  [r \in DOMAIN merged \ cleared |-> merged[r]]

buildWorkflowLocalPayload(existing, draft) ==
    [existing EXCEPT
        !.profile = IF draft.profile = "custom" THEN Unset ELSE draft.profile,
        !.agents = Edited(@, draft.agents),
        !.fallbacks = Edited(@, draft.fallbacks)]

buildWorkflowLocalRuntimePayload(existing, runtime) ==
    [existing EXCEPT !.runtime = Over(@, runtime)]

NoDraft == [profile |-> "default", agents |-> <<>>, fallbacks |-> <<>>]
Closed ==
    [block |-> "closed", profileId |-> "default", runtime |-> <<>>, fallbackRoles |-> {},
     draft |-> NoDraft, opened |-> NoConfig, staged |-> {}]

OverlayInit ==
    /\ local = [d \in Dirs |-> NoFile]
    /\ env \in Environments
    /\ overlay = [s \in Sessions |-> Closed]
    /\ writes = 0

(***************************************************************************)
(* The overlay and its root menu.                                            *)
(***************************************************************************)
InBlock(s, block) == overlay[s].block = block

showWorkflowConfigureOverlay(s, global) ==
    /\ InBlock(s, "closed")
    /\ LET loaded == loadWorkflowConfig(local, env.cwd[s], global)
       IN  overlay' = [overlay EXCEPT
               ![s] = [Closed EXCEPT !.block = "root", !.profileId = loaded.profileId,
                                     !.runtime = loaded.config.runtime,
                                     !.fallbackRoles = DOMAIN loaded.config.fallbacks]]
    /\ UNCHANGED <<local, env, writes>>

CloseOverlay(s) ==
    /\ InBlock(s, "root")
    /\ overlay' = [overlay EXCEPT ![s] = Closed]
    /\ UNCHANGED <<local, env, writes>>

\* What a block leaves behind when it is left.
AtRoot(o) == [o EXCEPT !.block = "root", !.draft = NoDraft, !.opened = NoConfig, !.staged = {}]

BackToRoot(s) ==
    /\ overlay[s].block \in {"profile", "config", "runtime"}
    /\ overlay' = [overlay EXCEPT ![s] = AtRoot(@)]
    /\ UNCHANGED <<local, env, writes>>

\* writeWorkflowLocalOverride renames a finished file into place, or fails and leaves all as it was.
Apply(s, payload) ==
    \/ /\ writes < MaxWrites
       /\ local' = [local EXCEPT ![env.cwd[s]] = File("written", payload)]
       /\ overlay' = [overlay EXCEPT ![s] = Closed]
       /\ writes' = writes + 1
       /\ UNCHANGED env
    \/ /\ overlay' = [overlay EXCEPT ![s] = AtRoot(@)]
       /\ UNCHANGED <<local, env, writes>>

(***************************************************************************)
(* The Profile block: the profile, and nothing else.                         *)
(***************************************************************************)
EnterProfileBlock(s) ==
    /\ InBlock(s, "root")
    /\ LET current == IF readExistingWorkflowLocal(env.cwd[s]).agents # <<>> THEN "custom"
                      ELSE profileFromLoaded(overlay[s].profileId)
       IN  overlay' = [overlay EXCEPT ![s].block = "profile", ![s].draft.profile = current]
    /\ UNCHANGED <<local, env, writes>>

SelectProfile(s) ==
    /\ InBlock(s, "profile")
    /\ \E profile \in {"default", "custom"} \cup (IF GonkaConfigured THEN {"gonka"} ELSE {}) :
          overlay' = [overlay EXCEPT ![s].draft.profile = profile]
    /\ UNCHANGED <<local, env, writes>>

ApplyProfileBlock(s) ==
    /\ InBlock(s, "profile")
    /\ Apply(s, buildWorkflowLocalPayload(readExistingWorkflowLocal(env.cwd[s]), overlay[s].draft))

(***************************************************************************)
(* The Profile config block: staged presets of roles and of their fallbacks. *)
(***************************************************************************)
EnterConfigBlock(s) ==
    /\ InBlock(s, "root")
    /\ LET existing == readExistingWorkflowLocal(env.cwd[s])
       IN  overlay' = [overlay EXCEPT
               ![s].block = "config",
               ![s].opened = existing,
               ![s].draft = hydrateProfileConfigDraft(existing, profileFromLoaded(overlay[s].profileId))]
    /\ UNCHANGED <<local, env, writes>>

\* A model and one of its levels; a model without levels drops the level of the edit.
Picked(edit, choice, level) ==
    LET kept == [f \in DOMAIN edit \ {"cleared", "thinkingLevel"} |-> edit[f]]
        named == Over(kept, [provider |-> choice.preset[1], model |-> choice.preset[2]])
    IN  IF choice.levels = {} THEN named ELSE Over(named, [thinkingLevel |-> level])

\* The edits with one more, or another, for the role.
WithEdit(edits, role, edit) ==
    [r \in DOMAIN edits \cup {role} |-> IF r = role THEN edit ELSE edits[r]]

MayStage(s) == InBlock(s, "config") /\ Cardinality(overlay[s].staged) < MaxStaged

EditOf(edits, role) == IF role \in DOMAIN edits THEN edits[role] ELSE <<>>

StageRole(s) ==
    /\ MayStage(s)
    /\ \E role \in EditedRoles, choice \in ModelChoices :
          \E level \in (IF choice.levels = {} THEN {Unset} ELSE choice.levels) :
             overlay' = [overlay EXCEPT
                 ![s].draft.profile = "custom",
                 ![s].draft.agents = WithEdit(@, role, Picked(EditOf(@, role), choice, level)),
                 ![s].staged = @ \cup {<<"agents", role>>}]
    /\ UNCHANGED <<local, env, writes>>

\* Offered for a role that has an edit.
ClearRole(s) ==
    /\ MayStage(s)
    /\ \E role \in EditedRoles \cap DOMAIN overlay[s].draft.agents :
          overlay' = [overlay EXCEPT
              ![s].draft.profile = "custom",
              ![s].draft.agents = WithEdit(@, role, Cleared),
              ![s].staged = @ \cup {<<"agents", role>>}]
    /\ UNCHANGED <<local, env, writes>>

\* A fallback is staged afresh, without what an earlier edit had.
StageFallback(s) ==
    /\ MayStage(s)
    /\ \E role \in EditedRoles \cap Delegates, choice \in ModelChoices :
          \E level \in (IF choice.levels = {} THEN {Unset} ELSE choice.levels) :
             overlay' = [overlay EXCEPT
                 ![s].draft.fallbacks = WithEdit(@, role, Picked(<<>>, choice, level)),
                 ![s].staged = @ \cup {<<"fallbacks", role>>}]
    /\ UNCHANGED <<local, env, writes>>

\* Offered for a role with a fallback, in the draft or in any layer as the overlay opened.
ClearFallback(s) ==
    /\ MayStage(s)
    /\ \E role \in EditedRoles \cap (DOMAIN overlay[s].draft.fallbacks \cup overlay[s].fallbackRoles) :
          overlay' = [overlay EXCEPT
              ![s].draft.fallbacks = WithEdit(@, role, Cleared),
              ![s].staged = @ \cup {<<"fallbacks", role>>}]
    /\ UNCHANGED <<local, env, writes>>

StaleBase(s) == overlay[s].opened

\* What the payload is built over: the file as it is now.
PayloadBase(s) == readExistingWorkflowLocal(env.cwd[s])
ApplyConfigBlock(s) ==
    /\ InBlock(s, "config")
    /\ Apply(s, buildWorkflowLocalPayload(PayloadBase(s), overlay[s].draft))

(***************************************************************************)
(* The Runtime block: every effective value of the overlay's opening is      *)
(* written, the ones the user left alone too.                                *)
(***************************************************************************)
EnterRuntimeBlock(s) ==
    /\ InBlock(s, "root")
    /\ overlay' = [overlay EXCEPT ![s].block = "runtime"]
    /\ UNCHANGED <<local, env, writes>>

SaveRuntimeBlock(s) ==
    /\ InBlock(s, "runtime")
    /\ \E display \in {overlay[s].runtime.delegateDisplay, "headless", "pane"} :
          Apply(s, buildWorkflowLocalRuntimePayload(readExistingWorkflowLocal(env.cwd[s]),
                                                    Over(overlay[s].runtime, [delegateDisplay |-> display])))

(***************************************************************************)
(* Anything else that writes a local file: an editor, git, another tool.     *)
(***************************************************************************)
EditLocal ==
    /\ writes < MaxWrites
    /\ \E d \in Dirs :
          \/ \E config \in HandEdits : local' = [local EXCEPT ![d] = File("written", config)]
          \/ local' = [local EXCEPT ![d] = File("broken", NoConfig)]
          \/ local' = [local EXCEPT ![d] = NoFile]
    /\ writes' = writes + 1
    /\ UNCHANGED <<env, overlay>>

OverlayNext(global) ==
    \/ \E s \in Sessions :
          \/ showWorkflowConfigureOverlay(s, global) \/ CloseOverlay(s) \/ BackToRoot(s)
          \/ EnterProfileBlock(s) \/ SelectProfile(s) \/ ApplyProfileBlock(s)
          \/ EnterConfigBlock(s) \/ StageRole(s) \/ ClearRole(s)
          \/ StageFallback(s) \/ ClearFallback(s) \/ ApplyConfigBlock(s)
          \/ EnterRuntimeBlock(s) \/ SaveRuntimeBlock(s)
    \/ EditLocal

(***************************************************************************)
(* Properties.                                                               *)
(***************************************************************************)

\* Session s has just written the local file of its directory.
Wrote(s) == overlay[s].block \notin {"closed", "root"} /\ writes' = writes + 1 /\ overlay'[s] = Closed

\* What another session or an editor added after a Profile config block was opened survives the
\* block's Apply, as does everything the block does not edit: the Apply reads the file again, and
\* an entry is written only for a role that was hydrated or staged.
ApplyKeepsLaterWork ==
    [][\A s \in Sessions :
          InBlock(s, "config") /\ Wrote(s) =>
             LET before == readExistingWorkflowLocal(env.cwd[s])
                 after == local'[env.cwd[s]].config
                 opened == overlay[s].opened
                 Kept(part, old, new, known) ==
                    \A r \in DOMAIN old \ known :
                       <<part, r>> \notin overlay[s].staged => r \in DOMAIN new /\ new[r] = old[r]
             IN  /\ Kept("agents", before.agents, after.agents, DOMAIN opened.agents)
                 /\ Kept("fallbacks", before.fallbacks, after.fallbacks, DOMAIN opened.fallbacks)
                 /\ after.runtime = before.runtime /\ after.targets = before.targets]_overlayVars

\* Nothing a session applies is on top of the profile of the command line.
CliSets(role) ==
    env.cliProfile # Unset
        /\ role \in DOMAIN WORKFLOW_PROFILES[normalizeWorkflowProfileId(env.cliProfile)].agents

\* What a session applies is what the next delegation of its directory gets, whatever the layers
\* below say: the staged presets and the others of the local file, the presets of the chosen
\* profile for the roles that file leaves out, and the runtime settings, those that the block only
\* showed included.  Only the profile of the command line outranks it.
AppliedTakesEffect(s, global) ==
    Wrote(s) =>
        LET draft == overlay[s].draft
            effective == loadWorkflowConfig(local', env.cwd[s], global)
            own == local'[env.cwd[s]].config
        IN  /\ InBlock(s, "config") =>
                  \A r \in DOMAIN draft.agents :
                     IsCleared(draft.agents[r]) \/ CliSets(r)
                        \/ \A f \in DOMAIN draft.agents[r] :
                              effective.config.agents[r][f] = draft.agents[r][f]
            /\ \A r \in DOMAIN own.agents :
                  CliSets(r) \/ \A f \in DOMAIN own.agents[r] :
                                   effective.config.agents[r][f] = own.agents[r][f]
            /\ InBlock(s, "profile") /\ draft.profile # "custom" /\ env.cliProfile = Unset =>
                  /\ effective.profileId = draft.profile
                  /\ LET chosen == WORKFLOW_PROFILES[draft.profile].agents
                     IN  \A r \in DOMAIN chosen \ DOMAIN own.agents :
                            \A f \in DOMAIN chosen[r] : effective.config.agents[r][f] = chosen[r][f]
            /\ InBlock(s, "runtime") =>
                  /\ DOMAIN overlay[s].runtime \subseteq DOMAIN own.runtime
                  /\ \A f \in DOMAIN own.runtime : effective.config.runtime[f] = own.runtime[f]

\* A delegation runs with a model of the registry: the preset's own, or the fallback's after the
\* same check, or it is refused; presets put together from several layers included.
DelegatesRunAvailableModels(global) ==
    \A d \in Dirs :
        LET config == loadWorkflowConfig(local, d, global).config
        IN  \A role \in Delegates, registry \in SUBSET {choice.preset : choice \in ModelChoices} :
                LET resolution == resolveDelegatePresetWithFallback(registry, config, role)
                IN  resolution.ok =>
                        <<resolution.preset.provider, resolution.preset.model>> \in registry

===============================================================================
