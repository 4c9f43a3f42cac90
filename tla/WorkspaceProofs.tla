---------------------------- MODULE WorkspaceProofs ---------------------------
(*****************************************************************************)
(* What holds of the configuration of a workspace for any number of sessions, *)
(* processes, kills and edits by the user, and whatever the layers contain.   *)
(*                                                                            *)
(* Of the bundle: a file that a process is about to finish was truncated by   *)
(* a process before, and nobody but a process touches it until then, so that  *)
(* what is overwritten is torn, or was finished by another process meanwhile. *)
(*                                                                            *)
(* Of the layers: whatever they contain, what they merge to names the roles   *)
(* of the defaults, and only a preset that the registry has is resolved.      *)
(*                                                                            *)
(* Of the local file: what a session has in its draft it has hydrated when it *)
(* opened the block, or staged since; and only the profile of the command     *)
(* line lies over that file.                                                  *)
(*****************************************************************************)
EXTENDS MCWorkspace, TLAPS

-------------------------------------------------------------------------------
(* The bundle. *)

LEMMA OrderOfBundle ==
    /\ Len(Order) = 4
    /\ \A i \in 1..4 : Order[i] \in BundleFiles
    /\ Order[1] = "workflow"
  <1>1. ToSet(Sidecars) = {"agents", "models", "gates"}
    BY DEF ToSet, Sidecars
  <1> QED
    BY <1>1 DEF Order, BundleFiles

-------------------------------------------------------------------------------
(* Every file that is being written is one that a process has truncated.      *)

WritesWhatIsTorn ==
    \A p \in Processes :
        boot[p].writing => /\ boot[p].file \in 1..Len(Order)
                           /\ bundle[Order[boot[p].file]] \in {"torn", "managed"}

BootInv == BootTypeOK /\ WritesWhatIsTorn

LEMMA BootInitInv == BootInit => BootInv
  <1> SUFFICES ASSUME BootInit PROVE BootInv
    OBVIOUS
  <1>1. BootTypeOK
    BY OrderOfBundle DEF BootInit, BootTypeOK, NotStarted, FileStates
  <1>2. WritesWhatIsTorn
    BY DEF BootInit, WritesWhatIsTorn, NotStarted
  <1> QED
    BY <1>1, <1>2 DEF BootInv

LEMMA AfterFileIsType ==
    ASSUME BootTypeOK, NEW p \in Processes
    PROVE  /\ AfterFile(p) \in [file : 0..Len(Order), writing : BOOLEAN]
           /\ ~AfterFile(p).writing
  BY OrderOfBundle DEF BootTypeOK, AfterFile, NotStarted

LEMMA BootStepInv == BootInv /\ [BootNext]_bootVars => BootInv'
  <1> SUFFICES ASSUME BootInv, [BootNext]_bootVars PROVE BootInv'
    OBVIOUS
  <1> USE OrderOfBundle
  <1>1. ASSUME NEW p \in Processes, ensureManagedGlobalWorkflow(p) PROVE BootInv'
    <2>1. BootTypeOK'
      BY <1>1 DEF BootInv, BootTypeOK, ensureManagedGlobalWorkflow, FileStates
    <2>2. WritesWhatIsTorn'
      BY <1>1 DEF BootInv, BootTypeOK, WritesWhatIsTorn, ensureManagedGlobalWorkflow
    <2> QED
      BY <2>1, <2>2 DEF BootInv
  <1>2. ASSUME NEW p \in Processes, FinishWrite(p) PROVE BootInv'
    <2>1. BootTypeOK'
      BY <1>2, AfterFileIsType DEF BootInv, BootTypeOK, FinishWrite, FileStates
    <2>2. WritesWhatIsTorn'
      BY <1>2, AfterFileIsType DEF BootInv, BootTypeOK, WritesWhatIsTorn, FinishWrite
    <2> QED
      BY <2>1, <2>2 DEF BootInv
  <1>3. ASSUME NEW p \in Processes, writeManagedSidecar(p) PROVE BootInv'
    <2>1. CASE Overwritten(bundle[Order[boot[p].file]])
      <3>1. /\ boot[p].file \in 2..4
            /\ bundle' = [bundle EXCEPT ![Order[boot[p].file]] = "torn"]
            /\ boot' = [boot EXCEPT ![p].writing = TRUE]
            /\ UNCHANGED <<kills, userEdits>>
        BY <1>3, <2>1 DEF BootInv, BootTypeOK, writeManagedSidecar
      <3>2. BootTypeOK'
        BY <3>1 DEF BootInv, BootTypeOK, FileStates
      <3>3. WritesWhatIsTorn'
        BY <3>1 DEF BootInv, BootTypeOK, WritesWhatIsTorn
      <3> QED
        BY <3>2, <3>3 DEF BootInv
    <2>2. CASE ~Overwritten(bundle[Order[boot[p].file]])
      <3>1. BootTypeOK'
        BY <1>3, <2>2, AfterFileIsType DEF BootInv, BootTypeOK, writeManagedSidecar
      <3>2. WritesWhatIsTorn'
        BY <1>3, <2>2, AfterFileIsType
        DEF BootInv, BootTypeOK, WritesWhatIsTorn, writeManagedSidecar
      <3> QED
        BY <3>1, <3>2 DEF BootInv
    <2> QED
      BY <2>1, <2>2
  <1>4. ASSUME NEW p \in Processes, Killed(p) PROVE BootInv'
    <2>1. BootTypeOK'
      BY <1>4 DEF BootInv, BootTypeOK, Killed, NotStarted
    <2>2. WritesWhatIsTorn'
      BY <1>4 DEF BootInv, BootTypeOK, WritesWhatIsTorn, Killed, NotStarted
    <2> QED
      BY <2>1, <2>2 DEF BootInv
  <1>5. ASSUME UserEdits PROVE BootInv'
    <2>1. ASSUME NEW f \in BundleFiles, NEW content \in {"custom", "malformed", "missing"},
                 ~BeingWritten(f), bundle' = [bundle EXCEPT ![f] = content],
                 UNCHANGED <<boot, kills>>, userEdits' = userEdits + 1
          PROVE  BootInv'
      BY <2>1 DEF BootInv, BootTypeOK, WritesWhatIsTorn, BeingWritten, FileStates
    <2>2. ASSUME \A p \in Processes : boot[p] = NotStarted,
                 bundle' = [f \in BundleFiles |->
                               IF bundle[f] = "managed" THEN "old" ELSE bundle[f]],
                 UNCHANGED <<boot, kills>>, userEdits' = userEdits + 1
          PROVE  BootInv'
      BY <2>2 DEF BootInv, BootTypeOK, WritesWhatIsTorn, NotStarted, FileStates
    <2> QED
      BY <1>5, <2>1, <2>2 DEF UserEdits
  <1>6. CASE UNCHANGED bootVars
    BY <1>6 DEF bootVars, BootInv, BootTypeOK, WritesWhatIsTorn
  <1> QED
    BY <1>1, <1>2, <1>3, <1>4, <1>5, <1>6 DEF BootNext, BootStep

\* The bundle and what processes are at have their types throughout.
THEOREM BootTyping == BootSpec => []BootTypeOK
  <1>1. BootInv => BootTypeOK
    BY DEF BootInv
  <1> QED
    BY BootInitInv, BootStepInv, <1>1, PTL DEF BootSpec

-------------------------------------------------------------------------------
(* A step of a process leaves the files of the user alone.                    *)

LEMMA StepSparesUserFiles ==
    ASSUME BootInv, BootNext, boot' # boot,
           NEW f \in BundleFiles, bundle[f] \in {"custom", "malformed"}
    PROVE  bundle'[f] = bundle[f]
  <1> USE OrderOfBundle
  <1>1. ASSUME NEW p \in Processes, ensureManagedGlobalWorkflow(p) PROVE bundle'[f] = bundle[f]
    BY <1>1 DEF BootInv, BootTypeOK, ensureManagedGlobalWorkflow, Refreshed
  <1>2. ASSUME NEW p \in Processes, FinishWrite(p) PROVE bundle'[f] = bundle[f]
    BY <1>2 DEF BootInv, BootTypeOK, WritesWhatIsTorn, FinishWrite
  <1>3. ASSUME NEW p \in Processes, writeManagedSidecar(p) PROVE bundle'[f] = bundle[f]
    BY <1>3 DEF BootInv, BootTypeOK, writeManagedSidecar, Overwritten
  <1>4. ASSUME NEW p \in Processes, Killed(p) PROVE bundle'[f] = bundle[f]
    BY <1>4 DEF Killed
  <1>5. ~UserEdits
    BY DEF UserEdits
  <1> QED
    BY <1>1, <1>2, <1>3, <1>4, <1>5 DEF BootNext, BootStep

\* No process ever replaces what the user made of a file of the bundle, nor one it cannot read,
\* however many start at once and are killed, and whatever the user does meanwhile
\* (ensureManagedGlobalWorkflow, writeManagedSidecar).
THEOREM UserFilesSurvive == BootSpec => CustomFilesSurvive
  <1>1. BootInv /\ [BootNext]_bootVars =>
            [boot' # boot => \A f \in BundleFiles :
                bundle[f] \in {"custom", "malformed"} => bundle'[f] = bundle[f]]_bootVars
    BY StepSparesUserFiles DEF bootVars
  <1> QED
    BY BootInitInv, BootStepInv, <1>1, PTL DEF BootSpec, CustomFilesSurvive

-------------------------------------------------------------------------------
(* Layers.  A merge takes no field away, so that every role keeps the provider *)
(* and the model that the defaults name.                                        *)

LEMMA OverDomain ==
    ASSUME NEW base, NEW over
    PROVE  DOMAIN Over(base, over) = DOMAIN base \cup DOMAIN over
  BY DEF Over

LEMMA OverTop ==
    ASSUME NEW base, NEW over, NEW k \in DOMAIN over
    PROVE  k \in DOMAIN Over(base, over) /\ Over(base, over)[k] = over[k]
  BY DEF Over

LEMMA OverLower ==
    ASSUME NEW base, NEW over, NEW k \in DOMAIN base, k \notin DOMAIN over
    PROVE  Over(base, over)[k] = base[k]
  BY DEF Over

LEMMA OverEachDomain ==
    ASSUME NEW base, NEW over
    PROVE  DOMAIN OverEach(base, over) = DOMAIN base \cup DOMAIN over
  BY DEF OverEach, Over

LEMMA OverEachMerges ==
    ASSUME NEW base, NEW over, NEW r \in DOMAIN base, r \in DOMAIN over
    PROVE  OverEach(base, over)[r] = Over(base[r], over[r])
  <1> DEFINE merged == [k \in DOMAIN over |->
                           IF k \in DOMAIN base THEN Over(base[k], over[k]) ELSE over[k]]
  <1>1. DOMAIN merged = DOMAIN over /\ merged[r] = Over(base[r], over[r])
    OBVIOUS
  <1>2. OverEach(base, over) = Over(base, merged)
    BY DEF OverEach
  <1> HIDE DEF merged
  <1>3. Over(base, merged)[r] = merged[r]
    BY <1>1 DEF Over
  <1> QED
    BY <1>1, <1>2, <1>3

LEMMA OverEachLower ==
    ASSUME NEW base, NEW over, NEW r \in DOMAIN base, r \notin DOMAIN over
    PROVE  OverEach(base, over)[r] = base[r]
  <1> DEFINE merged == [k \in DOMAIN over |->
                           IF k \in DOMAIN base THEN Over(base[k], over[k]) ELSE over[k]]
  <1>1. DOMAIN merged = DOMAIN over
    OBVIOUS
  <1>2. OverEach(base, over) = Over(base, merged)
    BY DEF OverEach
  <1> HIDE DEF merged
  <1> QED
    BY <1>1, <1>2, OverLower

LEMMA OverEachTop ==
    ASSUME NEW base, NEW over, NEW r \in DOMAIN over, NEW f \in DOMAIN over[r]
    PROVE  /\ r \in DOMAIN OverEach(base, over)
           /\ f \in DOMAIN OverEach(base, over)[r]
           /\ OverEach(base, over)[r][f] = over[r][f]
  <1>1. r \in DOMAIN OverEach(base, over)
    BY OverEachDomain
  <1>2. CASE r \in DOMAIN base
    <2>1. f \in DOMAIN Over(base[r], over[r]) /\ Over(base[r], over[r])[f] = over[r][f]
      BY OverTop
    <2> QED
      BY <1>1, <1>2, <2>1, OverEachMerges
  <1>3. CASE r \notin DOMAIN base
    <2> DEFINE merged == [k \in DOMAIN over |->
                             IF k \in DOMAIN base THEN Over(base[k], over[k]) ELSE over[k]]
    <2>1. DOMAIN merged = DOMAIN over /\ merged[r] = over[r]
      BY <1>3
    <2>2. OverEach(base, over) = Over(base, merged)
      BY DEF OverEach
    <2> HIDE DEF merged
    <2> QED
      BY <1>1, <2>1, <2>2, OverTop
  <1> QED
    BY <1>2, <1>3

LEMMA OverEachKeeps ==
    ASSUME NEW base, NEW over, NEW r \in DOMAIN base
    PROVE  /\ r \in DOMAIN OverEach(base, over)
           /\ DOMAIN base[r] \subseteq DOMAIN OverEach(base, over)[r]
  <1>1. DOMAIN base[r] \subseteq DOMAIN Over(base[r], over[r])
    BY OverDomain
  <1>2. r \in DOMAIN OverEach(base, over)
    BY OverEachDomain
  <1>3. CASE r \in DOMAIN over
    BY <1>1, <1>2, <1>3, OverEachMerges
  <1>4. CASE r \notin DOMAIN over
    BY <1>2, <1>4, OverEachLower
  <1> QED
    BY <1>3, <1>4

\* A configuration names a preset with provider and model for each delegate.
NamesDelegates(config) ==
    \A role \in Delegates : role \in DOMAIN config.agents /\ Named(config.agents[role])

LEMMA MergeNames ==
    ASSUME NEW base, NEW over, NamesDelegates(base)
    PROVE  NamesDelegates(deepMerge(base, over))
  <1>1. deepMerge(base, over).agents = OverEach(base.agents, over.agents)
    BY Zenon DEF deepMerge
  <1>2. ASSUME NEW role \in Delegates
        PROVE  /\ role \in DOMAIN OverEach(base.agents, over.agents)
               /\ Named(OverEach(base.agents, over.agents)[role])
    BY OverEachKeeps DEF NamesDelegates, Named
  <1> QED
    BY <1>1, <1>2 DEF NamesDelegates

LEMMA LayersName ==
    ASSUME NEW cli, NEW global, NEW project, NEW own
    PROVE  NamesDelegates(LayersWithProfile(cli, global, project, own).config)
  <1> DEFINE selected == resolveWorkflowProfileSelection(cli, global, project, own)
             Below(source, config) ==
                 IF selected.source = source
                 THEN deepMerge(config, WORKFLOW_PROFILES[selected.id]) ELSE config
             withGlobal == deepMerge(Below("global", DEFAULT_CONFIG), global)
             withProject == deepMerge(Below("project", withGlobal), project)
             withLocal == deepMerge(Below("local", withProject), own)
  <1>1. LayersWithProfile(cli, global, project, own).config = Below("cli", withLocal)
    BY DEF LayersWithProfile
  <1> HIDE DEF selected
  <1>2. ASSUME NEW source, NEW config, NamesDelegates(config)
        PROVE  NamesDelegates(Below(source, config))
    BY <1>2, MergeNames
  <1>3. NamesDelegates(DEFAULT_CONFIG)
    BY DEF NamesDelegates, DEFAULT_CONFIG, Delegates, Preset, Named
  <1> HIDE DEF Below
  <1>4. NamesDelegates(withGlobal)
    BY <1>2, <1>3, MergeNames
  <1>5. NamesDelegates(withProject)
    BY <1>2, <1>4, MergeNames
  <1>6. NamesDelegates(withLocal)
    BY <1>2, <1>5, MergeNames
  <1> QED
    BY <1>1, <1>2, <1>6

LEMMA ResolvedIsAvailable ==
    ASSUME NEW config, NamesDelegates(config), NEW role \in Delegates, NEW registry,
           resolveDelegatePresetWithFallback(registry, config, role).ok
    PROVE  LET preset == resolveDelegatePresetWithFallback(registry, config, role).preset
           IN  <<preset.provider, preset.model>> \in registry
  <1> DEFINE primary == config.agents[role]
             fallback == IF role \in DOMAIN config.fallbacks THEN config.fallbacks[role] ELSE <<>>
             merged == Over(primary, fallback)
             resolution == resolveDelegatePresetWithFallback(registry, config, role)
  <1>1. Named(primary)
    BY DEF NamesDelegates
  <1>2. Named(fallback) => Named(merged)
    <2> HIDE DEF primary, fallback
    <2>1. DOMAIN merged = DOMAIN primary \cup DOMAIN fallback
      BY OverDomain
    <2> HIDE DEF merged
    <2> QED
      BY <2>1 DEF Named
  <1>3. \/ resolution.preset = primary /\ isPresetModelAvailable(registry, primary)
        \/ /\ resolution.preset = merged
           /\ Named(fallback) /\ isPresetModelAvailable(registry, merged)
    <2> HIDE DEF merged, fallback, primary
    <2>1. resolution =
             CASE isPresetModelAvailable(registry, primary) -> [ok |-> TRUE, preset |-> primary]
               [] ~isPresetModelAvailable(registry, primary)
                    /\ Named(fallback) /\ isPresetModelAvailable(registry, merged) ->
                     [ok |-> TRUE, preset |-> merged]
               [] OTHER -> [ok |-> FALSE, preset |-> primary]
      BY DEF resolveDelegatePresetWithFallback, primary, fallback, merged
    <2>2. resolution.ok
      OBVIOUS
    <2> HIDE DEF resolution
    <2>3. CASE isPresetModelAvailable(registry, primary)
      <3>1. resolution = [ok |-> TRUE, preset |-> primary]
        BY <2>1, <2>3
      <3> QED
        BY <2>3, <3>1
    <2>4. CASE /\ ~isPresetModelAvailable(registry, primary)
               /\ Named(fallback) /\ isPresetModelAvailable(registry, merged)
      <3>1. resolution = [ok |-> TRUE, preset |-> merged]
        BY <2>1, <2>4
      <3> QED
        BY <2>4, <3>1
    <2>5. CASE /\ ~isPresetModelAvailable(registry, primary)
               /\ ~(Named(fallback) /\ isPresetModelAvailable(registry, merged))
      <3>1. resolution = [ok |-> FALSE, preset |-> primary]
        BY <2>1, <2>5
      <3> QED
        BY <2>2, <3>1
    <2> QED
      BY <2>3, <2>4, <2>5
  <1> HIDE DEF merged, fallback, primary, resolution
  <1>4. CASE resolution.preset = primary /\ isPresetModelAvailable(registry, primary)
    BY <1>1, <1>4 DEF isPresetModelAvailable, resolution
  <1>5. CASE /\ resolution.preset = merged
             /\ Named(fallback) /\ isPresetModelAvailable(registry, merged)
    BY <1>2, <1>5 DEF isPresetModelAvailable, resolution
  <1> QED
    BY <1>3, <1>4, <1>5

\* A delegate never runs with a model that the registry does not have, whatever is in the layers
\* and in the files of any session (resolveDelegatePresetWithFallback over loadWorkflowConfig).
THEOREM DelegatesRunWhatIsThere == WorkspaceSpec => []DelegatesAreAvailable
  <1>1. DelegatesAreAvailable
    <2> SUFFICES ASSUME NEW d \in Dirs, NEW role \in Delegates,
                        NEW registry \in SUBSET {choice.preset : choice \in ModelChoices},
                        resolveDelegatePresetWithFallback(registry,
                            loadWorkflowConfig(local, d, GlobalConfig(bundle)).config, role).ok
                 PROVE  LET preset == resolveDelegatePresetWithFallback(registry,
                                loadWorkflowConfig(local, d, GlobalConfig(bundle)).config, role).preset
                        IN  <<preset.provider, preset.model>> \in registry
      BY DEF DelegatesAreAvailable, DelegatesRunAvailableModels
    <2> DEFINE config == loadWorkflowConfig(local, d, GlobalConfig(bundle)).config
    <2>1. NamesDelegates(config)
      BY LayersName DEF loadWorkflowConfig
    <2> HIDE DEF config
    <2>2. resolveDelegatePresetWithFallback(registry, config, role).ok
      BY DEF config
    <2> QED
      BY <2>1, <2>2, ResolvedIsAvailable DEF config
  <1> QED
    BY <1>1, PTL

-------------------------------------------------------------------------------
(* The local file.  Whatever the layers below are, a local file has the parts  *)
(* of a configuration, and a block edits what it hydrated or staged.           *)

ConfigParts == {"profile", "agents", "fallbacks", "runtime", "targets"}
DraftParts == {"profile", "agents", "fallbacks"}
OverlayParts == {"block", "profileId", "runtime", "fallbackRoles", "draft", "opened", "staged"}

\* An edit is of a role that the file had when the block opened, or of one staged since.
Known(part, edits, presets, staged) ==
    \A r \in DOMAIN edits : r \in DOMAIN presets \/ <<part, r>> \in staged

EditsAreKnown(o) ==
    o.block = "config" =>
        /\ Known("agents", o.draft.agents, o.opened.agents, o.staged)
        /\ Known("fallbacks", o.draft.fallbacks, o.opened.fallbacks, o.staged)

IsOverlay(o) ==
    /\ DOMAIN o = OverlayParts /\ DOMAIN o.draft = DraftParts
    /\ o.draft.profile \in {"default", "custom", "gonka"}
    /\ EditsAreKnown(o)

FilesInv ==
    /\ DOMAIN local = Dirs
    /\ \A d \in Dirs : DOMAIN local[d].config = ConfigParts

OverlayInv ==
    /\ env \in Environments
    /\ writes \in Nat
    /\ FilesInv
    /\ DOMAIN overlay = Sessions
    /\ \A s \in Sessions : IsOverlay(overlay[s])

\* A step that gives session s the overlay o, and leaves the files and their count alone.
Shows(s, o) ==
    /\ overlay' = [overlay EXCEPT ![s] = o]
    /\ UNCHANGED <<local, env, writes>>

LEMMA ShowsInv ==
    ASSUME OverlayInv, NEW s \in Sessions, NEW o, IsOverlay(o), Shows(s, o)
    PROVE  OverlayInv'
  BY DEF OverlayInv, FilesInv, Shows, IsOverlay, EditsAreKnown, Known

LEMMA ClosedIsOverlay == IsOverlay(Closed)
  BY DEF IsOverlay, Closed, NoDraft, EditsAreKnown, OverlayParts, DraftParts

LEMMA RootIsOverlay ==
    ASSUME NEW o, IsOverlay(o)
    PROVE  IsOverlay(AtRoot(o))
  BY DEF IsOverlay, AtRoot, NoDraft, EditsAreKnown, OverlayParts, DraftParts

LEMMA PayloadParts ==
    ASSUME NEW existing, DOMAIN existing = ConfigParts, NEW draft
    PROVE  /\ DOMAIN buildWorkflowLocalPayload(existing, draft) = ConfigParts
           /\ buildWorkflowLocalPayload(existing, draft).agents
                 = Edited(existing.agents, draft.agents)
           /\ buildWorkflowLocalPayload(existing, draft).fallbacks
                 = Edited(existing.fallbacks, draft.fallbacks)
           /\ buildWorkflowLocalPayload(existing, draft).runtime = existing.runtime
           /\ buildWorkflowLocalPayload(existing, draft).targets = existing.targets
  BY DEF buildWorkflowLocalPayload, ConfigParts

LEMMA RuntimePayloadParts ==
    ASSUME NEW existing, DOMAIN existing = ConfigParts, NEW runtime
    PROVE  DOMAIN buildWorkflowLocalRuntimePayload(existing, runtime) = ConfigParts
  BY DEF buildWorkflowLocalRuntimePayload, ConfigParts

LEMMA ContentsParts ==
    ASSUME OverlayInv, NEW s \in Sessions
    PROVE  /\ env.cwd[s] \in Dirs
           /\ DOMAIN readExistingWorkflowLocal(env.cwd[s]) = ConfigParts
  <1>1. env.cwd[s] \in Dirs
    BY ConfigureOverlayAssumption DEF OverlayInv
  <1> QED
    BY <1>1 DEF OverlayInv, FilesInv, readExistingWorkflowLocal, Contents, NoConfig, ConfigParts

LEMMA ApplyInv ==
    ASSUME OverlayInv, NEW s \in Sessions, NEW payload, DOMAIN payload = ConfigParts,
           Apply(s, payload)
    PROVE  OverlayInv'
  <1>1. env.cwd[s] \in Dirs
    BY ContentsParts
  <1>2. ASSUME local' = [local EXCEPT ![env.cwd[s]] = File("written", payload)],
               overlay' = [overlay EXCEPT ![s] = Closed],
               writes' = writes + 1, UNCHANGED env
        PROVE  OverlayInv'
    <2>1. FilesInv'
      BY <1>1, <1>2 DEF OverlayInv, FilesInv, File
    <2>2. \A t \in Sessions : IsOverlay(overlay[t])'
      BY <1>2, ClosedIsOverlay DEF OverlayInv, IsOverlay, EditsAreKnown, Known
    <2> QED
      BY <1>2, <2>1, <2>2 DEF OverlayInv
  <1>3. ASSUME Shows(s, AtRoot(overlay[s]))
        PROVE  OverlayInv'
    BY <1>3, RootIsOverlay, ShowsInv DEF OverlayInv
  <1> QED
    BY <1>2, <1>3 DEF Apply, Shows

LEMMA EditedKeeps ==
    ASSUME NEW presets, NEW edits, NEW r \in DOMAIN presets, r \notin DOMAIN edits
    PROVE  r \in DOMAIN Edited(presets, edits) /\ Edited(presets, edits)[r] = presets[r]
  <1>1. ASSUME NEW set, r \notin DOMAIN set
        PROVE  r \in DOMAIN OverEach(presets, set) /\ OverEach(presets, set)[r] = presets[r]
    <2>1. r \in DOMAIN OverEach(presets, set)
      BY OverEachDomain
    <2> QED
      BY <1>1, <2>1, OverEachLower
  <1> DEFINE cleared == {t \in DOMAIN edits : IsCleared(edits[t])}
             set == [t \in DOMAIN edits \ cleared |-> edits[t]]
             merged == OverEach(presets, set)
  <1>2. Edited(presets, edits) = [t \in DOMAIN merged \ cleared |-> merged[t]]
    BY DEF Edited
  <1>3. r \notin cleared /\ r \notin DOMAIN set
    OBVIOUS
  <1> HIDE DEF cleared, set
  <1>4. r \in DOMAIN merged /\ merged[r] = presets[r]
    BY <1>1, <1>3
  <1> HIDE DEF merged
  <1> QED
    BY <1>2, <1>3, <1>4

-------------------------------------------------------------------------------
(* The steps of a session.                                                    *)

\* The steps of session s that write no file.
Browses(s, global) ==
    \/ showWorkflowConfigureOverlay(s, global) \/ CloseOverlay(s) \/ BackToRoot(s)
    \/ EnterProfileBlock(s) \/ SelectProfile(s) \/ EnterConfigBlock(s)
    \/ StageRole(s) \/ ClearRole(s) \/ StageFallback(s) \/ ClearFallback(s)
    \/ EnterRuntimeBlock(s)

LEMMA StagingIsOverlay ==
    ASSUME NEW o, IsOverlay(o), o.block = "config", NEW part \in {"agents", "fallbacks"},
           NEW role, NEW edit, NEW profile \in {"default", "custom", "gonka"}
    PROVE  LET staged == [o EXCEPT !.draft = [o.draft EXCEPT !.profile = profile,
                                                ![part] = WithEdit(@, role, edit)],
                                     !.staged = @ \cup {<<part, role>>}]
           IN  IsOverlay(staged)
  <1>1. DOMAIN WithEdit(o.draft[part], role, edit) = DOMAIN o.draft[part] \cup {role}
    BY DEF WithEdit
  <1>2. CASE part = "agents"
    BY <1>1, <1>2 DEF IsOverlay, EditsAreKnown, Known, OverlayParts, DraftParts
  <1>3. CASE part = "fallbacks"
    BY <1>1, <1>3 DEF IsOverlay, EditsAreKnown, Known, OverlayParts, DraftParts
  <1> QED
    BY <1>2, <1>3

LEMMA BrowsesShows ==
    ASSUME OverlayInv, NEW s \in Sessions, NEW global, Browses(s, global)
    PROVE  \E o : IsOverlay(o) /\ Shows(s, o)
  <1>0. IsOverlay(overlay[s]) /\ s \in DOMAIN overlay
    BY DEF OverlayInv
  <1>1. CASE showWorkflowConfigureOverlay(s, global)
    <2> DEFINE loaded == loadWorkflowConfig(local, env.cwd[s], global)
               o == [Closed EXCEPT !.block = "root", !.profileId = loaded.profileId,
                                   !.runtime = loaded.config.runtime,
                                   !.fallbackRoles = DOMAIN loaded.config.fallbacks]
    <2>1. Shows(s, o)
      BY <1>1 DEF showWorkflowConfigureOverlay, Shows
    <2> HIDE DEF loaded
    <2>2. IsOverlay(o)
      BY DEF IsOverlay, Closed, NoDraft, EditsAreKnown, OverlayParts, DraftParts
    <2> QED
      BY <2>1, <2>2
  <1>2. CASE CloseOverlay(s)
    BY <1>2, ClosedIsOverlay DEF CloseOverlay, Shows
  <1>3. CASE BackToRoot(s)
    <2>1. Shows(s, AtRoot(overlay[s]))
      BY <1>0, <1>3 DEF BackToRoot, Shows
    <2> QED
      BY <1>0, <2>1, RootIsOverlay
  <1>4. CASE EnterProfileBlock(s)
    <2> DEFINE current == IF readExistingWorkflowLocal(env.cwd[s]).agents # <<>> THEN "custom"
                          ELSE profileFromLoaded(overlay[s].profileId)
               o == [overlay[s] EXCEPT !.block = "profile",
                                       !.draft = [@ EXCEPT !.profile = current]]
    <2>0. current \in {"default", "custom", "gonka"}
      BY DEF profileFromLoaded
    <2> HIDE DEF current
    <2>1. Shows(s, o)
      BY <1>0, <1>4 DEF EnterProfileBlock, Shows, current
    <2>2. IsOverlay(o)
      BY <1>0, <2>0 DEF IsOverlay, EditsAreKnown, OverlayParts, DraftParts
    <2> QED
      BY <2>1, <2>2
  <1>5. CASE SelectProfile(s)
    <2>1. PICK profile \in {"default", "custom", "gonka"} :
                         /\ overlay' = [overlay EXCEPT ![s].draft.profile = profile]
                         /\ UNCHANGED <<local, env, writes>>
      BY <1>5 DEF SelectProfile
    <2> DEFINE o == [overlay[s] EXCEPT !.draft = [@ EXCEPT !.profile = profile]]
    <2>2. Shows(s, o)
      BY <1>0, <2>1 DEF Shows
    <2>3. IsOverlay(o)
      BY <1>0, <1>5 DEF SelectProfile, InBlock, IsOverlay, EditsAreKnown, OverlayParts, DraftParts
    <2> QED
      BY <2>2, <2>3
  <1>6. CASE EnterConfigBlock(s)
    <2> DEFINE existing == readExistingWorkflowLocal(env.cwd[s])
               draft == hydrateProfileConfigDraft(existing, profileFromLoaded(overlay[s].profileId))
               o == [overlay[s] EXCEPT !.block = "config", !.opened = existing, !.draft = draft]
    <2>1. Shows(s, o)
      BY <1>0, <1>6 DEF EnterConfigBlock, Shows
    <2>2. /\ DOMAIN draft = DraftParts
          /\ draft.profile \in {"default", "custom", "gonka"}
          /\ DOMAIN draft.agents \subseteq DOMAIN existing.agents
          /\ DOMAIN draft.fallbacks \subseteq DOMAIN existing.fallbacks
      BY DEF hydrateProfileConfigDraft, hydrated, profileFromLoaded, DraftParts
    <2> HIDE DEF existing, draft
    <2>3. IsOverlay(o)
      BY <1>0, <2>2 DEF IsOverlay, EditsAreKnown, Known, OverlayParts
    <2> QED
      BY <2>1, <2>3
  <1>7. CASE StageRole(s)
    <2>1. PICK role, edit :
             /\ overlay' = [overlay EXCEPT
                    ![s].draft.profile = "custom",
                    ![s].draft.agents = WithEdit(@, role, edit),
                    ![s].staged = @ \cup {<<"agents", role>>}]
             /\ UNCHANGED <<local, env, writes>>
      BY <1>7 DEF StageRole
    <2> DEFINE o == [overlay[s] EXCEPT
                        !.draft = [overlay[s].draft EXCEPT !.profile = "custom",
                                                           !["agents"] = WithEdit(@, role, edit)],
                        !.staged = @ \cup {<<"agents", role>>}]
    <2>2. Shows(s, o)
      BY <1>0, <2>1 DEF Shows, IsOverlay, OverlayParts, DraftParts
    <2>3. IsOverlay(o)
      BY <1>0, <1>7, StagingIsOverlay DEF StageRole, MayStage, InBlock
    <2> QED
      BY <2>2, <2>3
  <1>8. CASE ClearRole(s)
    <2>1. PICK role :
             /\ overlay' = [overlay EXCEPT
                    ![s].draft.profile = "custom",
                    ![s].draft.agents = WithEdit(@, role, Cleared),
                    ![s].staged = @ \cup {<<"agents", role>>}]
             /\ UNCHANGED <<local, env, writes>>
      BY <1>8 DEF ClearRole
    <2> DEFINE o == [overlay[s] EXCEPT
                        !.draft = [overlay[s].draft EXCEPT !.profile = "custom",
                                                           !["agents"] = WithEdit(@, role, Cleared)],
                        !.staged = @ \cup {<<"agents", role>>}]
    <2>2. Shows(s, o)
      BY <1>0, <2>1 DEF Shows, IsOverlay, OverlayParts, DraftParts
    <2>3. IsOverlay(o)
      BY <1>0, <1>8, StagingIsOverlay DEF ClearRole, MayStage, InBlock
    <2> QED
      BY <2>2, <2>3
  <1>9. ASSUME NEW role, NEW edit, InBlock(s, "config"),
               overlay' = [overlay EXCEPT
                   ![s].draft.fallbacks = WithEdit(@, role, edit),
                   ![s].staged = @ \cup {<<"fallbacks", role>>}],
               UNCHANGED <<local, env, writes>>
        PROVE  \E o : IsOverlay(o) /\ Shows(s, o)
    <2> DEFINE profile == overlay[s].draft.profile
               o == [overlay[s] EXCEPT
                        !.draft = [overlay[s].draft EXCEPT
                                      !.profile = profile,
                                      !["fallbacks"] = WithEdit(@, role, edit)],
                        !.staged = @ \cup {<<"fallbacks", role>>}]
    <2>1. Shows(s, o)
      BY <1>0, <1>9 DEF Shows, IsOverlay, OverlayParts, DraftParts
    <2>2. profile \in {"default", "custom", "gonka"}
      BY <1>0 DEF IsOverlay
    <2> HIDE DEF profile
    <2>3. IsOverlay(o)
      BY <1>0, <1>9, <2>2, StagingIsOverlay DEF InBlock
    <2> QED
      BY <2>1, <2>3
  <1>10. CASE StageFallback(s)
    BY <1>9, <1>10 DEF StageFallback, MayStage
  <1>11. CASE ClearFallback(s)
    BY <1>9, <1>11 DEF ClearFallback, MayStage
  <1>12. CASE EnterRuntimeBlock(s)
    <2>1. Shows(s, [overlay[s] EXCEPT !.block = "runtime"])
      BY <1>0, <1>12 DEF EnterRuntimeBlock, Shows
    <2>2. IsOverlay([overlay[s] EXCEPT !.block = "runtime"])
      BY <1>0 DEF IsOverlay, EditsAreKnown, OverlayParts
    <2> QED
      BY <2>1, <2>2
  <1> QED
    BY <1>1, <1>2, <1>3, <1>4, <1>5, <1>6, <1>7, <1>8, <1>10, <1>11, <1>12 DEF Browses

\* Apply of a block, with what it writes.
Applies(s) ==
    \/ ApplyProfileBlock(s) \/ ApplyConfigBlock(s) \/ SaveRuntimeBlock(s)

LEMMA AppliesInv ==
    ASSUME OverlayInv, NEW s \in Sessions, Applies(s)
    PROVE  /\ OverlayInv'
           /\ \A t \in Sessions \ {s} : overlay'[t] = overlay[t]
  <1>1. ASSUME NEW payload, Apply(s, payload)
        PROVE  \A t \in Sessions \ {s} : overlay'[t] = overlay[t]
    BY <1>1 DEF Apply, OverlayInv
  <1>2. CASE ApplyProfileBlock(s)
    <2> DEFINE payload == buildWorkflowLocalPayload(readExistingWorkflowLocal(env.cwd[s]),
                                                    overlay[s].draft)
    <2>1. DOMAIN payload = ConfigParts
      BY ContentsParts, PayloadParts
    <2> QED
      BY <1>1, <1>2, <2>1, ApplyInv DEF ApplyProfileBlock
  <1>3. CASE ApplyConfigBlock(s)
    <2> DEFINE payload == buildWorkflowLocalPayload(PayloadBase(s), overlay[s].draft)
    <2>1. DOMAIN payload = ConfigParts
      BY ContentsParts, PayloadParts DEF PayloadBase
    <2> QED
      BY <1>1, <1>3, <2>1, ApplyInv DEF ApplyConfigBlock
  <1>4. CASE SaveRuntimeBlock(s)
    <2>1. PICK runtime : Apply(s, buildWorkflowLocalRuntimePayload(
                                      readExistingWorkflowLocal(env.cwd[s]), runtime))
      BY <1>4 DEF SaveRuntimeBlock
    <2> DEFINE payload == buildWorkflowLocalRuntimePayload(
                              readExistingWorkflowLocal(env.cwd[s]), runtime)
    <2>2. DOMAIN payload = ConfigParts
      BY ContentsParts, RuntimePayloadParts
    <2> QED
      BY <1>1, <2>1, <2>2, ApplyInv
  <1> QED
    BY <1>2, <1>3, <1>4 DEF Applies

LEMMA EditInv ==
    ASSUME OverlayInv, EditLocal
    PROVE  OverlayInv' /\ overlay' = overlay
  <1>1. ASSUME NEW d \in Dirs, NEW file, DOMAIN file.config = ConfigParts,
               local' = [local EXCEPT ![d] = file]
        PROVE  FilesInv'
    BY <1>1 DEF OverlayInv, FilesInv
  <1>2. DOMAIN NoConfig = ConfigParts /\ \A config \in HandEdits : DOMAIN config = ConfigParts
    BY ConfigureOverlayAssumption DEF NoConfig, ConfigParts
  <1>3. \A state, config : File(state, config).config = config
    BY DEF File
  <1>4. FilesInv'
    <2>1. PICK d \in Dirs :
             \/ \E config \in HandEdits : local' = [local EXCEPT ![d] = File("written", config)]
             \/ local' = [local EXCEPT ![d] = File("broken", NoConfig)]
             \/ local' = [local EXCEPT ![d] = NoFile]
      BY DEF EditLocal
    <2>2. ASSUME NEW state, NEW config, DOMAIN config = ConfigParts,
                 local' = [local EXCEPT ![d] = File(state, config)]
          PROVE  FilesInv'
      <3>1. DOMAIN File(state, config).config = ConfigParts
        BY <1>3, <2>2
      <3> QED
        BY <1>1, <2>2, <3>1
    <2> QED
      BY <1>2, <2>1, <2>2 DEF NoFile
  <1>5. /\ writes' \in Nat /\ UNCHANGED <<env, overlay>>
    BY DEF EditLocal, OverlayInv
  <1> QED
    BY <1>4, <1>5 DEF OverlayInv, IsOverlay, EditsAreKnown, Known

LEMMA OverlayInitInv == OverlayInit => OverlayInv
  <1> SUFFICES ASSUME OverlayInit PROVE OverlayInv
    OBVIOUS
  <1>1. FilesInv
    BY DEF OverlayInit, FilesInv, NoFile, File, NoConfig, ConfigParts
  <1> QED
    BY <1>1, ClosedIsOverlay DEF OverlayInit, OverlayInv

LEMMA OverlaySteps ==
    ASSUME OverlayInv, NEW global, OverlayNext(global)
    PROVE  \/ \E s \in Sessions : Browses(s, global) \/ Applies(s)
           \/ EditLocal
  BY DEF OverlayNext, Browses, Applies

LEMMA OverlayStepInv ==
    ASSUME OverlayInv, NEW global, OverlayNext(global)
    PROVE  OverlayInv'
  <1>1. ASSUME NEW s \in Sessions, Browses(s, global)
        PROVE  OverlayInv'
    BY <1>1, BrowsesShows, ShowsInv
  <1>2. ASSUME NEW s \in Sessions, Applies(s)
        PROVE  OverlayInv'
    BY <1>2, AppliesInv
  <1> QED
    BY <1>1, <1>2, EditInv, OverlaySteps

\* What the block that session s is in writes over the local file.
IsPayload(s, payload) ==
    LET existing == readExistingWorkflowLocal(env.cwd[s])
    IN  \/ /\ overlay[s].block \in {"profile", "config"}
           /\ payload = buildWorkflowLocalPayload(existing, overlay[s].draft)
        \/ /\ overlay[s].block = "runtime"
           /\ \E display :
                 payload = buildWorkflowLocalRuntimePayload(
                               existing, Over(overlay[s].runtime, [delegateDisplay |-> display]))

\* A session writes by the Apply of the block that it is in.
LEMMA WroteByApply ==
    ASSUME OverlayInv, NEW global, OverlayNext(global), NEW s \in Sessions, Wrote(s)
    PROVE  \E payload : /\ local' = [local EXCEPT ![env.cwd[s]] = File("written", payload)]
                        /\ IsPayload(s, payload)
  <1>1. overlay[s].block \notin {"closed", "root"} /\ overlay'[s] # overlay[s]
    BY DEF Wrote, Closed
  <1>2. ~EditLocal
    BY <1>1, EditInv
  <1>3. ASSUME NEW t \in Sessions, Browses(t, global) PROVE FALSE
    BY <1>3, BrowsesShows DEF Wrote, Shows, OverlayInv
  <1>4. PICK t \in Sessions : Applies(t)
    BY <1>2, <1>3, OverlaySteps
  <1>5. t = s
    BY <1>1, <1>4, AppliesInv
  <1>6. writes' = writes + 1 /\ writes \in Nat
    BY DEF Wrote, OverlayInv
  <1>7. ASSUME NEW payload, Apply(s, payload)
        PROVE  local' = [local EXCEPT ![env.cwd[s]] = File("written", payload)]
    BY <1>6, <1>7 DEF Apply
  <1>8. CASE ApplyProfileBlock(s)
    BY <1>7, <1>8 DEF ApplyProfileBlock, InBlock, IsPayload
  <1>9. CASE ApplyConfigBlock(s)
    BY <1>7, <1>9 DEF ApplyConfigBlock, InBlock, IsPayload, PayloadBase
  <1>10. CASE SaveRuntimeBlock(s)
    <2>1. PICK display :
             Apply(s, buildWorkflowLocalRuntimePayload(
                          readExistingWorkflowLocal(env.cwd[s]),
                          Over(overlay[s].runtime, [delegateDisplay |-> display])))
      BY <1>10 DEF SaveRuntimeBlock
    <2> DEFINE payload == buildWorkflowLocalRuntimePayload(
                              readExistingWorkflowLocal(env.cwd[s]),
                              Over(overlay[s].runtime, [delegateDisplay |-> display]))
    <2>2. IsPayload(s, payload)
      BY <1>10 DEF SaveRuntimeBlock, InBlock, IsPayload
    <2> HIDE DEF payload
    <2> QED
      BY <1>7, <2>1, <2>2 DEF payload
  <1> QED
    BY <1>4, <1>5, <1>8, <1>9, <1>10 DEF Applies

\* The local file after a write, and that it is the one its session reads.
LEMMA WrittenFile ==
    ASSUME OverlayInv, NEW s \in Sessions, NEW payload,
           local' = [local EXCEPT ![env.cwd[s]] = File("written", payload)]
    PROVE  /\ local'[env.cwd[s]].config = payload
           /\ Contents(findNearestFile(local', env.cwd[s])) = payload
  <1>1. env.cwd[s] \in DOMAIN local
    BY ContentsParts DEF OverlayInv, FilesInv
  <1>2. \A state, config : File(state, config).state = state /\ File(state, config).config = config
    BY DEF File
  <1> QED
    BY <1>1, <1>2 DEF findNearestFile, Contents

\* After a step of session s its local file has what it had, except for what the block edits.
LaterWorkIsKept(s) ==
    LET before == readExistingWorkflowLocal(env.cwd[s])
        after == local'[env.cwd[s]].config
        opened == overlay[s].opened
        Kept(part, old, new, known) ==
           \A r \in DOMAIN old \ known :
              <<part, r>> \notin overlay[s].staged => r \in DOMAIN new /\ new[r] = old[r]
    IN  /\ Kept("agents", before.agents, after.agents, DOMAIN opened.agents)
        /\ Kept("fallbacks", before.fallbacks, after.fallbacks, DOMAIN opened.fallbacks)
        /\ after.runtime = before.runtime /\ after.targets = before.targets

LEMMA ApplyKeeps ==
    ASSUME OverlayInv, NEW global, OverlayNext(global),
           NEW s \in Sessions, InBlock(s, "config"), Wrote(s)
    PROVE  LaterWorkIsKept(s)
  <1> DEFINE before == readExistingWorkflowLocal(env.cwd[s])
             after == local'[env.cwd[s]].config
             draft == overlay[s].draft
  <1>1. after = buildWorkflowLocalPayload(before, draft)
    BY WroteByApply, WrittenFile DEF IsPayload, InBlock
  <1>2. /\ Known("agents", draft.agents, overlay[s].opened.agents, overlay[s].staged)
        /\ Known("fallbacks", draft.fallbacks, overlay[s].opened.fallbacks, overlay[s].staged)
    BY DEF OverlayInv, IsOverlay, EditsAreKnown, InBlock
  <1>3. DOMAIN before = ConfigParts
    BY ContentsParts
  <1> HIDE DEF before, after, draft
  <1>4. /\ after.agents = Edited(before.agents, draft.agents)
        /\ after.fallbacks = Edited(before.fallbacks, draft.fallbacks)
        /\ after.runtime = before.runtime /\ after.targets = before.targets
    BY <1>1, <1>3, PayloadParts
  <1>5. ASSUME NEW r \in DOMAIN before.agents, r \notin DOMAIN overlay[s].opened.agents,
               <<"agents", r>> \notin overlay[s].staged
        PROVE  r \in DOMAIN after.agents /\ after.agents[r] = before.agents[r]
    BY <1>2, <1>4, <1>5, EditedKeeps DEF Known
  <1>6. ASSUME NEW r \in DOMAIN before.fallbacks, r \notin DOMAIN overlay[s].opened.fallbacks,
               <<"fallbacks", r>> \notin overlay[s].staged
        PROVE  r \in DOMAIN after.fallbacks /\ after.fallbacks[r] = before.fallbacks[r]
    BY <1>2, <1>4, <1>6, EditedKeeps DEF Known
  <1> QED
    BY <1>4, <1>5, <1>6 DEF LaterWorkIsKept, before, after

LEMMA OverlayAlways == WorkspaceSpec => []OverlayInv
  <1>1. WorkspaceInit => OverlayInv
    BY OverlayInitInv DEF WorkspaceInit
  <1>2. OverlayInv /\ [WorkspaceNext]_workspaceVars => OverlayInv'
    <2> SUFFICES ASSUME OverlayInv, [WorkspaceNext]_workspaceVars PROVE OverlayInv'
      OBVIOUS
    <2>1. CASE OverlayNext(GlobalConfig(bundle))
      BY <2>1, OverlayStepInv
    <2>2. CASE UNCHANGED overlayVars
      BY <2>2 DEF overlayVars, OverlayInv, FilesInv, IsOverlay, EditsAreKnown, Known
    <2> QED
      BY <2>1, <2>2 DEF WorkspaceNext, OnOverlay, OnBoot, workspaceVars
  <1> QED
    BY <1>1, <1>2, PTL DEF WorkspaceSpec

\* What another session or an editor put into a local file after a Profile config block was opened
\* is still there after that block's Apply, unless the block edits it: whatever the layers and the
\* local files are, and however many sessions of a directory are open (buildWorkflowLocalPayload).
THEOREM ApplyLosesNothing == WorkspaceSpec => ApplyKeepsLaterWork
  <1>1. OverlayInv /\ [WorkspaceNext]_workspaceVars =>
            [\A s \in Sessions : InBlock(s, "config") /\ Wrote(s) => LaterWorkIsKept(s)]_overlayVars
    <2> SUFFICES ASSUME OverlayInv, [WorkspaceNext]_workspaceVars, overlayVars' # overlayVars,
                        NEW s \in Sessions, InBlock(s, "config"), Wrote(s)
                 PROVE  LaterWorkIsKept(s)
      OBVIOUS
    <2>1. OverlayNext(GlobalConfig(bundle))
      BY DEF WorkspaceNext, OnOverlay, OnBoot, workspaceVars, overlayVars
    <2> QED
      BY <2>1, ApplyKeeps
  <1> QED
    BY OverlayAlways, <1>1, PTL DEF WorkspaceSpec, ApplyKeepsLaterWork, LaterWorkIsKept

-------------------------------------------------------------------------------
(* What a session applies is on top of the layers.                            *)

LEMMA MergeParts ==
    ASSUME NEW base, NEW over
    PROVE  /\ deepMerge(base, over).agents = OverEach(base.agents, over.agents)
           /\ deepMerge(base, over).runtime = Over(base.runtime, over.runtime)
  BY Zenon DEF deepMerge

LEMMA ProfilesOnly ==
    /\ DOMAIN WORKFLOW_PROFILES = {"default", "gonka"}
    /\ \A id : normalizeWorkflowProfileId(id) \in {"default", "gonka"}
    /\ \A id \in {"default", "gonka"} : /\ normalizeWorkflowProfileId(id) = id
                                        /\ WORKFLOW_PROFILES[id].runtime = <<>>
                                        /\ id # Unset
  BY DEF WORKFLOW_PROFILES, normalizeWorkflowProfileId, NoConfig, Unset

\* The local file lies over all layers but the profile of the command line; the profile that it
\* names itself lies just below it.
LEMMA LocalOnTop ==
    ASSUME NEW cli, NEW global, NEW project, NEW own
    PROVE  \E below :
              LET merged == LayersWithProfile(cli, global, project, own)
                  cliProfile == WORKFLOW_PROFILES[normalizeWorkflowProfileId(cli)]
                  ownProfile == normalizeWorkflowProfileId(own.profile)
              IN  /\ cli # Unset =>
                        merged.config = deepMerge(deepMerge(below, own), cliProfile)
                  /\ cli = Unset => merged.config = deepMerge(below, own)
                  /\ cli = Unset /\ own.profile # Unset =>
                        /\ merged.profileId = ownProfile
                        /\ \E base : below = deepMerge(base, WORKFLOW_PROFILES[ownProfile])
  <1> DEFINE selected == resolveWorkflowProfileSelection(cli, global, project, own)
             Below(source, config) ==
                 IF selected.source = source
                 THEN deepMerge(config, WORKFLOW_PROFILES[selected.id]) ELSE config
             withGlobal == deepMerge(Below("global", DEFAULT_CONFIG), global)
             withProject == deepMerge(Below("project", withGlobal), project)
             below == Below("local", withProject)
             withLocal == deepMerge(below, own)
  <1>1. LayersWithProfile(cli, global, project, own)
           = [config |-> Below("cli", withLocal), profileId |-> selected.id]
    BY DEF LayersWithProfile
  <1>2. CASE cli # Unset
    <2>1. selected = [id |-> normalizeWorkflowProfileId(cli), source |-> "cli"]
      BY <1>2 DEF resolveWorkflowProfileSelection
    <2> HIDE DEF selected, below
    <2>2. LayersWithProfile(cli, global, project, own).config
             = deepMerge(withLocal, WORKFLOW_PROFILES[normalizeWorkflowProfileId(cli)])
      BY <1>1, <2>1
    <2> QED
      BY <1>2, <2>2
  <1>3. CASE cli = Unset
    <2>1. /\ selected.source # "cli"
          /\ own.profile # Unset =>
                selected = [id |-> normalizeWorkflowProfileId(own.profile), source |-> "local"]
      BY <1>3 DEF resolveWorkflowProfileSelection
    <2> HIDE DEF selected, withProject
    <2>2. LayersWithProfile(cli, global, project, own).config = withLocal
      BY <1>1, <2>1
    <2>3. ASSUME own.profile # Unset
          PROVE  /\ LayersWithProfile(cli, global, project, own).profileId
                       = normalizeWorkflowProfileId(own.profile)
                 /\ below = deepMerge(withProject,
                                      WORKFLOW_PROFILES[normalizeWorkflowProfileId(own.profile)])
      BY <1>1, <2>1, <2>3
    <2> HIDE DEF below
    <2> QED
      BY <1>3, <2>2, <2>3
  <1> QED
    BY <1>2, <1>3

\* What outranks the local file: the presets of the profile of the command line.
Outranked(cli, r) ==
    cli # Unset /\ r \in DOMAIN WORKFLOW_PROFILES[normalizeWorkflowProfileId(cli)].agents

LEMMA OwnFieldsCount ==
    ASSUME NEW cli, NEW global, NEW project, NEW own
    PROVE  LET effective == LayersWithProfile(cli, global, project, own).config
           IN  /\ \A r \in DOMAIN own.agents : ~Outranked(cli, r) =>
                     \A f \in DOMAIN own.agents[r] :
                        effective.agents[r][f] = own.agents[r][f]
               /\ \A f \in DOMAIN own.runtime : effective.runtime[f] = own.runtime[f]
  <1> DEFINE effective == LayersWithProfile(cli, global, project, own).config
             cliProfile == WORKFLOW_PROFILES[normalizeWorkflowProfileId(cli)]
  <1>1. PICK below : /\ cli # Unset => effective = deepMerge(deepMerge(below, own), cliProfile)
                     /\ cli = Unset => effective = deepMerge(below, own)
    BY LocalOnTop
  <1> DEFINE withLocal == deepMerge(below, own)
  <1>2. cliProfile.runtime = <<>>
    BY ProfilesOnly
  <1>3. \A r : Outranked(cli, r) <=> cli # Unset /\ r \in DOMAIN cliProfile.agents
    BY DEF Outranked
  <1> HIDE DEF effective, cliProfile
  <1>4. ASSUME NEW r \in DOMAIN own.agents, ~Outranked(cli, r), NEW f \in DOMAIN own.agents[r]
        PROVE  effective.agents[r][f] = own.agents[r][f]
    <2>1. /\ withLocal.agents = OverEach(below.agents, own.agents)
          /\ deepMerge(withLocal, cliProfile).agents = OverEach(withLocal.agents, cliProfile.agents)
      BY MergeParts
    <2> HIDE DEF withLocal
    <2>2. r \in DOMAIN withLocal.agents /\ withLocal.agents[r][f] = own.agents[r][f]
      BY <2>1, OverEachTop
    <2>3. CASE cli # Unset
      <3>1. OverEach(withLocal.agents, cliProfile.agents)[r] = withLocal.agents[r]
        BY <1>3, <1>4, <2>2, <2>3, OverEachLower
      <3> QED
        BY <1>1, <2>1, <2>2, <2>3, <3>1 DEF withLocal
    <2> QED
      BY <1>1, <2>2, <2>3 DEF withLocal
  <1>5. ASSUME NEW f \in DOMAIN own.runtime
        PROVE  effective.runtime[f] = own.runtime[f]
    <2>1. /\ withLocal.runtime = Over(below.runtime, own.runtime)
          /\ deepMerge(withLocal, cliProfile).runtime = Over(withLocal.runtime, cliProfile.runtime)
      BY MergeParts
    <2> HIDE DEF withLocal
    <2>2. f \in DOMAIN withLocal.runtime /\ withLocal.runtime[f] = own.runtime[f]
      BY <2>1, OverTop
    <2>3. CASE cli # Unset
      <3>1. Over(withLocal.runtime, cliProfile.runtime)[f] = withLocal.runtime[f]
        BY <1>2, <2>2, OverLower
      <3> QED
        BY <1>1, <2>1, <2>2, <2>3, <3>1 DEF withLocal
    <2> QED
      BY <1>1, <2>2, <2>3 DEF withLocal
  <1> QED
    BY <1>4, <1>5 DEF effective

\* Without a profile on the command line, the profile of the local file decides for the roles that
\* the file leaves out.
LEMMA OwnProfileCounts ==
    ASSUME NEW global, NEW project, NEW own, own.profile \in {"default", "gonka"}
    PROVE  LET loaded == LayersWithProfile(Unset, global, project, own)
               chosen == WORKFLOW_PROFILES[own.profile].agents
           IN  /\ loaded.profileId = own.profile
               /\ \A r \in DOMAIN chosen \ DOMAIN own.agents :
                     \A f \in DOMAIN chosen[r] : loaded.config.agents[r][f] = chosen[r][f]
  <1> DEFINE loaded == LayersWithProfile(Unset, global, project, own)
             chosen == WORKFLOW_PROFILES[own.profile].agents
  <1>1. PICK below, base :
           /\ loaded.config = deepMerge(below, own)
           /\ loaded.profileId = own.profile
           /\ below = deepMerge(base, WORKFLOW_PROFILES[own.profile])
    <2>1. own.profile # Unset /\ normalizeWorkflowProfileId(own.profile) = own.profile
      BY ProfilesOnly
    <2> QED
      BY <2>1, LocalOnTop
  <1>2. /\ loaded.config.agents = OverEach(below.agents, own.agents)
        /\ below.agents = OverEach(base.agents, chosen)
    BY <1>1, MergeParts
  <1> HIDE DEF loaded, chosen
  <1>3. ASSUME NEW r \in DOMAIN chosen \ DOMAIN own.agents, NEW f \in DOMAIN chosen[r]
        PROVE  loaded.config.agents[r][f] = chosen[r][f]
    <2>1. r \in DOMAIN below.agents /\ below.agents[r][f] = chosen[r][f]
      BY <1>2, OverEachTop
    <2> QED
      BY <1>2, <2>1, OverEachLower
  <1> QED
    BY <1>1, <1>3 DEF loaded, chosen

\* What a draft has for a role, and does not clear, is in the payload.
LEMMA EditedHas ==
    ASSUME NEW presets, NEW edits, NEW r \in DOMAIN edits, ~IsCleared(edits[r]),
           NEW f \in DOMAIN edits[r]
    PROVE  /\ r \in DOMAIN Edited(presets, edits)
           /\ f \in DOMAIN Edited(presets, edits)[r]
           /\ Edited(presets, edits)[r][f] = edits[r][f]
  <1> DEFINE cleared == {t \in DOMAIN edits : IsCleared(edits[t])}
             set == [t \in DOMAIN edits \ cleared |-> edits[t]]
             merged == OverEach(presets, set)
  <1>1. Edited(presets, edits) = [t \in DOMAIN merged \ cleared |-> merged[t]]
    BY DEF Edited
  <1>2. r \notin cleared /\ r \in DOMAIN set /\ set[r] = edits[r]
    OBVIOUS
  <1> HIDE DEF cleared, set
  <1>3. r \in DOMAIN merged /\ f \in DOMAIN merged[r] /\ merged[r][f] = edits[r][f]
    BY <1>2, OverEachTop
  <1> HIDE DEF merged
  <1> QED
    BY <1>1, <1>2, <1>3

LEMMA AppliedCounts ==
    ASSUME OverlayInv, NEW global, OverlayNext(global), NEW s \in Sessions
    PROVE  AppliedTakesEffect(s, global)
  <1> SUFFICES ASSUME Wrote(s) PROVE AppliedTakesEffect(s, global)
    BY DEF AppliedTakesEffect
  <1> DEFINE draft == overlay[s].draft
             existing == readExistingWorkflowLocal(env.cwd[s])
             own == local'[env.cwd[s]].config
             effective == loadWorkflowConfig(local', env.cwd[s], global)
  <1>1. effective = LayersWithProfile(env.cliProfile, global, env.project, own)
    BY WroteByApply, WrittenFile DEF loadWorkflowConfig
  <1>2. IsPayload(s, own)
    BY WroteByApply, WrittenFile
  <1>3. DOMAIN existing = ConfigParts
    BY ContentsParts
  <1>4. draft.profile \in {"default", "custom", "gonka"}
    BY DEF OverlayInv, IsOverlay
  <1>5. \A r : CliSets(r) <=> Outranked(env.cliProfile, r)
    BY DEF CliSets, Outranked
  <1> HIDE DEF draft, existing, own, effective
  <1>6. ASSUME NEW r \in DOMAIN own.agents, ~CliSets(r), NEW f \in DOMAIN own.agents[r]
        PROVE  effective.config.agents[r][f] = own.agents[r][f]
    BY <1>1, <1>5, <1>6, OwnFieldsCount
  <1>7. ASSUME InBlock(s, "config"), NEW r \in DOMAIN draft.agents, ~IsCleared(draft.agents[r]),
               ~CliSets(r), NEW f \in DOMAIN draft.agents[r]
        PROVE  effective.config.agents[r][f] = draft.agents[r][f]
    <2>1. own.agents = Edited(existing.agents, draft.agents)
      BY <1>2, <1>3, <1>7, PayloadParts DEF IsPayload, InBlock, draft, existing
    <2> QED
      BY <1>6, <1>7, <2>1, EditedHas
  <1>8. ASSUME InBlock(s, "profile"), draft.profile # "custom", env.cliProfile = Unset
        PROVE  LET chosen == WORKFLOW_PROFILES[draft.profile].agents
               IN  /\ effective.profileId = draft.profile
                   /\ \A r \in DOMAIN chosen \ DOMAIN own.agents :
                         \A f \in DOMAIN chosen[r] :
                            effective.config.agents[r][f] = chosen[r][f]
    <2>1. own.profile = draft.profile /\ own.profile \in {"default", "gonka"}
      <3>1. own = buildWorkflowLocalPayload(existing, draft)
        BY <1>2, <1>8 DEF IsPayload, InBlock, draft, existing
      <3> QED
        BY <1>3, <1>4, <1>8, <3>1 DEF buildWorkflowLocalPayload, ConfigParts
    <2> QED
      BY <1>1, <1>8, <2>1, OwnProfileCounts
  <1>9. ASSUME InBlock(s, "runtime")
        PROVE  /\ DOMAIN overlay[s].runtime \subseteq DOMAIN own.runtime
               /\ \A f \in DOMAIN own.runtime : effective.config.runtime[f] = own.runtime[f]
    <2>1. PICK display :
             own = buildWorkflowLocalRuntimePayload(
                       existing, Over(overlay[s].runtime, [delegateDisplay |-> display]))
      BY <1>2, <1>9 DEF IsPayload, InBlock, existing
    <2> DEFINE shown == Over(overlay[s].runtime, [delegateDisplay |-> display])
    <2>2. DOMAIN overlay[s].runtime \subseteq DOMAIN shown
      BY OverDomain
    <2> HIDE DEF shown
    <2>3. own.runtime = Over(existing.runtime, shown)
      BY <1>3, <2>1 DEF buildWorkflowLocalRuntimePayload, ConfigParts, shown
    <2>4. DOMAIN overlay[s].runtime \subseteq DOMAIN own.runtime
      <3>1. DOMAIN own.runtime = DOMAIN existing.runtime \cup DOMAIN shown
        BY <2>3, OverDomain
      <3> QED
        BY <2>2, <3>1
    <2> QED
      BY <1>1, <2>4, OwnFieldsCount
  <1> QED
    BY <1>6, <1>7, <1>8, <1>9 DEF AppliedTakesEffect, draft, own, effective

\* What a session applies is what the next delegation of its directory gets, whatever the bundle,
\* the project's file and the other sessions' writes are; only the profile of the command line is
\* above it (loadWorkflowConfig, buildWorkflowLocalPayload, writeWorkflowLocalOverride).
THEOREM AppliesTakeEffect == WorkspaceSpec => AppliedIsEffective
  <1>1. OverlayInv /\ [WorkspaceNext]_workspaceVars =>
            [\A s \in Sessions : AppliedTakesEffect(s, GlobalConfig(bundle))]_workspaceVars
    <2> SUFFICES ASSUME OverlayInv, WorkspaceNext, NEW s \in Sessions
                 PROVE  AppliedTakesEffect(s, GlobalConfig(bundle))
      OBVIOUS
    <2>1. CASE OverlayNext(GlobalConfig(bundle))
      BY <2>1, AppliedCounts
    <2>2. CASE UNCHANGED overlayVars
      BY <2>2 DEF overlayVars, AppliedTakesEffect, Wrote, OverlayInv
    <2> QED
      BY <2>1, <2>2 DEF WorkspaceNext, OnOverlay, OnBoot
  <1> QED
    BY OverlayAlways, <1>1, PTL DEF WorkspaceSpec, AppliedIsEffective

===============================================================================
