--------------------------- MODULE WorkspaceProofs ---------------------------
(***************************************************************************)
(* Theorems of Workspace, for every set of files, values, places, trees and *)
(* initialisers, and every bound.                                           *)
(***************************************************************************)
EXTENDS Workspace, NaturalsInduction, WellFoundedInduction, TLAPS

-----------------------------------------------------------------------------
(***************************************************************************)
(* Checks that run one after the other.                                     *)
(***************************************************************************)
\* Every nonempty set of positions has a first one.
LEMMA FirstExists ==
  ASSUME NEW T, T \subseteq Nat, T # {}
  PROVE  \E k \in T : \A j \in T : k <= j
<1>1. IsWellFoundedOn(OpToRel(<, Nat), Nat)
  BY NatLessThanWellFounded
<1>2. PICK k \in T : \A j \in T : ~(<<j, k>> \in OpToRel(<, Nat))
  BY <1>1, WFMin
<1>3. ASSUME NEW j \in T PROVE k <= j
  <2>1. j \in Nat /\ k \in Nat
    OBVIOUS
  <2>2. ~(j < k)
    BY <1>2, <2>1 DEF OpToRel
  <2> QED
    BY <2>1, <2>2
<1> QED
  BY <1>3

\* The checks find no fault exactly when none of them does, and else what one of them finds.
LEMMA NoFault ==
  ASSUME NEW faults, DOMAIN faults \subseteq Nat
  PROVE  /\ FirstFault(faults) = "none" <=> \A k \in DOMAIN faults : faults[k] = "none"
         /\ FirstFault(faults) # "none" => \E k \in DOMAIN faults : FirstFault(faults) = faults[k]
<1> DEFINE found == {k \in DOMAIN faults : faults[k] # "none"}
<1>1. CASE found = {}
  BY <1>1 DEF FirstFault
<1>2. CASE found # {}
  <2>1. \E k \in found : \A j \in found : k <= j
    <3>1. found \subseteq Nat
      OBVIOUS
    <3> HIDE DEF found
    <3> QED
      BY <3>1, <1>2, FirstExists
  <2>2. PICK k \in found : FirstFault(faults) = faults[k]
    BY <2>1, <1>2 DEF FirstFault
  <2> QED
    BY <2>2
<1> QED
  BY <1>1, <1>2

\* The doctor's checks imply those of the composition in every state.
LEMMA DoctorCoversBuild == DoctorIsNotFooled
<1> SUFFICES ASSUME DoctorFaults = {} PROVE BuildFault \in {"none", "adapter_refused"}
  BY DEF DoctorIsNotFooled
<1>1. WorkspaceFault = "none" /\ ConfigurationFault = "none"
  BY DEF DoctorFaults
<1>2. /\ PresenceFault = "none" /\ PostgreSQLFault = "none" /\ ProcessFault = "none"
  BY <1>1 DEF DoctorFaults, ConfiguredFaults
<1>3. ResolutionFault = "none"
  BY <1>1, NoFault DEF WorkspaceFault
<1>4. ModelGiven
  BY <1>2 DEF PresenceFault, Check
<1>5. DatabaseFault("development") = "none" /\ EngineFault("development") = "none"
  <2> DEFINE probe == Check(\A profile \in {"development", "test"} :
                              EngineFault(profile) = "none" /\ profile \in migrated,
                            "postgresql_probe_failed")
             checks == <<DatabaseFault("development"), DatabaseFault("test"), probe>>
  <2>1. DOMAIN checks = 1 .. 3 /\ checks[1] = DatabaseFault("development") /\ checks[3] = probe
    OBVIOUS
  <2>2. PostgreSQLFault = FirstFault(checks)
    BY DEF PostgreSQLFault
  <2>3. probe = "none" => EngineFault("development") = "none"
    BY DEF Check
  <2> HIDE DEF checks, probe
  <2>4. \A k \in DOMAIN checks : checks[k] = "none"
    BY <1>2, <2>1, <2>2, NoFault
  <2> QED
    BY <2>1, <2>3, <2>4
<1>6. RegistryFault = "none"
  BY <1>2 DEF ProcessFault, Check
<1>7. AdapterFault \in {"none", "adapter_refused"}
  BY DEF AdapterFault, Check
<1> DEFINE checks == <<ResolutionFault, ConfigurationFault, Check(ModelGiven, "model_missing"),
                       AdapterFault, DatabaseFault("development"), EngineFault("development"),
                       RegistryFault>>
<1>8. /\ DOMAIN checks = 1 .. 7
      /\ \A k \in DOMAIN checks : checks[k] \in {"none", "adapter_refused"}
  BY <1>1, <1>3, <1>4, <1>5, <1>6, <1>7 DEF Check
<1>9. BuildFault = FirstFault(checks)
  BY DEF BuildFault
<1> HIDE DEF checks
<1>10. FirstFault(checks) # "none" => \E k \in DOMAIN checks : FirstFault(checks) = checks[k]
  BY <1>8, NoFault
<1> QED
  BY <1>8, <1>9, <1>10

\* A Workspace without a fault for the doctor is an Application that can be
\* built, unless the model adapter refuses the base_url, in every reachable state.
THEOREM DoctorIsRight == Spec => []DoctorIsNotFooled
BY DoctorCoversBuild, PTL

-----------------------------------------------------------------------------
(***************************************************************************)
(* The initialisers.  What one has done stays until it is over: the user    *)
(* waits, and another one does the same or nothing.  That holds for         *)
(* anban.toml because only the initialiser that created it writes to it,    *)
(* and there is one at most.                                                *)
(***************************************************************************)
Working == {"root", "skills", "artifacts", "config", "write", "validate", "secrets", "chmod"}

TypeInv ==
  /\ init \in [Initialiser -> {"idle", "refused", "done", "crashed"} \cup Working]
  /\ DOMAIN dirs = {"skills", "artifacts"}

OneWriter ==
  /\ \A p \in Initialiser : init[p] = "write" => config = "empty"
  /\ \A p, q \in Initialiser : init[p] = "write" /\ init[q] = "write" => p = q

\* What an initialiser relies on at each step.
Layout(p) ==
  /\ init[p] \in Working => place = "apart" /\ ResolutionFault = "none"
  /\ init[p] \in Working \ {"root"} => root = "private"
  /\ init[p] \in Working \ {"root", "skills"} => dirs["skills"] = "directory"
  /\ init[p] \in Working \ {"root", "skills", "artifacts"} => dirs["artifacts"] = "directory"
  /\ init[p] \in {"secrets", "chmod"} => config \in {"odd", "default", "edited"}
  /\ init[p] = "chmod" => secrets # None

InitInv == TypeInv /\ OneWriter /\ \A p \in Initialiser : Layout(p)

\* The two directories, in the order of the loop.
LEMMA DirectoriesAre ==
  /\ DOMAIN Directories = {1, 2} /\ Len(Directories) = 2
  /\ Directories[1] = "skills" /\ Directories[2] = "artifacts"
BY DEF Directories

\* The steps of an initialiser do not change their names.
LEMMA StepsAre == TypeInv => Steps = Working
BY DEF TypeInv, Steps, Working

\* The initial states.
LEMMA InitInvHolds == Init => InitInv
<1> SUFFICES ASSUME Init PROVE InitInv
  OBVIOUS
<1>1. DOMAIN dirs = {"skills", "artifacts"}
  BY DirectoriesAre DEF Init
<1> QED
  BY <1>1 DEF Init, InitInv, TypeInv, OneWriter, Layout, Working

\* Where the Workspace is does not change.
LEMMA PlaceStays ==
  ASSUME [Next]_vars
  PROVE  place' = place /\ ResolutionFault' = ResolutionFault
<1>1. place' = place /\ bootstrap' = bootstrap
  BY DEF Next, Initialise, Start, MakeRoot, MakeDirectory, CreateConfig, WriteConfig, ValidateConfig,
     CreateSecrets, CloseSecrets, Crash, Again, Goes, Edits, EditConfig, EditSecrets, SetEnvironment,
     Migrate, Loosen, Install, Build, Activate, vars
<1> QED
  BY <1>1 DEF ResolutionFault

\* A step of an initialiser.
LEMMA InitialiserKeepsInv ==
  ASSUME InitInv, NEW p \in Initialiser, Initialise(p) \/ Crash(p) \/ Again(p), [Next]_vars
  PROVE  InitInv'
<1> USE DEF InitInv, TypeInv, OneWriter, Layout, Working, Goes, At, files, user
<1>0. place' = place /\ ResolutionFault' = ResolutionFault /\ Steps = Working
  BY PlaceStays, StepsAre
<1>1. CASE Start(p)
  BY <1>0, <1>1 DEF Start
<1>2. CASE MakeRoot(p)
  BY <1>0, <1>2, DirectoriesAre DEF MakeRoot
<1>3. CASE MakeDirectory(p)
  BY <1>0, <1>3, DirectoriesAre DEF MakeDirectory
<1>4. CASE CreateConfig(p)
  BY <1>0, <1>4 DEF CreateConfig
<1>5. CASE WriteConfig(p)
  BY <1>0, <1>5 DEF WriteConfig
<1>6. CASE ValidateConfig(p)
  BY <1>0, <1>6 DEF ValidateConfig
<1>7. CASE CreateSecrets(p)
  BY <1>0, <1>7, WorkspaceAssumption DEF CreateSecrets
<1>8. CASE CloseSecrets(p)
  BY <1>0, <1>8 DEF CloseSecrets
<1>9. CASE Crash(p) \/ Again(p)
  BY <1>0, <1>9 DEF Crash, Again
<1> QED
  BY <1>1, <1>2, <1>3, <1>4, <1>5, <1>6, <1>7, <1>8, <1>9 DEF Initialise

\* A step of the user, or of a command that has built an Application.
LEMMA OthersKeepInv ==
  ASSUME InitInv, [Next]_vars, init' = init, dirs' = dirs,
         \/ Edits
         \/ root' = root /\ config' = config /\ secrets' = secrets
  PROVE  InitInv'
<1>0. place' = place /\ ResolutionFault' = ResolutionFault /\ Steps = Working
  BY PlaceStays, StepsAre DEF InitInv
<1>1. CASE Edits
  <2>1. \A p \in Initialiser : init[p] \notin Working
    BY <1>0, <1>1 DEF Edits
  <2> QED
    BY <2>1 DEF InitInv, TypeInv, OneWriter, Layout, Working
<1>2. CASE root' = root /\ config' = config /\ secrets' = secrets
  BY <1>0, <1>2 DEF InitInv, TypeInv, OneWriter, Layout, Working
<1> QED
  BY <1>1, <1>2

\* Every step.
LEMMA NextKeepsInv == InitInv /\ [Next]_vars => InitInv'
<1> SUFFICES ASSUME InitInv, [Next]_vars PROVE InitInv'
  OBVIOUS
<1>1. ASSUME NEW p \in Initialiser, Initialise(p) \/ Crash(p) \/ Again(p)
      PROVE  InitInv'
  BY <1>1, InitialiserKeepsInv
<1>2. CASE EditConfig \/ EditSecrets \/ SetEnvironment \/ Migrate \/ Loosen
  BY <1>2, OthersKeepInv DEF EditConfig, EditSecrets, SetEnvironment, Migrate, Loosen, Edits, files
<1>3. ASSUME NEW f, Install(f) \/ Activate(f)
      PROVE  InitInv'
  BY <1>3, OthersKeepInv DEF Install, Activate, Edits, files
<1>4. CASE Build \/ UNCHANGED vars
  BY <1>4, OthersKeepInv DEF Build, files, vars
<1> QED
  BY <1>1, <1>2, <1>3, <1>4 DEF Next

\* The invariant holds in every reachable state.
LEMMA Invariant == Spec => []InitInv
BY InitInvHolds, NextKeepsInv, PTL DEF Spec

-----------------------------------------------------------------------------
(***************************************************************************)
(* What an initialisation leaves.                                           *)
(***************************************************************************)
\* A step that changes where an initialiser is, is one of an initialiser.
LEMMA OnlyInitialisersMove ==
  ASSUME Next, init' # init
  PROVE  \E p \in Initialiser : Initialise(p) \/ Crash(p) \/ Again(p)
BY DEF Next, Edits, EditConfig, EditSecrets, SetEnvironment, Migrate, Loosen, Install, Build, Activate

\* What the doctor asks of a Workspace.
Sound ==
  /\ place = "apart" /\ ResolutionFault = "none" /\ root = "private"
  /\ \A name \in DOMAIN dirs : dirs[name] = "directory"
  /\ secrets \notin {None, Other} /\ readable = FALSE

\* The doctor asks no more.
LEMMA SoundLayout == Sound => WorkspaceFault = "none"
<1> SUFFICES ASSUME Sound PROVE WorkspaceFault = "none"
  OBVIOUS
<1>1. /\ Check(place # "inside", "workspace_path_unsafe") = "none"
      /\ Check(/\ root \in {"open", "private"}
               /\ \A name \in DOMAIN dirs : dirs[name] = "directory",
               "workspace_layout_invalid") = "none"
      /\ Check(root = "private", "workspace_permissions_invalid") = "none"
      /\ Check(secrets \notin {None, Other} /\ ~readable,
               "workspace_secret_permissions_invalid") = "none"
  BY DEF Check, Sound
<1>2. FirstFault(<<"none", "none", "none", "none", "none">>) = "none"
  BY NoFault
<1> QED
  BY <1>1, <1>2, Zenon DEF WorkspaceFault, Sound

\* Only the last step of an initialisation ends it with success.
LEMMA OnlyCloseSecretsEnds ==
  ASSUME InitInv, Next, NEW p \in Initialiser, init[p] # "done", init'[p] = "done"
  PROVE  CloseSecrets(p) /\ secrets # Other
<1> USE DEF InitInv, TypeInv, Working, Goes, At
<1>1. PICK q \in Initialiser : Initialise(q) \/ Crash(q) \/ Again(q)
  BY OnlyInitialisersMove
<1>2. CASE Start(q) \/ MakeRoot(q) \/ CreateConfig(q) \/ WriteConfig(q) \/ ValidateConfig(q)
           \/ CreateSecrets(q) \/ Crash(q) \/ Again(q)
  BY <1>2, DirectoriesAre DEF Start, MakeRoot, CreateConfig, WriteConfig, ValidateConfig,
     CreateSecrets, Crash, Again
<1>3. CASE MakeDirectory(q)
  BY <1>3, DirectoriesAre DEF MakeDirectory
<1>4. CASE CloseSecrets(q)
  BY <1>4 DEF CloseSecrets
<1> QED
  BY <1>1, <1>2, <1>3, <1>4 DEF Initialise

\* The step that ends an initialisation with success leaves a Workspace as the
\* doctor wants it.
LEMMA EndLeavesLayout ==
  ASSUME InitInv, Next, NEW p \in Initialiser, init[p] # "done", init'[p] = "done"
  PROVE  WorkspaceFault' = "none" /\ config' \in {"odd", "default", "edited"}
<1>1. CloseSecrets(p) /\ secrets # Other
  BY OnlyCloseSecretsEnds
<1>2. /\ init[p] = "chmod"
      /\ UNCHANGED <<place, root, dirs, config, secrets>>
      /\ readable' = FALSE
  BY <1>1 DEF CloseSecrets, At, Goes
<1>3. Sound'
  BY <1>1, <1>2, PlaceStays DEF InitInv, TypeInv, Layout, Working, Sound
<1>4. config' \in {"odd", "default", "edited"}
  BY <1>2 DEF InitInv, Layout
<1>5. (WorkspaceFault = "none")'
  BY <1>3, SoundLayout, PTL
<1> QED
  BY <1>4, <1>5

\* Whatever an initialisation finds, and whoever runs beside it: success means
\* the layout, the modes and a configuration with a version and an id.
THEOREM SuccessLeavesLayout == Spec => InitLeavesLayout
<1>1. InitInv /\ [Next]_vars =>
        [\A p \in Initialiser :
           init[p] # "done" /\ init'[p] = "done" =>
             WorkspaceFault' = "none" /\ config' \in {"odd", "default", "edited"}]_vars
  BY EndLeavesLayout
<1> QED
  BY <1>1, Invariant, PTL DEF Spec, InitLeavesLayout

-----------------------------------------------------------------------------
(***************************************************************************)
(* What an initialisation leaves alone.                                     *)
(***************************************************************************)
\* A step of an initialiser changes anban.toml only when it is absent or its
\* own, secrets.env only when it is absent, and no Skill.
LEMMA InitialiserKeepsFiles ==
  ASSUME InitInv, NEW p \in Initialiser, Initialise(p) \/ Crash(p) \/ Again(p)
  PROVE  /\ config \notin {"absent", "empty"} => config' = config
         /\ secrets # None => secrets' = secrets
         /\ skills' = skills
<1> USE DEF InitInv, OneWriter, Goes, At, files, user
<1>1. CASE Start(p) \/ ValidateConfig(p) \/ Crash(p) \/ Again(p)
  BY <1>1 DEF Start, ValidateConfig, Crash, Again
<1>2. CASE MakeRoot(p) \/ MakeDirectory(p)
  BY <1>2 DEF MakeRoot, MakeDirectory
<1>3. CASE CreateConfig(p) \/ WriteConfig(p)
  BY <1>3 DEF CreateConfig, WriteConfig
<1>4. CASE CreateSecrets(p) \/ CloseSecrets(p)
  BY <1>4 DEF CreateSecrets, CloseSecrets
<1> QED
  BY <1>1, <1>2, <1>3, <1>4 DEF Initialise

\* No initialisation writes over what somebody else has written.
THEOREM FilesSurvive == Spec => UserFilesSurvive
<1>1. InitInv /\ [Next]_vars =>
        [(\E p \in Initialiser : init'[p] # init[p]) =>
           /\ config \notin {"absent", "empty"} => config' = config
           /\ secrets # None => secrets' = secrets
           /\ skills' = skills]_vars
  BY OnlyInitialisersMove, InitialiserKeepsFiles
<1> QED
  BY <1>1, Invariant, PTL DEF Spec, UserFilesSurvive

-----------------------------------------------------------------------------
(***************************************************************************)
(* The packaged Skills.                                                     *)
(***************************************************************************)
SkillsInv == skills \subseteq Installable /\ PackagedSkillsSurvive

\* A file that is loaded whatever is protected, is loaded.
LEMMA LoadedAnyway ==
  ASSUME NEW f, NEW all, NEW protected \in SUBSET all, LoadFault(f, all) = "none"
  PROVE  LoadFault(f, protected) = "none"
<1> DEFINE Faults(p) ==
      LET fields == f.front = "fields" IN
      <<Check("outside" \notin f.is, "path_invalid"),
        Check("unreadable" \notin f.is, "source_unavailable"),
        Check("large" \notin f.is, "source_limit"),
        Check("not_utf8" \notin f.is, "source_not_utf8"),
        Check("long" \notin f.is, "context_limit"),
        Check(f.mentions \cap p = {}, "protected_value"),
        Check(f.front # "open" /\ (fields \/ Scoped(f)), "frontmatter_invalid"),
        Check(fields \/ f.description > 0, "description_invalid"),
        Check(Name(f) \in SlugNames, "name_invalid"),
        Check(f.description \in 1 .. 1024, "description_invalid"),
        Check(Scoped(f) => f.dirs[1] \in SlugScopes, "identity_mismatch")>>
<1>1. \A p : LoadFault(f, p) = FirstFault(Faults(p)) /\ DOMAIN Faults(p) = 1 .. 11
  BY DEF LoadFault
<1>2. \A k \in (1 .. 11) \ {6} : Faults(protected)[k] = Faults(all)[k]
  OBVIOUS
<1>3. Faults(all)[6] = "none" => Faults(protected)[6] = "none"
  BY DEF Check
<1> HIDE DEF Faults
<1>4. \A k \in 1 .. 11 : Faults(all)[k] = "none"
  BY <1>1, NoFault
<1>5. \A k \in 1 .. 11 : Faults(protected)[k] = "none"
  BY <1>2, <1>3, <1>4
<1> QED
  BY <1>1, <1>5, NoFault

\* A packaged Skill is discovered, whatever lies in the Workspace: a file there
\* with its slug is refused before it can conflict.
LEMMA PackagedIsDiscovered ==
  ASSUME skills \subseteq Installable, NEW f \in Packaged, LoadFault(f, Key) = "none"
  PROVE  f \in Discovered(SkillFiles, Protected)
<1> DEFINE candidates == {g \in Loaded(SkillFiles, Protected) : ~Reserved(g)}
<1>1. SkillFiles \subseteq Packaged \cup Installable /\ f \in SkillFiles
  BY DEF SkillFiles
<1>2. Protected \in SUBSET Key
  BY DEF Protected, Key
<1>3. f \in candidates
  <2>1. LoadFault(f, Protected) = "none"
    BY <1>2, LoadedAnyway
  <2>2. f.root = "package"
    BY WorkspaceAssumption
  <2> QED
    BY <1>1, <2>1, <2>2 DEF Loaded, Reserved
<1>4. ASSUME NEW g \in candidates, Slug(g) = Slug(f)
      PROVE  g = f
  <2>1. CASE g \in Packaged
    BY <1>4, <2>1, PackageAssumption
  <2>2. CASE g \in Installable
    BY <1>4, <2>2, WorkspaceAssumption, PackageAssumption DEF Reserved
  <2> QED
    BY <1>1, <2>1, <2>2 DEF Loaded
<1> HIDE DEF candidates
<1> QED
  BY <1>3, <1>4 DEF Discovered, candidates

\* No command and no user takes a packaged Skill out of an Application.
LEMMA NextKeepsSkills == SkillsInv /\ [Next]_vars => SkillsInv'
<1> SUFFICES ASSUME SkillsInv, [Next]_vars PROVE SkillsInv'
  OBVIOUS
<1> USE DEF SkillsInv, PackagedSkillsSurvive
<1>1. ASSUME NEW p \in Initialiser, Initialise(p) \/ Crash(p) \/ Again(p)
      PROVE  skills' = skills /\ application' = application
  BY <1>1 DEF Initialise, Start, MakeRoot, MakeDirectory, CreateConfig, WriteConfig, ValidateConfig,
     CreateSecrets, CloseSecrets, Crash, Again, Goes, user
<1>2. CASE EditConfig \/ EditSecrets \/ SetEnvironment \/ Migrate \/ Loosen
  BY <1>2 DEF EditConfig, EditSecrets, SetEnvironment, Migrate, Loosen, Edits
<1>3. ASSUME NEW f \in Installable, Install(f)
      PROVE  SkillsInv'
  BY <1>3 DEF Install, Edits
<1>4. CASE Build
  BY <1>4, PackagedIsDiscovered DEF Build, user
<1>5. ASSUME NEW f, Activate(f)
      PROVE  SkillsInv'
  BY <1>5 DEF Activate, user
<1>6. CASE UNCHANGED vars
  BY <1>6 DEF vars, user
<1> QED
  BY <1>1, <1>2, <1>3, <1>4, <1>5, <1>6 DEF Next

\* Every Application has every packaged Skill that names no secret, however many
\* files the user, or a Skill, puts into the Workspace.
THEOREM PackagedSkillsStay == Spec => []PackagedSkillsSurvive
<1>1. Init => SkillsInv
  BY DEF Init, SkillsInv, PackagedSkillsSurvive
<1>2. SkillsInv => PackagedSkillsSurvive
  BY DEF SkillsInv
<1> QED
  BY <1>1, <1>2, NextKeepsSkills, PTL DEF Spec

=============================================================================
