----------------------------- MODULE Workspace ------------------------------
(***************************************************************************)
(* The managed Workspace: "anban workspace init" (anban/workspace.py), the  *)
(* configuration (anban/config/loader.py), the composition of an            *)
(* Application from both (anban/application.py, anban/capability/local.py)  *)
(* and the doctor (scripts/doctor.py), over the files that a user edits in  *)
(* between.  Every step of an initialiser is one change to the file system; *)
(* two may run at once, and one may crash anywhere.  Building, checking and *)
(* activating do not wait, so each is one step or one state function.       *)
(*   anban.toml is "empty", "cut" (no TOML), "not_utf8", "odd" (TOML with   *)
(* an id and a version that the loader refuses), "default", "edited" or a   *)
(* "link" to a file like it.                                                *)
(***************************************************************************)
EXTENDS SkillCatalog

CONSTANTS
  None,
  Other,         \* a directory where a file is expected
  Initialiser,
  Places,        \* where the Workspace is: "apart", "inside" or "around" the repository
  Bootstraps,    \* what the environment, .env and the platform say of it
  Trees,         \* what the file system holds at first
  Environments,  \* the values of Key in a shell
  SecretFiles,   \* the values of Key in secrets.env
  Packaged,      \* the SKILL.md files of the package
  Installable,   \* those that may come to the Workspace
  MaxEdits,      \* bound on what the user does
  MaxInits       \* bound on the initialisations that start

\* The model name is one with the API key.
Key == {"base_url", "api_key", "development", "test"}
Directories == <<"skills", "artifacts">>  \* two of the six

NoValue == [key \in Key |-> None]  \* an empty file

ASSUME WorkspaceAssumption ==
  /\ MaxEdits \in Nat /\ MaxInits \in Nat
  /\ NoValue \notin {None, Other}
  /\ \A f \in Packaged : f.root = "package"
  /\ \A f \in Installable : f.root = "workspace"

\* The package has its Skills below @anban, each once.
ASSUME PackageAssumption ==
  \A f, g \in Packaged : Slug(f)[1] = "@anban" /\ (Slug(f) = Slug(g) => f = g)

VARIABLES
  place, bootstrap,  \* which never change
  root,              \* "absent", "file", "open" or "private" (mode 0700)
  dirs,              \* each directory: "absent", "directory" or "other"
  config,            \* anban.toml
  secrets,           \* secrets.env: None when there is none
  readable,          \* secrets.env has another mode than 0600
  skills,            \* the SKILL.md files below skills/
  environment,       \* the shell
  migrated,          \* databases at the migration head
  init,              \* each initialiser: the step it is at
  application,       \* the Skills of the Application, or None
  activation,        \* how the last activation ended
  edits, inits       \* counters for the bounds

files == <<root, dirs, config, secrets, readable>>
user == <<skills, environment, migrated, edits>>
vars == <<place, bootstrap, files, user, init, application, activation, inits>>

-----------------------------------------------------------------------------
(***************************************************************************)
(* scripts/workspace_bootstrap.py: the first source that says anything.     *)
(***************************************************************************)
ResolutionFault ==
  LET value == IF bootstrap.environment # None THEN bootstrap.environment
               ELSE IF bootstrap.dotenv # None THEN bootstrap.dotenv
               ELSE bootstrap.default
  IN FirstFault(<<Check(value # "unavailable", "workspace_default_unavailable"),
                  Check(value # "blank", "workspace_bootstrap_invalid"),
                  Check(value # "relative", "workspace_path_relative")>>)

(***************************************************************************)
(* anban/config/loader.py.                                                  *)
(***************************************************************************)
\* _resolved_value: a blank in the environment hides what secrets.env has.
Value(key) ==
  LET value == IF environment[key] # None THEN environment[key]
               ELSE IF secrets \in {None, Other} THEN None ELSE secrets[key]
  IN IF value = "blank" THEN None ELSE value

ModelGiven == Value("base_url") # None /\ Value("api_key") # None

\* What WorkspaceSettings accepts, with its models, bounds and timeout order.
Accepted == {"default", "edited", "link"}

\* load_configuration; a UnicodeDecodeError is not one of the errors it catches.
ConfigurationFault ==
  FirstFault(<<Check(config # "not_utf8", "unicode_error"),
               Check(config \in Accepted, "configuration_invalid"),
               Check(ModelGiven => Value("base_url") # "bad", "endpoint_invalid")>>)

\* AnbanConfiguration.protected_values.
Protected ==
  {key \in {"development", "test"} : Value(key) # None} \cup
    (IF ModelGiven THEN {"api_key"} ELSE {})

\* DatabaseConfiguration.require.
DatabaseFault(profile) ==
  FirstFault(<<Check(Value(profile) # None, "database_missing"),
               Check(Value(profile) # "bad", "database_invalid")>>)

\* create_database_engine: SQLAlchemy parses what follows the scheme.
EngineFault(profile) == Check(Value(profile) # "malformed", "engine_refused")

\* OpenAICompatibleAdapter.configured: AsyncOpenAI parses the whole base_url, of which
\* validate_endpoint has looked at the scheme and at whether there is a host.
AdapterFault == Check(Value("base_url") # "malformed", "adapter_refused")

SkillFiles == Packaged \cup IF dirs["skills"] = "directory" THEN skills ELSE {}

\* local_capability_registry.
RegistryFault ==
  FirstFault(<<Check(root # "absent", "workspace_missing"),
               Check(place = "apart", "workspace_too_broad"),
               Check(root # "file", "workspace_not_directory"),
               CatalogFault(SkillFiles, Protected)>>)

\* build_application.
BuildFault ==
  FirstFault(<<ResolutionFault, ConfigurationFault, Check(ModelGiven, "model_missing"),
               AdapterFault, DatabaseFault("development"), EngineFault("development"),
               RegistryFault>>)

(***************************************************************************)
(* scripts/doctor.py, on a machine with the toolchain.                      *)
(***************************************************************************)
\* check_workspace.
WorkspaceFault ==
  FirstFault(<<ResolutionFault,
               Check(place # "inside", "workspace_path_unsafe"),
               Check(/\ root \in {"open", "private"}
                     /\ \A name \in DOMAIN dirs : dirs[name] = "directory",
                     "workspace_layout_invalid"),
               Check(root = "private", "workspace_permissions_invalid"),
               Check(secrets \notin {None, Other} /\ ~readable, "workspace_secret_permissions_invalid")>>)

\* check_configuration.
PresenceFault ==
  Check(ModelGiven /\ \A key \in {"development", "test"} : Value(key) # None,
        "configuration_missing")

\* check_postgresql and database_probe: an engine for each of the databases, whichever
\* a command uses, and its migrations.
PostgreSQLFault ==
  FirstFault(<<DatabaseFault("development"), DatabaseFault("test"),
               Check(\A profile \in {"development", "test"} :
                       EngineFault(profile) = "none" /\ profile \in migrated,
                     "postgresql_probe_failed")>>)

\* check_skills: a catalog with too many Skills passes.
SkillsFault ==
  Check(CatalogFault(SkillFiles, Protected) \notin {"root_too_long", "no_skill"},
        "skill_discovery_failed")

\* check_process and process_probe: the whole Registry is built.
ProcessFault == Check(RegistryFault = "none", "process_probe_failed")

ConfiguredFaults == {PresenceFault, PostgreSQLFault, SkillsFault, ProcessFault}

\* Mutant: the Registry is not built.
FaultsWithoutProcess ==
  ({WorkspaceFault} \cup
     (IF ConfigurationFault # "none" THEN {ConfigurationFault}
      ELSE ConfiguredFaults \ {ProcessFault})) \ {"none"}

\* main: the exit code is 0 when there is none.  A configuration that cannot be
\* loaded ends the checks that need one.
DoctorFaults ==
  ({WorkspaceFault} \cup
     (IF ConfigurationFault # "none" THEN {ConfigurationFault} ELSE ConfiguredFaults)) \ {"none"}

-----------------------------------------------------------------------------
Init ==
  /\ place \in Places /\ bootstrap \in Bootstraps
  /\ \E tree \in Trees :
       /\ root = tree.root /\ config = tree.config /\ secrets = tree.secrets
       /\ dirs = [name \in {Directories[k] : k \in DOMAIN Directories} |-> tree.dirs]
  /\ readable = FALSE
  /\ skills = {} /\ environment = NoValue /\ migrated \in {{}, {"development", "test"}}
  /\ init = [p \in Initialiser |-> "idle"]
  /\ application = None /\ activation = "none"
  /\ edits = 0 /\ inits = 0

(***************************************************************************)
(* initialize_workspace.                                                    *)
(***************************************************************************)
At(p, step) == init[p] = step

Goes(p, step) ==
  /\ init' = [init EXCEPT ![p] = step]
  /\ UNCHANGED <<place, bootstrap, user, application, activation>>

\* resolve_workspace and _ensure_safe_root: nothing was touched.
Start(p) ==
  /\ At(p, "idle") /\ inits < MaxInits /\ inits' = inits + 1
  /\ Goes(p, IF ResolutionFault = "none" /\ place = "apart" THEN "root" ELSE "refused")
  /\ UNCHANGED files

\* Mutant: a root that exists keeps its mode.
MakeRootKept(p) ==
  /\ At(p, "root")
  /\ IF root = "file" THEN Goes(p, "refused") /\ UNCHANGED root
     ELSE Goes(p, Directories[1]) /\ root' = IF root = "open" THEN "open" ELSE "private"
  /\ UNCHANGED <<dirs, config, secrets, readable, inits>>

\* mkdir(exist_ok=True), is_dir and chmod.
MakeRoot(p) ==
  /\ At(p, "root")
  /\ IF root = "file" THEN Goes(p, "refused") /\ UNCHANGED root
     ELSE Goes(p, Directories[1]) /\ root' = "private"
  /\ UNCHANGED <<dirs, config, secrets, readable, inits>>

\* One turn of the loop over _DIRECTORIES.
MakeDirectory(p) ==
  /\ \E k \in DOMAIN Directories :
       /\ At(p, Directories[k])
       /\ IF dirs[Directories[k]] = "other" THEN Goes(p, "refused") /\ UNCHANGED dirs
          ELSE /\ Goes(p, IF k = Len(Directories) THEN "config" ELSE Directories[k + 1])
               /\ dirs' = [dirs EXCEPT ![Directories[k]] = "directory"]
  /\ UNCHANGED <<root, config, secrets, readable, inits>>

\* Mutant: the file is opened without O_EXCL, and written.
CreateConfigShared(p) ==
  /\ At(p, "config")
  /\ IF config = "link" THEN Goes(p, "refused") /\ UNCHANGED config
     ELSE Goes(p, "write") /\ config' = IF config = "absent" THEN "empty" ELSE config
  /\ UNCHANGED <<root, dirs, secrets, readable, inits>>

\* _create_file up to os.open with O_EXCL, for anban.toml.
CreateConfig(p) ==
  /\ At(p, "config")
  /\ \/ config = "link" /\ Goes(p, "refused") /\ UNCHANGED config
     \/ config = "absent" /\ Goes(p, "write") /\ config' = "empty"
     \/ config \notin {"link", "absent"} /\ Goes(p, "validate") /\ UNCHANGED config
  /\ UNCHANGED <<root, dirs, secrets, readable, inits>>

\* os.write: an error, or any number of bytes; its result is not looked at.
WriteConfig(p) ==
  /\ At(p, "write")
  /\ \/ Goes(p, "refused") /\ UNCHANGED config
     \/ \E content \in {"default", "odd", "cut", "not_utf8"} :
          Goes(p, "validate") /\ config' = content
  /\ UNCHANGED <<root, dirs, secrets, readable, inits>>

\* _validate_existing_config.
ValidateConfig(p) ==
  /\ At(p, "validate")
  /\ Goes(p, IF config \in {"odd", "default", "edited"} THEN "secrets" ELSE "refused")
  /\ UNCHANGED <<files, inits>>

\* _create_file for secrets.env.
CreateSecrets(p) ==
  /\ At(p, "secrets") /\ Goes(p, "chmod")
  /\ IF secrets = None THEN secrets' = NoValue /\ readable' = FALSE
     ELSE UNCHANGED <<secrets, readable>>
  /\ UNCHANGED <<root, dirs, config, inits>>

\* It must be a file; chmod.
CloseSecrets(p) ==
  /\ At(p, "chmod") /\ Goes(p, IF secrets = Other THEN "refused" ELSE "done")
  /\ readable' = (secrets = Other /\ readable)
  /\ UNCHANGED <<root, dirs, config, secrets, inits>>

Steps == {"root", "config", "write", "validate", "secrets", "chmod"} \cup DOMAIN dirs

\* The process dies; what it did stays.
Crash(p) ==
  /\ init[p] \in Steps /\ Goes(p, "crashed") /\ UNCHANGED <<files, inits>>

\* The next command of the same shell.
Again(p) ==
  /\ init[p] \in {"refused", "done", "crashed"} /\ Goes(p, "idle") /\ UNCHANGED <<files, inits>>

-----------------------------------------------------------------------------
(***************************************************************************)
(* The user, while no initialiser runs.                                     *)
(***************************************************************************)
Edits ==
  /\ \A p \in Initialiser : init[p] \notin Steps
  /\ root \in {"open", "private"} /\ edits < MaxEdits /\ edits' = edits + 1
  /\ UNCHANGED <<place, bootstrap, init, application, activation, inits>>

EditConfig ==
  /\ Edits /\ config' \in {"absent", "edited", "odd", "cut", "not_utf8", "link"}
  /\ UNCHANGED <<root, dirs, secrets, readable, skills, environment, migrated>>

\* An editor may leave the file with another mode.
EditSecrets ==
  /\ Edits /\ secrets' \in SecretFiles /\ readable' \in BOOLEAN
  /\ UNCHANGED <<root, dirs, config, skills, environment, migrated>>

SetEnvironment ==
  /\ Edits /\ environment' \in Environments
  /\ UNCHANGED <<files, skills, migrated>>

\* One migration run moves every database that is configured.
Migrate ==
  /\ Edits /\ migrated' = {key \in {"development", "test"} : Value(key) = "good"}
  /\ UNCHANGED <<files, skills, environment>>

Loosen == Edits /\ root' = "open" /\ UNCHANGED <<dirs, config, secrets, readable, skills, environment, migrated>>

\* A SKILL.md comes, also by a Skill that uses process.execute.
Install(f) ==
  /\ Edits /\ dirs["skills"] = "directory"
  /\ skills' = {g \in skills : g.dirs # f.dirs} \cup {f}
  /\ UNCHANGED <<files, environment, migrated>>

-----------------------------------------------------------------------------
\* build_application, by a command.
Build ==
  /\ application' = IF BuildFault = "none" THEN Discovered(SkillFiles, Protected) ELSE None
  /\ activation' = "none"
  /\ UNCHANGED <<place, bootstrap, files, user, init, inits>>

\* skill.activate, with a slug of the enum in its schema.
Activate(f) ==
  /\ application # None /\ f \in application
  /\ activation' = ActivationEnd(f)
  /\ UNCHANGED <<place, bootstrap, files, user, init, application, inits>>

Initialise(p) ==
  \/ Start(p) \/ MakeRoot(p) \/ MakeDirectory(p) \/ CreateConfig(p) \/ WriteConfig(p)
  \/ ValidateConfig(p) \/ CreateSecrets(p) \/ CloseSecrets(p)

Next ==
  \/ \E p \in Initialiser : Initialise(p) \/ Crash(p) \/ Again(p)
  \/ EditConfig \/ EditSecrets \/ SetEnvironment \/ Migrate \/ Loosen
  \/ \E f \in Installable : Install(f)
  \/ Build
  \/ \E f \in Packaged \cup Installable : Activate(f)

Spec == Init /\ [][Next]_vars

-----------------------------------------------------------------------------
(***************************************************************************)
(* Properties.                                                              *)
(***************************************************************************)
\* An initialisation that reports success leaves what the doctor asks of the
\* Workspace, with a configuration that has a version and an id, whatever it
\* found, and also when another one runs beside it or crashed before it.
InitLeavesLayout ==
  [][\A p \in Initialiser :
       init[p] # "done" /\ init'[p] = "done" =>
         WorkspaceFault' = "none" /\ config' \in {"odd", "default", "edited"}]_vars

\* An initialisation fills anban.toml and secrets.env only when it has created
\* them itself: what a user, or another initialisation, has written stays.
UserFilesSurvive ==
  [][(\E p \in Initialiser : init'[p] # init[p]) =>
       /\ config \notin {"absent", "empty"} => config' = config
       /\ secrets # None => secrets' = secrets
       /\ skills' = skills]_vars

\* When the doctor finds no fault, nothing that a user edits keeps the same shell
\* from building the Application but a base_url that the model adapter refuses: the
\* checks of the doctor, in another module and in another order, miss no other
\* condition of the configuration, of the databases' URLs, of the place of the
\* Workspace and of the Skill catalog.
DoctorIsNotFooled == DoctorFaults = {} => BuildFault \in {"none", "adapter_refused"}

\* Without that exception, which does not hold: the doctor builds no adapter, and
\* loading the configuration accepts a base_url with a malformed port.
DoctorMissesNothing == DoctorFaults = {} => BuildFault = "none"

\* No file in the Workspace takes away or replaces a packaged Skill that names
\* no secret: it is in every Application that could be built.
PackagedSkillsSurvive ==
  application # None =>
    \A f \in Packaged : LoadFault(f, Key) = "none" => f \in application

\* Every Skill that was discovered can be activated: "Return complete
\* instructions for any uniformly discovered Skill." (src/anban/capability/skill.py:228)
DiscoveredIsActivatable == activation # "execution_failed"

=============================================================================
