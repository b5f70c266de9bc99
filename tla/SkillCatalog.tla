---------------------------- MODULE SkillCatalog ----------------------------
(***************************************************************************)
(* WorkspaceSkillCatalog (anban/capability/skill.py): which of the SKILL.md *)
(* files below the package root and the Workspace root become Skills, under *)
(* which slug, and why the others do not.                                   *)
(*   A file has a root ("package" or "workspace"), the directories between  *)
(* the root and it, what is unusual about it ("is"), its frontmatter (none, *)
(* open: not closed or without a name or description, or fields), a display *)
(* name, the length of its description and the secrets it mentions.         *)
(***************************************************************************)
EXTENDS Checks, FiniteSets

CONSTANTS
  Scopes,      \* directory names that begin with "@" ...
  SlugScopes,  \* ... and those that a slug may begin with
  SlugNames,   \* what _NAME_PATTERN accepts
  Logical,     \* the normalised form of each display name
  OddNames,    \* directory names that end in a separator of SafeMetadata
  MaxCatalog   \* MAX_ENUM_VALUES of a schema: 32 in the code

\* _scoped_name is not None.
Scoped(f) == Len(f.dirs) = 2 /\ f.dirs[1] \in Scopes

Name(f) == IF Scoped(f) THEN f.dirs[2] ELSE Logical[f.name]

\* _slug, of a file without a fault.
Slug(f) == <<IF Scoped(f) THEN f.dirs[1] ELSE "@local", Name(f)>>

\* _load with _frontmatter, _plain_description and _logical_name: "none" for a
\* SkillPackage, else the reason of the SkillLoadError.
LoadFault(f, protected) ==
  LET fields == f.front = "fields" IN
  FirstFault(
    <<Check("outside" \notin f.is, "path_invalid"),
      Check("unreadable" \notin f.is, "source_unavailable"),
      Check("large" \notin f.is, "source_limit"),
      Check("not_utf8" \notin f.is, "source_not_utf8"),
      Check("long" \notin f.is, "context_limit"),
      Check(f.mentions \cap protected = {}, "protected_value"),
      Check(f.front # "open" /\ (fields \/ Scoped(f)), "frontmatter_invalid"),
      Check(fields \/ f.description > 0, "description_invalid"),
      Check(Name(f) \in SlugNames, "name_invalid"),
      Check(f.description \in 1 .. 1024, "description_invalid"),
      Check(Scoped(f) => f.dirs[1] \in SlugScopes, "identity_mismatch")>>)

\* A skill_root of more than 512 characters: SkillPackage raises a
\* ValidationError, which _load and discover do not catch.
RootTooLong(f) == "deep" \in f.is

\* Mutant: a Workspace file may take a slug of @anban.
ReservedIgnored(f) == FALSE

Reserved(f) == f.root = "workspace" /\ Slug(f)[1] = "@anban"

Loaded(files, protected) == {f \in files : LoadFault(f, protected) = "none"}

\* discover: every candidate for a slug that has several is dropped.
Discovered(files, protected) ==
  LET candidates == {f \in Loaded(files, protected) : ~Reserved(f)} IN
  {f \in candidates : \A g \in candidates : Slug(g) = Slug(f) => g = f}

\* discover and SkillActivationCapability.__init__ with its descriptor.
CatalogFault(files, protected) ==
  LET catalog == Discovered(files, protected) IN
  FirstFault(<<Check(\A f \in Loaded(files, protected) : ~RootTooLong(f), "root_too_long"),
               Check(catalog # {}, "no_skill"),
               Check(Cardinality(catalog) <= MaxCatalog, "too_many_skills")>>)

\* SafeMetadata splits the skill_root of an activation at blanks, brackets and
\* the like, and takes a part that begins with a slash for a host path.
RootIsUnsafe(f) == \E k \in DOMAIN f.dirs : k < Len(f.dirs) /\ f.dirs[k] \in OddNames

\* SkillActivationCapability.invoke, through CapabilityRegistry.invoke.
ActivationEnd(f) == IF RootIsUnsafe(f) THEN "execution_failed" ELSE "completed"

=============================================================================
