SPECIFICATION Spec
CONSTANTS
  None = None
  Other = Other
  Scopes = {"@anban", "@me", "@Me"}
  SlugScopes = {"@anban", "@me", "@local"}
  SlugNames = {"clawhub", "notes", "helper"}
  Logical <- TheLogical
  OddNames = {"drafts (old)"}
  MaxCatalog = 2
  Initialiser = {p1, p2}
  Places = {"apart", "inside", "around"}
  Bootstraps <- TheBootstraps
  Trees <- TheTrees
  Environments <- TheEnvironments
  SecretFiles <- TheSecretFiles
  Packaged <- ThePackaged
  Installable <- TheInstallable
  MaxEdits = 2
  MaxInits = 2
SYMMETRY Initialisers
INVARIANTS
  DoctorMissesNothing
