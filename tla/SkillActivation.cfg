SPECIFICATION Spec
CONSTANTS
  None = None
  Other = Other
  Scopes = {"@anban", "@me", "@Me"}
  SlugScopes = {"@anban", "@me", "@local"}
  SlugNames = {"clawhub", "notes", "helper"}
  Logical <- TheLogical
  OddNames = {"drafts (old)"}
  MaxCatalog = 2
  Initialiser = {p1}
  Places = {"apart", "inside", "around"}
  Bootstraps <- TheBootstraps
  Trees <- TheTrees
  Environments <- TheEnvironments
  SecretFiles <- TheSecretFiles
  Packaged <- ThePackaged
  Installable <- TheInstallable
  MaxEdits = 1
  MaxInits = 1
INVARIANTS
  DiscoveredIsActivatable
