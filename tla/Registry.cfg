SPECIFICATION RegistrySpec
CONSTANTS
  Registries = {"library", "engine"}
  Library = "library"
  Callables <- MCCallables
  Holder <- MCHolder
  Base <- MCBase
  NoBase = "object"
  Unmarkable = {"builtin"}
  Positional = {"pos"}
  OwnName <- MCOwnName
  MaxName = 3
  Contexts = {"page"}
  MaxCalls = 4
INVARIANT CallsReachWhatTheyName
PROPERTY RefusedChangesNothing
