CONSTANTS
  Dynamic = {"k29481"}
  Generic = {"container", "input", "button"}
  Lengthy = {"watch"}
  Marks <- MCMarks
  Size <- MCSize
  Aliases <- MCAliases
  ParameterSets <- NestedParameterSets
  Turns <- NestedTurns
  ElementOf <- MCElementOf
  Numerals <- MCNumerals
  Rounds = 1
  MaxSteps = 2
  MaxActions = 2
  MaxUrls = 1
  MaxErrors = 1
SPECIFICATION Spec
INVARIANTS
  KeptActionsAreRepeated
