CONSTANTS
  Attributes = {"fg", "bg", "bold"}
  Inputs <- MCInputs
  RuleSets <- MCRules
  HoldLimit = 1
SPECIFICATION Spec
INVARIANTS HighlighterInv DrawnAsMeant TypedIsPlain
CHECK_DEADLOCK FALSE
