SPECIFICATION Spec
CONSTANTS
  Char = {"x", "_"}
  Blank = "_"
  MaxLen = 10
  Targets = {8}
  Overlaps = {1}
  Limits = {9}
  Texts <- AllTexts
  Options <- AllOptions
INVARIANTS
  AllKept
CHECK_DEADLOCK FALSE
