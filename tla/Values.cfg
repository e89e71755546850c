SPECIFICATION MCSpec
CONSTANTS
  Base = 2
  Numbers <- MCNumbers
  Strings <- MCStrings
  MaxFields = 3
  x1 = x1
  x2 = x2
  x3 = x3
  Strs <- MCStrs
  Cap <- MCCap
  Chars = {"a"}
  NUL = "nul"
  Junk = "junk"
  Literals <- MCLiterals
  r1 = r1
  r2 = r2
  r3 = r3
  Results <- MCResults
  Data = {"d1", "d2"}
  Moved = "moved"
INVARIANTS
  RoundTrip
  WireIsNetworkOrder
  StringIsWhole
  FlagNamesTheMember
PROPERTIES
  ActsAsString
CHECK_DEADLOCK FALSE
