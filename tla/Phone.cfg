SPECIFICATION Spec
CONSTANTS
  Digits = {one, two}
  Plus = plus
  Blank = blank
  Letters = {}
  KeyOf <- MCKeyOf
  Pastes <- MCPastes
  MaxNumber = 5
  Threads = {t1, t2}
  MaxOpens = 2
  MaxChanges = 6
SYMMETRY ThreadSymmetry
CHECK_DEADLOCK FALSE
INVARIANTS
  DigitsKept
  TypedGrouped
  OpenedOnce
