SPECIFICATION Spec
CONSTANTS
  Blank = " "
  Open = "("
  Close = ")"
  Comma = ","
  At = "@"
  Dash = "-"
  MaxLength = 5
  MaxLengthFew = 6
  MaxNoisyFew = 4
  CommaJoins = TRUE
  Messages <- MCMessages
  Noisy <- MCNoisy
  NoiseRules <- MCNoiseRules
  NoiseKinds <- MCNoiseKinds
CHECK_DEADLOCK FALSE
INVARIANTS
  Disjoint
  Kept
  OneMoment
