SPECIFICATION ArithSpec
CONSTANTS
  Numbers <- MCNumbers
  Moduli <- MCModuli
  biL = 8
  biC = 4
  Magnitudes = {0, 1, 255, 256, 3840, 33023, 40961}
  Spares = {0, 1}
  Ints <- MCInts
  MaxSmallPrime = 7
  OddModuli = {1, 3, 7, 15, 255, 257, 4095, 32767}
  Exponents <- MCExponents
  Radicands = {0, 1, 2, 254, 255, 256, 300, 5000, 32766}
  Candidates <- MCCandidates
  Draws <- MCDraws
  PrimeBits = {3, 4, 5, 6, 7}
  MaxCandidate = 180
  Chunks = {0, 1, 255}
  Patterns <- MCPatterns
  WINDOW_SIZE = 6
  Curves <- MCCurves
  Scalars <- MCScalars
  Multiples = {1, 3, 100, 32602}
  Rngs <- MCRngs
INVARIANTS InverseRight CallsExact PowersExact RemaindersExact PointsExact
PROPERTIES Returns
CHECK_DEADLOCK FALSE
