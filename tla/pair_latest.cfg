\* two savers of one pair, nothing fails
CONSTANTS
  s1 = s1
  s2 = s2
  s3 = s3
  s4 = s4
  p = p
  q = q
  t = t
  Savers = {s1, s2}
  Pair <- PairOfSaver
  Token <- TokenOfPair
  Block <- BlockOfSaver
  Program <- ProgramOfToken
  Worthless = {}
  Metaplex = {}
  Unlucky = {}
  Faults = {}
SPECIFICATION Spec
INVARIANTS LatestTradeKept
CHECK_DEADLOCK FALSE
