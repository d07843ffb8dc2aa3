\* savers of two pairs of one token; the database fails one of them
CONSTANTS
  s1 = s1
  s2 = s2
  s3 = s3
  s4 = s4
  p = p
  q = q
  t = t
  Savers = {s1, s2, s3, s4}
  Pair <- PairOfSaver
  Token <- TokenOfPair
  Block <- BlockOfSaver
  Program <- ProgramOfToken
  Worthless = {s3}
  Metaplex = {}
  Unlucky = {s1}
  Faults = {"rpc"}
SPECIFICATION FairSpec
INVARIANTS TypeOK TokenBeforePair SavedIsStored RaceIsNoError
PROPERTIES  StoreSpec ProgramKept TradedIsStored
CHECK_DEADLOCK FALSE
