\* every instruction and record, by hand up to three setters, or by its
\* constructor and two more; a builder may be left at any time
CONSTANTS
  Kinds <- AllKinds
  Layout <- AllLayouts
  TypeID <- AllTypeIDs
  Variant <- AllVariants
  Versions = {1, 2}
  Lists <- SmallLists
  MAX_SIGNERS = 2
  MaxCalls = 3
  None = None
SPECIFICATION Spec
INVARIANTS
  
  StaysValid
CHECK_DEADLOCK FALSE
