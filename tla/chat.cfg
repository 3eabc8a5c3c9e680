SPECIFICATION FairSpec
CONSTANTS
  Loads = {l1, l2}
  Gens = {g1, g2}
  Benches = {b1}
  Handles = {h1, h2}
  None = None
  MaxEvents = 3
INVARIANTS LoadedIsOpen ReadyIsLoaded LiveJobUsesOpen OneCallPerObject
PROPERTIES InferenceFlagClears SpinnerEnds
CHECK_DEADLOCK FALSE
