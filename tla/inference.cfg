SPECIFICATION FairSpec
CONSTANTS
  ContextSizes = {5, 6}
  Pad = 2
  StoreModes = {TRUE, FALSE}
  Queries = {"q"}
  Given = "given"
  Pieces <- MCPieces
  Bytes <- MCBytes
  BenchTokens = 6
  Faults = {"template", "decode", "slot", "cancel"}
  MaxMessages = 1
  MaxTurns = 2
  MaxSlips = 1
CHECK_DEADLOCK FALSE
INVARIANTS DeliveredInOrder HistoryHoldsDelivered DeliveredIsText
PROPERTY CompletionEnds
