SPECIFICATION Spec
CONSTANTS
  Ids = {m1, m2, m3}
  Senders = {"r", "p"}
  AdminSenders = {}
  Targets = {"r", "p"}
  NoTarget = NoTarget
  Channels = {"SMS", "EMAIL"}
  Commands <- MCCommands
  NoCommand = NoCommand
  Destructive = {"spam"}
  Reading <- MCReading
  Messages <- LoginMessages
  LlmResults <- MCLlmResults
  Timeout = 2
SYMMETRY IdSymmetry
INVARIANTS QueuedHandlersExclude DestructiveNeedsConfirmation AdminIsAuthenticated PolicyIsMonotone
