SPECIFICATION Spec
CONSTANTS
  Ids = {m1, m2, m3, m4}
  Senders = {"a", "p"}
  AdminSenders = {"a"}
  Targets = {"a", "p"}
  NoTarget = NoTarget
  Channels = {"SMS", "EMAIL"}
  Commands <- MCCommands
  NoCommand = NoCommand
  Destructive = {"spam"}
  Reading <- MCReading
  Messages <- QueuedMessages
  LlmResults <- MCLlmResults
  Timeout = 2
SYMMETRY IdSymmetry
INVARIANTS OneHandlerAtATime ReleasedOncePerArming
PROPERTIES NeverIsHonoured GateSpec
