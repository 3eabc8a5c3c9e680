SPECIFICATION PipelineFairSpec
CONSTANTS
  Ids = {m1, m2}
  Senders = {"r", "p"}
  AdminSenders = {}
  Targets = {"r", "p"}
  NoTarget = NoTarget
  Channels = {"SMS", "EMAIL"}
  Commands <- MCCommands
  NoCommand = NoCommand
  Destructive = {"spam"}
  Reading <- MCReading
  Messages <- MixedMessages
  LlmResults <- PipelineLlmResults
  Timeout = 1
  Loaders = {l1}
  Timers = {t1}
  LoadOutcomes = {"ok", "exception"}
PROPERTIES EveryMessageHandled IdleModelUnloads
CHECK_DEADLOCK FALSE
