SPECIFICATION Spec
CONSTANTS
  Keys = {k1, k2, k3}
  Nameless = {k1, k2}
  Number <- MCNumber
  NoDigits = "none"
  NoKey = NoKey
  Texts = {"cmd", "login"}
  Kind <- MCKind
  Replies = {"re"}
  NoText = NoText
  Handlers = {h1, h2}
  Cap = 1
  Ttl = 1
  MaxPosts = 2
  MaxTicks = 1
SYMMETRY MCSymmetry
INVARIANTS ReplyKeepsNumber NoDuplicateReply AnswerableUntilGone
