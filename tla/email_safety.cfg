SPECIFICATION Spec
CONSTANTS
  MaxMail = 3
  Mail <- MCMail
  Digits <- MCDigits
  NoDigits = NoDigits
  Owner = "me"
  Fetchers = {f1, f2}
  Service = Service
  PageSize = 2
  ListSize = 2
  ContextCap = 1
  StartIds <- AnyStart
  Faults = {"crash"}
  MaxCrashes = 1
INVARIANTS OneFetchAtATime HandledOncePerLife CursorCoversMail NothingForgotten
  RepliesNeverGoBack
