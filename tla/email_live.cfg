SPECIFICATION FairSpec
CONSTANTS
  MaxMail = 2
  Mail <- MCInbox
  Digits <- MCDigits
  NoDigits = NoDigits
  Owner = "me"
  Fetchers = {f1}
  Service = Service
  PageSize = 1
  ListSize = 1
  ContextCap = 1
  StartIds <- AnyStart
  Faults = {"network", "purge", "error"}
  MaxCrashes = 0
PROPERTY FetchEnds
