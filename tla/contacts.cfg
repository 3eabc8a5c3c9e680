SPECIFICATION Spec
CONSTANTS
  People = {"p", "q"}
  Names = {"ann"}
  Matches <- MCMatches
  AddressBook <- MCBook
  Legacy = "p"
  Service = Service
  Handlers = {h1, h2}
  Faults = {"database", "migration", "rename", "crash"}
  MaxIds = 3
  MaxRequests = 2
  MaxLoads = 1
SYMMETRY HandlerSymmetry
INVARIANTS RuleIsFound RoomMatchesList 
