CONSTANTS
  NDim = 2
  MaxU64 = 20
  Accounts = {1, 2}
  ResidualAccount = 9
  EntryIds = {1, 2, 3, 4, 5, 6, 7, 8, 11, 12, 13}
  AttemptIds = {1}
  OwnerIds = {1}
  Boots = {}
  MaxParticipants = 3
  Submissions <- AttemptTraffic
  Batches <- None
  Requests <- AttemptRequests
  Records <- None
  Epochs <- OnlyTwo
  Generations <- OneOrTwo
  SaveBound = 0
SPECIFICATION Spec
INVARIANTS SettledAttempts PublicationsIncrease GuardsMatchHistory VerdictIsAdmission BooksMatchHistory
PROPERTIES ImplementsLog
