CONSTANTS
  NDim = 1
  MaxU64 = 9
  Accounts = {1}
  ResidualAccount = 9
  EntryIds = {1, 2, 3, 4, 5, 6, 7, 8, 9, 10, 11}
  AttemptIds = {1}
  OwnerIds = {1}
  Boots = {1}
  MaxParticipants = 3
  Submissions <- GateSubmissions
  Batches <- ReplayBatches
  Requests <- ReplayRequests
  Records <- None
  Epochs <- None
  Generations <- None
  SaveBound = 3
SPECIFICATION Spec
INVARIANTS UniqueIds OneCompletionPerOwner GuardsMatchHistory VerdictIsAdmission BooksMatchHistory
PROPERTIES ImplementsLog ReplayAccepted ReplayRestoresHistory
