CONSTANTS
  NDim = 2
  MaxU64 = 9
  Accounts = {1, 2}
  ResidualAccount = 9
  EntryIds = {1, 2, 3, 4, 5, 6, 7, 8, 9, 10, 11, 12, 13, 14, 15, 16, 17}
  AttemptIds = {1}
  OwnerIds = {1}
  Boots = {}
  MaxParticipants = 3
  Submissions <- RevisionSubmissions
  Batches <- None
  Requests <- RevisionRequests
  Records <- None
  Epochs <- None
  Generations <- None
  SaveBound = 0
SPECIFICATION Spec
INVARIANTS BooksMatchHistory
