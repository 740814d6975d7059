CONSTANTS
  NDim = 1
  MaxU64 = 9
  Accounts = {1}
  ResidualAccount = 9
  EntryIds = {1, 2, 3, 4}
  AttemptIds = {1}
  OwnerIds = {1}
  Boots = {}
  MaxParticipants = 3
  Submissions <- FencedSubmissions
  Batches <- None
  Requests <- None
  Records <- None
  Epochs <- OneOrTwo
  Generations <- None
  SaveBound = 2
SPECIFICATION Spec
PROPERTIES ReplayAccepted
