CONSTANTS
  NDim = 1
  MaxU64 = 3
  Accounts = {1, 2}
  ResidualAccount = 9
  EntryIds = {1, 2, 3, 11}
  AttemptIds = {1}
  OwnerIds = {1}
  Boots = {}
  MaxParticipants = 3
  Submissions <- ThreadSubmissions
  Batches <- None
  Requests <- None
  Records <- ThreadRecords
  Epochs <- OnlyTwo
  Generations <- OnlyOne
  SaveBound = 6
  Threads = {1, 2}
  Calls <- ThreadCalls
  CallBound = 3
SPECIFICATION CSpec
INVARIANTS ThreadTypeOK AcceptedOnce BooksMatchHistory
PROPERTIES ImplementsSequential ShutdownHolds CallsReturn
