CONSTANTS
  NDim = 1
  MaxU64 = 2
  Accounts = {1}
  ResidualAccount = 9
  EntryIds = {1, 2, 3, 4}
  AttemptIds = {1}
  OwnerIds = {1}
  Boots = {1}
  MaxParticipants = 3
  Submissions <- WireSubmissions
  Batches <- Empty
  Requests <- Empty
  Records <- Empty
  Epochs <- OneOrTwo
  Generations <- Empty
  SaveBound = 4
  Clients = {1, 2}
  Messages <- ServiceMessages
  Starts <- Restarts
  KillPoints <- Anywhere
  IoFaults = FALSE
SPECIFICATION CFairSpec
INVARIANTS CTypeOK
PROPERTIES QueueServed
