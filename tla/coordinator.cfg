CONSTANTS
  NDim = 1
  MaxU64 = 9
  Accounts = {1}
  ResidualAccount = 9
  EntryIds = {1, 2, 3, 4}
  AttemptIds = {1}
  OwnerIds = {1}
  Boots = {1, 2}
  MaxParticipants = 3
  Submissions <- WireSubmissions
  Batches <- Empty
  Requests <- Empty
  Records <- Empty
  Epochs <- OneOrTwo
  Generations <- Empty
  SaveBound = 4
  Clients = {c1, c2}
  Messages <- DurableMessages
  Starts <- AnyStart
  KillPoints <- Anywhere
  IoFaults = TRUE
SPECIFICATION CSpec
INVARIANTS LiveIsServed
PROPERTIES ImplementsDurableLog AcksAreSaved
SYMMETRY ClientSymmetry
