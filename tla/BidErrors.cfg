SPECIFICATION Spec
CONSTANTS
  Auctions <- OneAuction
  Partitions <- OnePartition
  PartitionOf <- OwnPartition
  StartingPrice <- Free
  Amounts <- ThreeAmounts
  MaxStorable = 2
  Workers = {w1, w2}
  Clients = {c1}
  NoWorker = NoWorker
  NoJob = NoJob
  NoRequest = NoRequest
  MaxLog = 2
  Budget <- ErrorAndRestart
SYMMETRY Symmetry
INVARIANTS TypeOK DroppedOnlyIfLogged CacheBacked
PROPERTIES AcceptedOutbids
CHECK_DEADLOCK FALSE
