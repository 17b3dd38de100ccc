SPECIFICATION Spec
CONSTANTS
  Auctions <- OneAuction
  Partitions <- OnePartition
  PartitionOf <- OwnPartition
  StartingPrice <- Free
  Amounts <- TwoAmounts
  MaxStorable = 2
  Workers = {w1}
  Clients = {c1}
  NoWorker = NoWorker
  NoJob = NoJob
  NoRequest = NoRequest
  MaxLog = 2
  Budget <- ErrorOnly
INVARIANTS NoBidDropped
CHECK_DEADLOCK FALSE
