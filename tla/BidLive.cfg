SPECIFICATION FairSpec
CONSTANTS
  Auctions <- OneAuction
  Partitions <- OnePartition
  PartitionOf <- OwnPartition
  StartingPrice <- Free
  Amounts <- OneAmount
  MaxStorable = 2
  Workers = {w1, w2}
  Clients = {c1}
  NoWorker = NoWorker
  NoJob = NoJob
  NoRequest = NoRequest
  MaxLog = 2
  Budget <- RestartAndRebalance
PROPERTIES EventuallyDecided AnnouncedUnlessCrash
CHECK_DEADLOCK FALSE
