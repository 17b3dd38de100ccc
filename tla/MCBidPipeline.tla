--------------------------- MODULE MCBidPipeline ---------------------------
(***************************************************************************)
(* Values of BidPipeline's constants for TLC.  The auctions are cheap      *)
(* integers, so that their partitions and prices are tuples.               *)
(***************************************************************************)
EXTENDS BidPipeline, TLC

OneAuction   == {1}
OnePartition == {1}

(* Auction 1 is in partition 1.                                            *)
OwnPartition == [a \in Auctions |-> a]

Free == [a \in Auctions |-> 0]

(* 3 does not fit the column when MaxStorable is 2.                        *)
TwoAmounts   == {1, 2}
ThreeAmounts == {1, 2, 3}
OneAmount    == {1}

NoFaults == [f \in Faults |-> 0]
RestartAndRebalance == [NoFaults EXCEPT !["restart"] = 1, !["rebalance"] = 1]
ErrorAndRestart ==
    [NoFaults EXCEPT !["error"] = 1, !["restart"] = 1, !["foreign"] = 1,
                     !["flush"] = 1]
RestartOnly == [NoFaults EXCEPT !["restart"] = 1]
ErrorOnly == [NoFaults EXCEPT !["error"] = 1]
ErrorAndRebalance == [NoFaults EXCEPT !["error"] = 1, !["rebalance"] = 1]

(* Worker processes are interchangeable; only safety is checked with it.   *)
Symmetry == Permutations(Workers)

============================================================================
