--------------------------- MODULE SerialArbiter ---------------------------
(***************************************************************************)
(* What bid arbitration promises, stated without workers, caches or        *)
(* crashes.  Every bid that can be stored is decided exactly once, in the  *)
(* order of its Kafka partition, against the bids accepted before it.      *)
(* core/kafka.py:4 ("ordering per auction") and                            *)
(* services/bid_service.py:128-133 describe this object; BidPipeline is    *)
(* the program that is to implement it.                                    *)
(***************************************************************************)
EXTENDS BidLedger

VARIABLES
    log,     \* log[p]: the messages of partition p, oldest first
    rows,    \* the bids table
    status   \* auctions.status

avars == <<log, rows, status>>

AInit ==
    /\ log = [p \in Partitions |-> <<>>]
    /\ rows = {}
    /\ status = [a \in Auctions |-> "scheduled"]

AAppend(p, m) ==
    /\ m.kind = "bid" => PartitionOf[m.auction] = p
    /\ log' = [log EXCEPT ![p] = Append(@, m)]
    /\ UNCHANGED <<rows, status>>

(* Decide the oldest undecided bid of a partition.  A verdict that names a *)
(* price comparison is the right one and the auction has opened;           *)
(* "auction_not_live" may be stale, for the status is read before the row  *)
(* is written.                                                             *)
ADecide(p, o, v) ==
    LET m == log[p][o] IN
    /\ Decidable(m)
    /\ ~DecidedIn(rows, p, o)
    /\ \A e \in 1 .. o - 1 : Decidable(log[p][e]) => DecidedIn(rows, p, e)
    /\ v # "auction_not_live" =>
         /\ status[m.auction] # "scheduled"
         /\ v = Judge(rows, m.auction, m.amount)
    /\ rows' = rows \cup {[partition |-> p, offset |-> o,
                           auction |-> m.auction, amount |-> m.amount,
                           verdict |-> v,
                           late |-> status[m.auction] = "closed"]}
    /\ UNCHANGED <<log, status>>

ASetStatus(a, s) ==
    /\ <<status[a], s>> \in {<<"scheduled", "live">>, <<"live", "closed">>}
    /\ status' = [status EXCEPT ![a] = s]
    /\ UNCHANGED <<log, rows>>

ANext ==
    \/ \E p \in Partitions, m \in Messages : AAppend(p, m)
    \/ \E p \in Partitions : \E o \in 1 .. Len(log[p]), v \in Verdicts :
         ADecide(p, o, v)
    \/ \E a \in Auctions, s \in Statuses : ASetStatus(a, s)

ASpec == AInit /\ [][ANext]_avars

============================================================================
