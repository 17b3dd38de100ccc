----------------------------- MODULE BidLedger -----------------------------
(***************************************************************************)
(* The vocabulary that the bid modules share: auctions and their           *)
(* partitions, the messages of the topic auction.bids, the rows of the     *)
(* bids table, and the comparison that decides a bid.                      *)
(***************************************************************************)
EXTENDS Naturals, Sequences, FiniteSets

CONSTANTS
    Auctions,       \* rows of the auctions table
    Partitions,     \* partitions of the topic auction.bids
    PartitionOf,    \* the partition Kafka's hash gives to an auction id
    StartingPrice,  \* auctions.starting_price
    Amounts,        \* bid amounts a client may send
    MaxStorable     \* largest amount the column Numeric(12,2) holds

ASSUME PriceAssumption ==
    /\ Amounts \subseteq Nat \ {0}
    /\ StartingPrice \in [Auctions -> Nat]
    /\ MaxStorable \in Nat

ASSUME KeyAssumption == PartitionOf \in [Auctions -> Partitions]

Statuses == {"scheduled", "live", "closed"}

Verdicts == {"accepted", "not_highest", "auction_not_live"}

BidMessages == [kind : {"bid"}, auction : Auctions, amount : Amounts]

(* A record that parse_bid_envelope refuses, and a well-formed one naming  *)
(* an auction or a bidder that the database does not have.                 *)
ForeignMessages == [kind : {"malformed", "orphan"}]

Messages == BidMessages \cup ForeignMessages

(* The rows of the bids table.  late is history: the auction had already   *)
(* closed when the row was committed.                                      *)
Rows == [partition : Partitions, offset : Nat \ {0}, auction : Auctions,
         amount : Amounts, verdict : Verdicts, late : BOOLEAN]

(* Messages the bids table can hold a row for.                             *)
Decidable(m) == m.kind = "bid" /\ m.amount <= MaxStorable

AcceptedIn(rows, a) == {r \in rows : r.auction = a /\ r.verdict = "accepted"}

DecidedIn(rows, p, o) == \E r \in rows : r.partition = p /\ r.offset = o

(* amount > current_high: the highest accepted bid or, when there is none, *)
(* the starting price.                                                     *)
Outbids(rows, a, x) ==
    IF AcceptedIn(rows, a) = {} THEN x > StartingPrice[a]
    ELSE \A r \in AcceptedIn(rows, a) : x > r.amount

(* Faulty: the bids accepted so far are ignored.                           *)
Judge_StartingPriceOnly(rows, a, x) ==
    IF x > StartingPrice[a] THEN "accepted" ELSE "not_highest"

Judge(rows, a, x) == IF Outbids(rows, a, x) THEN "accepted" ELSE "not_highest"

============================================================================
