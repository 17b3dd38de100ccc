------------------------- MODULE BidPipelineProofs -------------------------
(***************************************************************************)
(* Theorems about BidPipeline, for any number of auctions, partitions,     *)
(* workers, clients, messages and faults.                                  *)
(***************************************************************************)
EXTENDS BidPipeline, TLAPS

(* What Append does to a log.                                              *)
LEMMA AppendGrows ==
    ASSUME NEW S, NEW s \in Seq(S), NEW e \in S
    PROVE  /\ Append(s, e) \in Seq(S)
           /\ Len(Append(s, e)) = Len(s) + 1
           /\ \A i \in 1 .. Len(s) : Append(s, e)[i] = s[i]
           /\ Append(s, e)[Len(s) + 1] = e
  OBVIOUS

(* A message is a keyed bid or a foreign record, and only a bid can be     *)
(* recorded.                                                               *)
LEMMA MessageKinds ==
    ASSUME NEW m \in Messages
    PROVE  /\ m.kind = "bid" => /\ m \in BidMessages
                                /\ m.auction \in Auctions
                                /\ m.amount \in Amounts
           /\ m.kind # "bid" => m.kind \in {"malformed", "orphan"}
  BY SMTT(60) DEF Messages, BidMessages, ForeignMessages

---------------------------------------------------------------------------
(* Type correctness                                                        *)

(* A worker between Poll and Commit works on a message of the log, and     *)
(* writes to Redis and to the results only for a bid.                      *)
Working == {"read", "insert", "cache", "announce", "publish", "commit"}

JobsInLog ==
    \A w \in Workers : pc[w] \in Working =>
        /\ cur[w] \in Jobs
        /\ cur[w].offset \in 1 .. Len(log[cur[w].partition])
        /\ pc[w] \in {"cache", "announce", "publish"} => Message(w).kind = "bid"

(* Positions and committed offsets lie in the log.                         *)
OffsetsInLog ==
    \A p \in Partitions :
        /\ committed[p] <= Len(log[p])
        /\ \A w \in Workers : pos[w][p] <= Len(log[p])

(* Bids lie in the partition of their auction (core/kafka.py:4).           *)
Keyed ==
    /\ \A p \in Partitions : \A o \in 1 .. Len(log[p]) :
         log[p][o].kind = "bid" => PartitionOf[log[p][o].auction] = p
    /\ \A r \in rows : r.partition = PartitionOf[r.auction]

TypeInv == TypeOK /\ JobsInLog /\ OffsetsInLog /\ Keyed

(* The message of a working worker is a message.                           *)
LEMMA MessageType ==
    ASSUME TypeInv, NEW w \in Workers, pc[w] \in Working
    PROVE  /\ Message(w) \in Messages
           /\ cur[w] \in Jobs
           /\ Message(w).kind = "bid" => /\ Message(w).auction \in Auctions
                                         /\ Message(w).amount \in Amounts
                                         /\ PartitionOf[Message(w).auction] = cur[w].partition
  <1>1. /\ cur[w] \in Jobs
        /\ cur[w].partition \in Partitions
        /\ cur[w].offset \in 1 .. Len(log[cur[w].partition])
    BY DEF TypeInv, JobsInLog, Jobs
  <1>2. log[cur[w].partition] \in Seq(Messages)
    BY <1>1 DEF TypeInv, TypeOK
  <1>3. Message(w) \in Messages
    BY <1>1, <1>2 DEF Message
  <1> QED
    BY <1>1, <1>3, MessageKinds DEF TypeInv, Keyed, Message

LEMMA TypeInit == Init => TypeInv
  BY BoundAssumption
     DEF Init, TypeInv, TypeOK, JobsInLog, OffsetsInLog, Keyed, Working,
         Statuses, Steps

(* Steps that write to the log.                                            *)
LEMMA TypeAppend ==
    ASSUME TypeInv, NEW p \in Partitions, NEW m \in Messages,
           m.kind = "bid" => PartitionOf[m.auction] = p,
           log' = [log EXCEPT ![p] = Append(@, m)],
           UNCHANGED <<rows, committed, pc, pos, cur>>
    PROVE  /\ log' \in [Partitions -> Seq(Messages)]
           /\ JobsInLog' /\ OffsetsInLog' /\ Keyed'
  <1>1. /\ log \in [Partitions -> Seq(Messages)]
        /\ committed \in [Partitions -> Nat]
        /\ pos \in [Workers -> [Partitions -> Nat]]
    BY DEF TypeInv, TypeOK
  <1>2. /\ log'[p] \in Seq(Messages)
        /\ Len(log'[p]) = Len(log[p]) + 1
        /\ \A o \in 1 .. Len(log[p]) : log'[p][o] = log[p][o]
        /\ log'[p][Len(log[p]) + 1] = m
    BY <1>1, AppendGrows
  <1>3. \A q \in Partitions : q # p => log'[q] = log[q]
    BY <1>1
  <1>4. log' \in [Partitions -> Seq(Messages)]
    BY <1>1, <1>2, <1>3
  <1>5. \A q \in Partitions :
           /\ Len(log[q]) \in Nat /\ Len(log'[q]) \in Nat
           /\ Len(log[q]) <= Len(log'[q])
           /\ \A o \in 1 .. Len(log[q]) : log'[q][o] = log[q][o]
    BY <1>1, <1>2, <1>3, <1>4
  <1>6. JobsInLog'
    <2> SUFFICES ASSUME NEW w \in Workers, (pc[w] \in Working)'
                 PROVE  /\ (cur[w] \in Jobs)'
                        /\ (cur[w].offset \in 1 .. Len(log[cur[w].partition]))'
                        /\ (Message(w) = Message(w)')
      BY DEF TypeInv, JobsInLog
    <2>1. /\ cur[w] \in Jobs /\ cur[w].partition \in Partitions
          /\ cur[w].offset \in 1 .. Len(log[cur[w].partition])
      BY DEF TypeInv, JobsInLog, Jobs
    <2> QED BY <1>5, <2>1 DEF Message
  <1>7. OffsetsInLog'
    BY <1>1, <1>5 DEF TypeInv, OffsetsInLog
  <1>8. Keyed'
    <2>1. ASSUME NEW q \in Partitions, NEW o \in 1 .. Len(log'[q]),
                 log'[q][o].kind = "bid"
          PROVE  PartitionOf[log'[q][o].auction] = q
      <3>1. CASE o \in 1 .. Len(log[q])
        BY <1>5, <2>1, <3>1 DEF TypeInv, Keyed
      <3>2. CASE o \notin 1 .. Len(log[q])
        <4>1. q = p /\ o = Len(log[p]) + 1
          BY <1>2, <1>3, <1>5, <3>2, SMTT(60)
        <4> QED BY <1>2, <2>1, <4>1
      <3> QED BY <3>1, <3>2
    <2> QED BY <2>1 DEF TypeInv, Keyed
  <1> QED BY <1>4, <1>6, <1>7, <1>8

(* Steps of worker w that leave the log alone: it goes on with the message *)
(* it has, or starts anew.                                                 *)
LEMMA TypeTurn ==
    ASSUME TypeInv, NEW w \in Workers, NEW s \in Steps,
           pc' = [pc EXCEPT ![w] = s],
           UNCHANGED log,
           \/ s \notin Working
           \/ /\ pc[w] \in Working
              /\ cur' = cur
              /\ s \in {"cache", "announce", "publish"} => Message(w).kind = "bid",
           \A v \in Workers \ {w} : cur'[v] = cur[v]
    PROVE  pc' \in [Workers -> Steps] /\ JobsInLog'
  <1>1. pc \in [Workers -> Steps]
    BY DEF TypeInv, TypeOK
  <1>2. ASSUME NEW v \in Workers, pc'[v] \in Working
        PROVE  /\ cur'[v] = cur[v] /\ pc[v] \in Working
               /\ pc'[v] \in {"cache", "announce", "publish"} => Message(v).kind = "bid"
    <2>1. CASE v = w
      BY <1>1, <1>2, <2>1
    <2>2. CASE v # w
      BY <1>1, <1>2, <2>2 DEF TypeInv, JobsInLog
    <2> QED BY <2>1, <2>2
  <1> QED
    BY <1>1, <1>2 DEF TypeInv, JobsInLog, Message

(* The death of a worker.                                                  *)
LEMMA TypeGone ==
    ASSUME TypeInv, NEW w \in Workers, Gone(w), left' \in [Faults -> Nat]
    PROVE  TypeInv'
  <1>1. TypeOK'
    BY DEF Gone, TypeInv, TypeOK, dbVars, redisVars, Steps
  <1>2. JobsInLog'
    BY TypeTurn DEF Gone, TypeInv, TypeOK, Steps, Working
  <1>3. OffsetsInLog'
    BY DEF Gone, TypeInv, TypeOK, OffsetsInLog
  <1>4. Keyed'
    BY DEF Gone, TypeInv, Keyed, dbVars
  <1> QED BY <1>1, <1>2, <1>3, <1>4 DEF TypeInv

LEMMA SpendType ==
    ASSUME NEW f \in Faults, left \in [Faults -> Nat], Spend(f)
    PROVE  left' \in [Faults -> Nat]
  BY DEF Spend

(* A failed decision.                                                      *)
LEMMA TypeWillRetry ==
    ASSUME TypeInv, NEW w \in Workers, pc[w] \in Working, WillRetry(w),
           left' \in [Faults -> Nat],
           rows' \subseteq Rows,
           \A r \in rows' : r.partition = PartitionOf[r.auction]
    PROVE  TypeInv'
  <1>1. cur[w].partition \in Partitions /\ cur[w].offset \in Nat \ {0}
    BY MessageType DEF Jobs
  <1>2. TypeOK'
    BY <1>1, SMTT(60) DEF WillRetry, PassOver, TypeInv, TypeOK, brokerVars, redisVars,
                Steps
  <1>3. JobsInLog'
    BY TypeTurn DEF WillRetry, PassOver, TypeInv, TypeOK, Steps, Working,
                    brokerVars
  <1>4. OffsetsInLog' /\ Keyed'
    BY DEF WillRetry, PassOver, TypeInv, OffsetsInLog, Keyed, brokerVars
  <1> QED BY <1>2, <1>3, <1>4 DEF TypeInv

(* A recorded decision.                                                    *)
LEMMA TypeRow ==
    ASSUME TypeInv, NEW w \in Workers, pc[w] = "insert",
           ~ViolatesIntegrity(w), Decidable(Message(w)),
           rows' = rows \cup {RowOf(w)}
    PROVE  /\ rows' \subseteq Rows
           /\ \A r \in rows' : r.partition = PartitionOf[r.auction]
           /\ Message(w).kind = "bid"
  <1>1. Message(w).kind = "bid"
    BY DEF Decidable
  <1>2. /\ cur[w] \in Jobs
        /\ Message(w).auction \in Auctions /\ Message(w).amount \in Amounts
        /\ PartitionOf[Message(w).auction] = cur[w].partition
    BY <1>1, MessageType DEF Working
  <1>3. RowOf(w) \in Rows
    BY <1>2 DEF RowOf, Rows, Jobs
  <1>4. RowOf(w).partition = PartitionOf[RowOf(w).auction]
    BY <1>2 DEF RowOf
  <1> QED
    BY <1>1, <1>3, <1>4 DEF TypeInv, TypeOK, Keyed

LEMMA TypeStep == TypeInv /\ [Next]_vars => TypeInv'
  <1> SUFFICES ASSUME TypeInv, [Next]_vars PROVE TypeInv'
    OBVIOUS
  <1> USE DEF dbVars, brokerVars, workerVars, redisVars
  <1>s. ASSUME NEW a \in Auctions, NEW s \in Statuses, SetStatus(a, s)
        PROVE  TypeInv'
    BY <1>s DEF SetStatus, TypeInv, TypeOK, JobsInLog, OffsetsInLog, Keyed,
                Message
  <1>c. ASSUME NEW c \in Clients, NEW a \in Auctions, NEW x \in Amounts,
               SubmitCheck(c, a, x)
        PROVE  TypeInv'
    BY <1>c DEF SubmitCheck, BidMessages, TypeInv, TypeOK, JobsInLog,
                OffsetsInLog, Keyed, Message
  <1>p. ASSUME NEW c \in Clients, Publish(c)
        PROVE  TypeInv'
    <2>1. /\ req[c] \in BidMessages
          /\ PartitionOf[req[c].auction] \in Partitions
          /\ req[c] \in Messages
      BY <1>p, KeyAssumption DEF Publish, TypeInv, TypeOK, BidMessages, Messages
    <2>2. /\ log' \in [Partitions -> Seq(Messages)]
          /\ JobsInLog' /\ OffsetsInLog' /\ Keyed'
      BY <1>p, <2>1, TypeAppend DEF Publish
    <2> QED BY <1>p, <2>2, SMTT(60) DEF Publish, TypeInv, TypeOK
  <1>q. ASSUME NEW c \in Clients, PublishFails(c)
        PROVE  TypeInv'
    BY <1>q DEF PublishFails, TypeInv, TypeOK, JobsInLog, OffsetsInLog, Keyed,
                Message
  <1>f. ASSUME NEW p \in Partitions, NEW m \in ForeignMessages, PutForeign(p, m)
        PROVE  TypeInv'
    <2>1. m \in Messages /\ m.kind # "bid"
      BY DEF Messages, ForeignMessages
    <2>2. /\ log' \in [Partitions -> Seq(Messages)]
          /\ JobsInLog' /\ OffsetsInLog' /\ Keyed'
      BY <1>f, <2>1, TypeAppend DEF PutForeign
    <2>3. left' \in [Faults -> Nat]
      BY <1>f, SpendType DEF PutForeign, TypeInv, TypeOK, Faults
    <2> QED BY <1>f, <2>2, <2>3 DEF PutForeign, TypeInv, TypeOK
  <1>a. ASSUME NEW f \in [Partitions -> Workers], Assign(f),
               left' \in [Faults -> Nat]
        PROVE  TypeInv'
    BY <1>a DEF Assign, TypeInv, TypeOK, JobsInLog, OffsetsInLog, Keyed, Message
  <1>b. ASSUME Recover PROVE TypeInv'
    BY <1>a, <1>b DEF Recover, TypeInv, TypeOK
  <1>r. ASSUME Rebalance PROVE TypeInv'
    BY <1>a, <1>r, SpendType DEF Rebalance, TypeInv, TypeOK, Faults
  <1>l. ASSUME FlushCache PROVE TypeInv'
    BY <1>l, SpendType DEF FlushCache, TypeInv, TypeOK, JobsInLog, OffsetsInLog,
                           Keyed, Message, Faults
  <1>w. ASSUME NEW w \in Workers PROVE
               /\ Start(w) => TypeInv'
               /\ Sync(w) => TypeInv'
               /\ Turn(w) => TypeInv'
               /\ Fault(w) => TypeInv'
               /\ \A p \in Partitions : Poll(w, p) => TypeInv'
    <2>1. ASSUME Start(w) PROVE TypeInv'
      <3>1. pc' \in [Workers -> Steps] /\ JobsInLog'
        BY <2>1, TypeTurn DEF Start, Steps, Working
      <3> QED BY <2>1, <3>1 DEF Start, TypeInv, TypeOK, OffsetsInLog, Keyed
    <2>2. ASSUME Sync(w) PROVE TypeInv'
      BY <2>2 DEF Sync, SyncAt, TypeInv, TypeOK, JobsInLog, OffsetsInLog,
                  Keyed, Message
    <2>3. ASSUME NEW p \in Partitions, Poll(w, p) PROVE TypeInv'
      <3> DEFINE o == pos[w][p] + 1
                 job == [partition |-> p, offset |-> o, verdict |-> "auction_not_live"]
      <3>1. /\ o \in Nat \ {0} /\ o <= Len(log[p]) /\ pos[w][p] \in Nat
            /\ Len(log[p]) \in Nat
        BY <2>3 DEF Poll, TypeInv, TypeOK
      <3>2. job \in Jobs
        BY <3>1 DEF Jobs, Verdicts
      <3>3. /\ pc' = [pc EXCEPT ![w] = IF log[p][o].kind = "malformed"
                                       THEN "commit" ELSE "read"]
            /\ cur' = [cur EXCEPT ![w] = job]
            /\ pos' = [pos EXCEPT ![w][p] = o]
            /\ UNCHANGED <<log, rows, committed>>
        BY <2>3 DEF Poll
      <3>4. TypeOK'
        BY <2>3, <3>1, <3>2, <3>3, SMTT(60) DEF Poll, TypeInv, TypeOK, Steps
      <3>5. JobsInLog'
        BY <3>1, <3>2, <3>3 DEF TypeInv, TypeOK, JobsInLog, Message, Working
      <3>6. OffsetsInLog' /\ Keyed'
        BY <3>1, <3>3 DEF TypeInv, TypeOK, OffsetsInLog, Keyed
      <3> QED BY <3>4, <3>5, <3>6 DEF TypeInv
    <2>4. ASSUME Read(w) PROVE TypeInv'
      <3>1. cur[w] \in Jobs
        BY <2>4, MessageType DEF Read, VerdictOf, Working
      <3>2. PICK v \in Verdicts :
              /\ pc' = [pc EXCEPT ![w] = "insert"]
              /\ cur' = [cur EXCEPT ![w].verdict = v]
              /\ UNCHANGED <<log, rows, committed, pos>>
        BY <2>4 DEF Read, VerdictOf, Judge, Verdicts
      <3>3. /\ cur' = [cur EXCEPT ![w] = [cur[w] EXCEPT !.verdict = v]]
            /\ [cur[w] EXCEPT !.verdict = v] \in Jobs
            /\ [cur[w] EXCEPT !.verdict = v].partition = cur[w].partition
            /\ [cur[w] EXCEPT !.verdict = v].offset = cur[w].offset
        BY <3>1, <3>2 DEF Jobs
      <3>a. /\ cur' \in [Workers -> Jobs \cup {NoJob}]
            /\ pc' \in [Workers -> Steps]
        BY <3>2, <3>3 DEF TypeInv, TypeOK, Steps
      <3>b. UNCHANGED <<status, rows, req, log, committed, owner, synced, held,
                        pos, cache, retried, left>>
        BY <2>4 DEF Read, dbVars, brokerVars, redisVars
      <3>4. TypeOK'
        BY <3>a, <3>b DEF TypeInv, TypeOK
      <3>5. JobsInLog'
        <4>1. ASSUME NEW u \in Workers, pc'[u] \in Working
              PROVE  /\ pc[u] \in Working /\ cur'[u] \in Jobs
                     /\ cur'[u].partition = cur[u].partition
                     /\ cur'[u].offset = cur[u].offset
                     /\ pc'[u] \in {"cache", "announce", "publish"} =>
                          pc[u] \in {"cache", "announce", "publish"}
          <5>1. CASE u = w
            BY <2>4, <3>2, <3>3, <5>1, ZenonT(90) DEF Read, VerdictOf, TypeInv, TypeOK,
                                          Working
          <5>2. CASE u # w
            BY <3>2, <3>3, <4>1, <5>2 DEF TypeInv, TypeOK, JobsInLog
          <5> QED BY <5>1, <5>2
        <4> QED BY <3>2, <4>1 DEF TypeInv, JobsInLog, Message
      <3>6. OffsetsInLog' /\ Keyed'
        BY <3>2 DEF TypeInv, OffsetsInLog, Keyed
      <3> QED BY <3>4, <3>5, <3>6 DEF TypeInv
    <2>5. ASSUME Insert(w) PROVE TypeInv'
      <3>1. /\ rows' \subseteq Rows
            /\ \A r \in rows' : r.partition = PartitionOf[r.auction]
            /\ Message(w).kind = "bid"
        BY <2>5, TypeRow DEF Insert
      <3>2. pc' \in [Workers -> Steps] /\ JobsInLog'
        BY <2>5, <3>1, TypeTurn DEF Insert, Steps, Working
      <3> QED BY <2>5, <3>1, <3>2 DEF Insert, TypeInv, TypeOK, OffsetsInLog, Keyed
    <2>6. ASSUME AlreadyProcessed(w) PROVE TypeInv'
      BY <2>6, TypeWillRetry
         DEF AlreadyProcessed, TypeInv, TypeOK, Keyed, Working
    <2>7. ASSUME Unstorable(w) PROVE TypeInv'
      BY <2>7, TypeWillRetry DEF Unstorable, TypeInv, TypeOK, Keyed, Working
    <2>8. ASSUME UpdateCache(w) PROVE TypeInv'
      <3>1. Message(w).amount \in Amounts
        BY <2>8, MessageType DEF UpdateCache, CacheStep, TypeInv, JobsInLog,
                                 Working
      <3>2. cache' \in [Auctions -> Amounts \cup {0}]
        BY <2>8, <3>1 DEF UpdateCache, CacheStep, TypeInv, TypeOK
      <3>3. pc' \in [Workers -> Steps] /\ JobsInLog'
        BY <2>8, TypeTurn DEF UpdateCache, CacheStep, Steps, Working, TypeInv,
                              JobsInLog
      <3> QED BY <2>8, <3>2, <3>3 DEF UpdateCache, CacheStep, TypeInv, TypeOK,
                                      OffsetsInLog, Keyed
    <2>9. ASSUME Announce(w) PROVE TypeInv'
      <3>1. pc' \in [Workers -> Steps] /\ JobsInLog'
        BY <2>9, TypeTurn DEF Announce, Steps, Working, TypeInv, JobsInLog
      <3> QED BY <2>9, <3>1 DEF Announce, TypeInv, TypeOK, OffsetsInLog, Keyed
    <2>10. ASSUME PublishResult(w) PROVE TypeInv'
      <3>1. pc' \in [Workers -> Steps] /\ JobsInLog'
        BY <2>10, TypeTurn DEF PublishResult, Steps, Working
      <3> QED BY <2>10, <3>1 DEF PublishResult, TypeInv, TypeOK, OffsetsInLog, Keyed
    <2>11. ASSUME Commit(w) PROVE TypeInv'
      <3>1. pc' \in [Workers -> Steps] /\ JobsInLog'
        BY <2>11, TypeTurn DEF Commit, Steps, Working, TypeInv, TypeOK
      <3>2. \A p \in Partitions : committed'[p] \in {committed[p], pos[w][p]}
        BY <2>11 DEF Commit
      <3> QED BY <2>11, <3>1, <3>2 DEF Commit, TypeInv, TypeOK, OffsetsInLog, Keyed
    <2>12. ASSUME CommitFenced(w) PROVE TypeInv'
      BY <2>12, TypeGone DEF CommitFenced, TypeInv, TypeOK
    <2>13. ASSUME Crash(w) \/ PollFails(w) \/ CommitFails(w) PROVE TypeInv'
      BY <2>13, TypeGone, SpendType DEF Crash, PollFails, CommitFails, TypeInv, TypeOK, Faults
    <2>14. ASSUME InsertUnknown(w) PROVE TypeInv'
      BY <2>14, TypeWillRetry, TypeRow, SpendType
         DEF InsertUnknown, TypeInv, TypeOK, Faults, Working
    <2>15. ASSUME CallFails(w) PROVE TypeInv'
      <3>1. pc[w] \in Working
        BY <2>15 DEF CallFails, Working
      <3> QED BY <2>15, <3>1, TypeWillRetry, SpendType
              DEF CallFails, TypeInv, TypeOK, Keyed, Faults
    <2> QED
      BY <2>1, <2>2, <2>3, <2>4, <2>5, <2>6, <2>7, <2>8, <2>9, <2>10, <2>11,
         <2>12, <2>13, <2>14, <2>15 DEF Turn, Fault
  <1>u. CASE UNCHANGED vars
    BY <1>u DEF vars, TypeInv, TypeOK, JobsInLog, OffsetsInLog, Keyed, Message
  <1> QED
    BY <1>s, <1>c, <1>p, <1>q, <1>f, <1>b, <1>r, <1>l, <1>w, <1>u DEF Next

(* Every variable keeps its type (models/auction.py:32-105 for the rows).  *)
THEOREM TypeCorrect == Spec => []TypeOK
  <1>1. TypeInv => TypeOK
    BY DEF TypeInv
  <1> QED
    BY <1>1, TypeInit, TypeStep, PTL DEF Spec

---------------------------------------------------------------------------
(* What workers know, whatever fails                                       *)

(* A row records a decidable message of the log, once.                     *)
RowsFromLog ==
    \A r \in rows :
        /\ r.offset \in 1 .. Len(log[r.partition])
        /\ LET m == log[r.partition][r.offset] IN
             Decidable(m) /\ m.auction = r.auction /\ m.amount = r.amount

RowsUnique ==
    \A r, s \in rows : r.partition = s.partition /\ r.offset = s.offset => r = s

(* Worker w is between the poll of (p, o) and its row.                     *)
InFlight(w, p, o) ==
    /\ pc[w] \in {"read", "insert"}
    /\ cur[w].partition = p
    /\ cur[w].offset = o

(* A worker has decided, logged or in hand what it took from a partition   *)
(* that it believes it holds.                                              *)
PositionCovered ==
    \A w \in Workers : \A p \in held[w] : \A o \in 1 .. pos[w][p] :
        Decidable(log[p][o]) =>
            Decided(p, o) \/ o \in retried[p] \/ InFlight(w, p, o)

(* What a worker is telling the world is in the ledger.                    *)
Recorded(w) ==
    \E r \in rows :
        /\ r.partition = cur[w].partition /\ r.offset = cur[w].offset
        /\ r.auction = Message(w).auction /\ r.amount = Message(w).amount
        /\ r.verdict = cur[w].verdict

TellsLedger ==
    \A w \in Workers :
        /\ pc[w] \in {"cache", "announce", "publish"} => Recorded(w)
        /\ pc[w] = "cache" => cur[w].verdict = "accepted"

DeliveryInv ==
    /\ TypeInv /\ RowsFromLog /\ RowsUnique /\ PositionCovered
    /\ DroppedOnlyIfLogged /\ TellsLedger /\ CacheBacked

---------------------------------------------------------------------------
(* What workers know while no call fails                                   *)

(* Nothing decidable is passed over.                                       *)
RetriedHarmless ==
    /\ left["error"] = 0
    /\ \A p \in Partitions : \A o \in retried[p] :
         /\ o \in 1 .. Len(log[p])
         /\ Decidable(log[p][o]) => Decided(p, o)

(* Before a worker decides a message, the earlier ones are decided.        *)
PrefixDecided ==
    \A w \in Workers : pc[w] \in {"read", "insert"} =>
        \A o \in 1 .. cur[w].offset - 1 :
            Decidable(log[cur[w].partition][o]) => Decided(cur[w].partition, o)

(* What a worker read is still true when it is the one to write the row:   *)
(* no other worker has decided another bid of the auction meanwhile.       *)
JudgementCurrent ==
    \A w \in Workers :
        /\ pc[w] = "insert"
        /\ Decidable(Message(w))
        /\ ~Decided(cur[w].partition, cur[w].offset)
        /\ cur[w].verdict # "auction_not_live"
        => /\ status[Message(w).auction] # "scheduled"
           /\ cur[w].verdict = Judge(rows, Message(w).auction, Message(w).amount)

LedgerInv ==
    DeliveryInv /\ RetriedHarmless /\ PrefixDecided /\ JudgementCurrent

---------------------------------------------------------------------------
(* Preservation                                                            *)

LEMMA DecidedGrows ==
    ASSUME rows \subseteq rows', NEW p, NEW o, Decided(p, o)
    PROVE  Decided(p, o)'
  BY DEF Decided, DecidedIn

(* A step that leaves these variables alone preserves the invariant.       *)
LEMMA DeliveryFrame ==
    ASSUME DeliveryInv, TypeInv',
           UNCHANGED <<log, rows, committed, pc, held, pos, cur, retried, cache>>
    PROVE  DeliveryInv'
  BY DEF DeliveryInv, RowsFromLog, RowsUnique, PositionCovered, InFlight,
         DroppedOnlyIfLogged, TellsLedger, Recorded, CacheBacked, AcceptedIn,
         Decided, DecidedIn, Message

(* A step that only adds a message to a log.                               *)
LEMMA DeliveryAppend ==
    ASSUME DeliveryInv, TypeInv', NEW p \in Partitions, NEW m \in Messages,
           log' = [log EXCEPT ![p] = Append(@, m)],
           UNCHANGED <<rows, committed, pc, held, pos, cur, retried, cache>>
    PROVE  DeliveryInv'
  <1>1. \A q \in Partitions :
           /\ Len(log[q]) \in Nat /\ Len(log'[q]) \in Nat
           /\ Len(log[q]) <= Len(log'[q])
           /\ \A o \in 1 .. Len(log[q]) : log'[q][o] = log[q][o]
    BY AppendGrows DEF DeliveryInv, TypeInv, TypeOK
  <1>2. /\ rows \subseteq Rows
        /\ pos \in [Workers -> [Partitions -> Nat]]
        /\ committed \in [Partitions -> Nat]
        /\ held \in [Workers -> SUBSET Partitions]
    BY DEF DeliveryInv, TypeInv, TypeOK
  <1>3. RowsFromLog'
    BY <1>1, <1>2 DEF DeliveryInv, RowsFromLog, Rows
  <1>4. PositionCovered'
    BY <1>1, <1>2, SMTT(60)
       DEF DeliveryInv, PositionCovered, TypeInv, OffsetsInLog, InFlight, Decided
  <1>5. DroppedOnlyIfLogged'
    BY <1>1, <1>2
       DEF DeliveryInv, DroppedOnlyIfLogged, TypeInv, OffsetsInLog, Decided
  <1>6. TellsLedger'
    <2>1. ASSUME NEW w \in Workers, pc[w] \in {"cache", "announce", "publish"}
          PROVE  Message(w)' = Message(w)
      BY <1>1, <2>1 DEF DeliveryInv, TypeInv, JobsInLog, Jobs, Message, Working
    <2> QED BY <2>1 DEF DeliveryInv, TellsLedger, Recorded
  <1>7. RowsUnique' /\ CacheBacked'
    BY DEF DeliveryInv, RowsUnique, CacheBacked, AcceptedIn
  <1> QED BY <1>3, <1>4, <1>5, <1>6, <1>7 DEF DeliveryInv

(* A step of worker w that leaves the data alone and does not forget an    *)
(* undecided bid.                                                          *)
LEMMA DeliveryMove ==
    ASSUME DeliveryInv, TypeInv', NEW w \in Workers, NEW s \in Steps,
           pc' = [pc EXCEPT ![w] = s],
           \A v \in Workers \ {w} : cur'[v] = cur[v] /\ held'[v] = held[v],
           UNCHANGED <<log, rows, committed, pos, retried, cache>>,
           \/ held'[w] = {}
           \/ /\ held'[w] = held[w]
              /\ \A p \in held[w] : \A o \in 1 .. pos[w][p] :
                   InFlight(w, p, o) /\ Decidable(log[p][o]) =>
                     Decided(p, o) \/ o \in retried[p] \/ InFlight(w, p, o)',
           s \in {"cache", "announce", "publish"} =>
             /\ cur' = cur
             /\ Recorded(w)
             /\ s # "cache"
    PROVE  DeliveryInv'
  <1>1. pc \in [Workers -> Steps]
    BY DEF DeliveryInv, TypeInv, TypeOK
  <1>2. PositionCovered'
    <2>1. ASSUME NEW v \in Workers, NEW p \in held'[v], NEW o \in 1 .. pos[v][p],
                 Decidable(log[p][o])
          PROVE  Decided(p, o) \/ o \in retried[p] \/ InFlight(v, p, o)'
      <3>1. CASE v = w
        BY <2>1, <3>1 DEF DeliveryInv, PositionCovered
      <3>2. CASE v # w
        BY <1>1, <2>1, <3>2 DEF DeliveryInv, PositionCovered, InFlight
      <3> QED BY <3>1, <3>2
    <2> QED BY <2>1 DEF PositionCovered, Decided
  <1>3. TellsLedger'
    <2>1. ASSUME NEW v \in Workers, pc'[v] \in {"cache", "announce", "publish"}
          PROVE  Recorded(v)' /\ (pc'[v] = "cache" => cur'[v].verdict = "accepted")
      <3>1. CASE v = w
        BY <1>1, <2>1, <3>1, SMTT(60) DEF Recorded, Message
      <3>2. CASE v # w
        BY <1>1, <2>1, <3>2 DEF DeliveryInv, TellsLedger, Recorded, Message
      <3> QED BY <3>1, <3>2, SMTT(60)
    <2> QED BY <2>1 DEF TellsLedger
  <1>4. RowsFromLog' /\ RowsUnique' /\ DroppedOnlyIfLogged' /\ CacheBacked'
    BY DEF DeliveryInv, RowsFromLog, RowsUnique, DroppedOnlyIfLogged,
           CacheBacked, AcceptedIn, Decided
  <1> QED BY <1>2, <1>3, <1>4 DEF DeliveryInv

(* What a new row leaves true, for every worker but the one that writes it. *)
LEMMA DeliveryRow ==
    ASSUME DeliveryInv, NEW w \in Workers, pc[w] = "insert",
           ~ViolatesIntegrity(w), Decidable(Message(w)),
           rows' = rows \cup {RowOf(w)},
           UNCHANGED <<log, committed, cur, cache>>
    PROVE  /\ RowsFromLog' /\ RowsUnique' /\ CacheBacked'
           /\ Decided(cur[w].partition, cur[w].offset)'
           /\ \A v \in Workers : Recorded(v) => Recorded(v)'
           /\ Recorded(w)'
  <1>1. /\ cur[w] \in Jobs
        /\ cur[w].offset \in 1 .. Len(log[cur[w].partition])
    BY DEF DeliveryInv, TypeInv, JobsInLog, Working
  <1>2. /\ RowOf(w).partition = cur[w].partition
        /\ RowOf(w).offset = cur[w].offset
        /\ RowOf(w).auction = Message(w).auction
        /\ RowOf(w).amount = Message(w).amount
        /\ RowOf(w).verdict = cur[w].verdict
    BY SMTT(60) DEF RowOf
  <1>3. RowsFromLog'
    BY <1>1, <1>2, SMTT(60) DEF DeliveryInv, RowsFromLog, Message
  <1>4. RowsUnique'
    BY <1>2 DEF DeliveryInv, RowsUnique, ViolatesIntegrity, Decided, DecidedIn
  <1>5. CacheBacked'
    BY DEF DeliveryInv, CacheBacked, AcceptedIn
  <1>6. Recorded(w)' /\ Decided(cur[w].partition, cur[w].offset)'
    BY <1>2, SMTT(60) DEF Recorded, Message, Decided, DecidedIn
  <1>7. \A v \in Workers : Recorded(v) => Recorded(v)'
    BY DEF Recorded, Message
  <1> QED BY <1>3, <1>4, <1>5, <1>6, <1>7

(* A failed decision, whether or not its row was written.                  *)
LEMMA DeliveryRetry ==
    ASSUME DeliveryInv, TypeInv', NEW w \in Workers, pc[w] \in Working,
           WillRetry(w), rows \subseteq rows',
           RowsFromLog', RowsUnique', CacheBacked',
           \A v \in Workers \ {w} : Recorded(v) => Recorded(v)'
    PROVE  DeliveryInv'
  <1>1. /\ pc' = [pc EXCEPT ![w] = "poll"]
        /\ cur' = [cur EXCEPT ![w] = NoJob]
        /\ retried' = [retried EXCEPT ![cur[w].partition] = @ \cup {cur[w].offset}]
        /\ UNCHANGED <<log, committed, held, pos, cache>>
    BY DEF WillRetry, PassOver, brokerVars, redisVars
  <1>2. /\ pc \in [Workers -> Steps] /\ cur \in [Workers -> Jobs \cup {NoJob}]
        /\ retried \in [Partitions -> SUBSET (Nat \ {0})]
        /\ held \in [Workers -> SUBSET Partitions]
        /\ cur[w].partition \in Partitions
    BY MessageType DEF DeliveryInv, TypeInv, TypeOK, Jobs
  <1>3. \A p \in Partitions : retried[p] \subseteq retried'[p]
    BY <1>1, <1>2
  <1>4. PositionCovered'
    <2>1. ASSUME NEW v \in Workers, NEW p \in held[v], NEW o \in 1 .. pos[v][p],
                 Decidable(log[p][o])
          PROVE  Decided(p, o)' \/ o \in retried'[p] \/ InFlight(v, p, o)'
      <3>1. p \in Partitions
        BY <1>2
      <3>2. Decided(p, o) \/ o \in retried[p] \/ InFlight(v, p, o)
        BY <2>1 DEF DeliveryInv, PositionCovered
      <3>3. CASE InFlight(v, p, o) /\ v = w
        BY <1>1, <1>2, <3>1, <3>3 DEF InFlight
      <3>4. CASE InFlight(v, p, o) /\ v # w
        BY <1>1, <1>2, <3>4 DEF InFlight
      <3> QED BY <1>3, <3>1, <3>2, <3>3, <3>4, DecidedGrows
    <2> QED BY <1>1, <2>1 DEF PositionCovered
  <1>5. DroppedOnlyIfLogged'
    <2>1. ASSUME NEW p \in Partitions, NEW o \in 1 .. committed[p],
                 Decidable(log[p][o])
          PROVE  Decided(p, o)' \/ o \in retried'[p]
      BY <1>3, <2>1, DecidedGrows DEF DeliveryInv, DroppedOnlyIfLogged
    <2> QED BY <1>1, <2>1 DEF DroppedOnlyIfLogged
  <1>6. TellsLedger'
    BY <1>1, <1>2 DEF DeliveryInv, TellsLedger
  <1> QED BY <1>4, <1>5, <1>6 DEF DeliveryInv

LEMMA DeliveryInit == Init => DeliveryInv
  <1> SUFFICES ASSUME Init PROVE DeliveryInv
    OBVIOUS
  <1>1. TypeInv
    BY TypeInit
  <1> QED
    BY <1>1 DEF Init, DeliveryInv, RowsFromLog, RowsUnique, PositionCovered,
                DroppedOnlyIfLogged, TellsLedger, CacheBacked

LEMMA DeliveryStep == DeliveryInv /\ [Next]_vars => DeliveryInv'
  <1> SUFFICES ASSUME DeliveryInv, [Next]_vars PROVE DeliveryInv'
    OBVIOUS
  <1> USE DEF dbVars, brokerVars, workerVars, redisVars
  <1>t. TypeInv /\ TypeInv'
    BY TypeStep DEF DeliveryInv
  <1>s. ASSUME NEW a \in Auctions, NEW s \in Statuses, SetStatus(a, s)
        PROVE  DeliveryInv'
    BY <1>s, <1>t, DeliveryFrame DEF SetStatus
  <1>c. ASSUME NEW c \in Clients, NEW a \in Auctions, NEW x \in Amounts,
               SubmitCheck(c, a, x)
        PROVE  DeliveryInv'
    BY <1>c, <1>t, DeliveryFrame, SMTT(60) DEF SubmitCheck
  <1>p. ASSUME NEW c \in Clients, Publish(c)
        PROVE  DeliveryInv'
    <2>1. /\ PartitionOf[req[c].auction] \in Partitions
          /\ req[c] \in Messages
      BY <1>p, <1>t, KeyAssumption DEF Publish, TypeInv, TypeOK, BidMessages, Messages
    <2> QED BY <1>p, <1>t, <2>1, DeliveryAppend DEF Publish
  <1>q. ASSUME NEW c \in Clients, PublishFails(c)
        PROVE  DeliveryInv'
    BY <1>q, <1>t, DeliveryFrame DEF PublishFails
  <1>f. ASSUME NEW p \in Partitions, NEW m \in ForeignMessages, PutForeign(p, m)
        PROVE  DeliveryInv'
    BY <1>f, <1>t, DeliveryAppend DEF PutForeign, Messages
  <1>b. ASSUME Recover \/ Rebalance PROVE DeliveryInv'
    BY <1>b, <1>t, DeliveryFrame DEF Recover, Rebalance, Assign
  <1>l. ASSUME FlushCache PROVE DeliveryInv'
    BY <1>l, <1>t
       DEF FlushCache, DeliveryInv, RowsFromLog, RowsUnique, PositionCovered,
           InFlight, DroppedOnlyIfLogged, TellsLedger, Recorded, CacheBacked,
           Decided, DecidedIn, Message
  <1>g. ASSUME NEW w \in Workers, Gone(w) PROVE DeliveryInv'
    <2>1. /\ pc' = [pc EXCEPT ![w] = "down"]
          /\ held' = [held EXCEPT ![w] = {}]
          /\ cur' = [cur EXCEPT ![w] = NoJob]
          /\ pos' = [pos EXCEPT ![w] = [p \in Partitions |-> 0]]
          /\ UNCHANGED <<log, rows, committed, retried, cache>>
      BY <1>g DEF Gone
    <2>2. /\ pc \in [Workers -> Steps] /\ held \in [Workers -> SUBSET Partitions]
          /\ cur \in [Workers -> Jobs \cup {NoJob}]
          /\ pos \in [Workers -> [Partitions -> Nat]]
      BY <1>t, SMTT(60) DEF TypeInv, TypeOK
    <2>3. PositionCovered'
      BY <2>1, <2>2 DEF DeliveryInv, PositionCovered, InFlight, Decided
    <2>4. TellsLedger'
      BY <2>1, <2>2 DEF DeliveryInv, TellsLedger, Recorded, Message
    <2>5. RowsFromLog' /\ RowsUnique' /\ DroppedOnlyIfLogged' /\ CacheBacked'
      BY <2>1 DEF DeliveryInv, RowsFromLog, RowsUnique, DroppedOnlyIfLogged,
                  CacheBacked, AcceptedIn, Decided
    <2> QED BY <1>t, <2>3, <2>4, <2>5 DEF DeliveryInv
  <1>w. ASSUME NEW w \in Workers PROVE
               /\ Start(w) => DeliveryInv'
               /\ Sync(w) => DeliveryInv'
               /\ Turn(w) => DeliveryInv'
               /\ Fault(w) => DeliveryInv'
               /\ \A p \in Partitions : Poll(w, p) => DeliveryInv'
    <2>m. /\ pc[w] \in Working => cur[w] \in Jobs /\ cur[w].partition \in Partitions
          /\ pc \in [Workers -> Steps]
          /\ cur \in [Workers -> Jobs \cup {NoJob}]
          /\ held \in [Workers -> SUBSET Partitions]
          /\ pos \in [Workers -> [Partitions -> Nat]]
          /\ committed \in [Partitions -> Nat]
      BY <1>t, MessageType DEF Jobs, TypeInv, TypeOK
    <2>1. ASSUME Start(w) PROVE DeliveryInv'
      BY <1>t, <2>1, DeliveryMove DEF Start, Steps, InFlight
    <2>2. ASSUME Sync(w) PROVE DeliveryInv'
      <3>1. /\ held' = [held EXCEPT ![w] = {p \in Partitions : owner[p] = w}]
            /\ pos' = [pos EXCEPT ![w] = committed]
            /\ UNCHANGED <<log, rows, committed, pc, cur, retried, cache>>
        BY <2>2 DEF Sync, SyncAt
      <3>2. PositionCovered'
        BY <2>m, <3>1 DEF DeliveryInv, PositionCovered, DroppedOnlyIfLogged,
                          InFlight, Decided
      <3> QED
        BY <1>t, <3>1, <3>2
           DEF DeliveryInv, RowsFromLog, RowsUnique, DroppedOnlyIfLogged,
               TellsLedger, Recorded, CacheBacked, AcceptedIn, Decided, Message
    <2>3. ASSUME NEW p \in Partitions, Poll(w, p) PROVE DeliveryInv'
      <3>0. PICK o \in Nat : o = pos[w][p] + 1
        BY <2>m
      <3>1. /\ pc[w] = "poll"
            /\ pc' = [pc EXCEPT ![w] = IF log[p][o].kind = "malformed"
                                       THEN "commit" ELSE "read"]
            /\ cur' = [cur EXCEPT ![w] = [partition |-> p, offset |-> o,
                                          verdict |-> "auction_not_live"]]
            /\ pos' = [pos EXCEPT ![w][p] = o]
            /\ UNCHANGED <<log, rows, committed, held, retried, cache>>
        BY <2>3, <3>0 DEF Poll
      <3>2. Decidable(log[p][o]) => InFlight(w, p, o)'
        BY <2>m, <3>1 DEF Decidable, InFlight
      <3>3. PositionCovered'
        <4>1. ASSUME NEW v \in Workers, NEW q \in held[v], NEW e \in 1 .. pos'[v][q],
                     Decidable(log[q][e])
              PROVE  Decided(q, e) \/ e \in retried[q] \/ InFlight(v, q, e)'
          <5>1. q \in Partitions
            BY <2>m
          <5>2. CASE v = w /\ q = p /\ e = o
            BY <3>2, <4>1, <5>2
          <5>3. CASE v = w /\ ~(q = p /\ e = o)
            <6>1. e \in 1 .. pos[w][q]
              BY <2>m, <3>0, <3>1, <4>1, <5>1, <5>3, SMTT(60)
            <6> QED BY <3>1, <4>1, <5>3, <6>1 DEF DeliveryInv, PositionCovered, InFlight
          <5>4. CASE v # w
            BY <2>m, <3>1, <4>1, <5>4 DEF DeliveryInv, PositionCovered, InFlight
          <5> QED BY <5>2, <5>3, <5>4
        <4> QED BY <3>1, <4>1 DEF PositionCovered, Decided
      <3>4. TellsLedger'
        BY <2>m, <3>1 DEF DeliveryInv, TellsLedger, Recorded, Message
      <3>5. RowsFromLog' /\ RowsUnique' /\ DroppedOnlyIfLogged' /\ CacheBacked'
        BY <3>1 DEF DeliveryInv, RowsFromLog, RowsUnique, DroppedOnlyIfLogged,
                    CacheBacked, AcceptedIn, Decided
      <3> QED BY <1>t, <3>3, <3>4, <3>5 DEF DeliveryInv
    <2>4. ASSUME Read(w) PROVE DeliveryInv'
      <3>1. PICK v \in Verdicts :
              /\ pc[w] = "read"
              /\ pc' = [pc EXCEPT ![w] = "insert"]
              /\ cur' = [cur EXCEPT ![w] = [cur[w] EXCEPT !.verdict = v]]
              /\ UNCHANGED <<log, rows, committed, held, pos, retried, cache>>
        BY <2>4 DEF Read, VerdictOf, Judge, Verdicts
      <3>2. /\ [cur[w] EXCEPT !.verdict = v].partition = cur[w].partition
            /\ [cur[w] EXCEPT !.verdict = v].offset = cur[w].offset
        BY <2>m, <3>1 DEF Jobs, Working
      <3>3. \A p, o : InFlight(w, p, o) => InFlight(w, p, o)'
        BY <2>m, <3>1, <3>2 DEF InFlight
      <3> QED
        BY <1>t, <2>m, <3>1, <3>3, DeliveryMove DEF Steps
    <2>5. ASSUME Insert(w) PROVE DeliveryInv'
      <3>1. /\ pc[w] = "insert"
            /\ pc' = [pc EXCEPT ![w] = IF cur[w].verdict = "accepted"
                                       THEN "cache" ELSE "announce"]
            /\ rows \subseteq rows'
            /\ UNCHANGED <<log, committed, held, pos, cur, retried, cache>>
        BY <2>5 DEF Insert
      <3>2. /\ RowsFromLog' /\ RowsUnique' /\ CacheBacked'
            /\ Decided(cur[w].partition, cur[w].offset)'
            /\ \A v \in Workers : Recorded(v) => Recorded(v)'
            /\ Recorded(w)'
        BY <2>5, DeliveryRow DEF Insert
      <3>3. PositionCovered'
        <4>1. ASSUME NEW v \in Workers, NEW p \in held[v], NEW o \in 1 .. pos[v][p],
                     Decidable(log[p][o])
              PROVE  Decided(p, o)' \/ o \in retried[p] \/ InFlight(v, p, o)'
          <5>1. Decided(p, o) \/ o \in retried[p] \/ InFlight(v, p, o)
            BY <4>1 DEF DeliveryInv, PositionCovered
          <5>2. CASE InFlight(v, p, o) /\ v = w
            BY <3>1, <3>2, <5>2 DEF InFlight, Decided, DecidedIn
          <5>3. CASE InFlight(v, p, o) /\ v # w
            BY <2>m, <3>1, <5>3 DEF InFlight
          <5> QED BY <3>1, <5>1, <5>2, <5>3, DecidedGrows
        <4> QED BY <3>1, <4>1 DEF PositionCovered
      <3>4. DroppedOnlyIfLogged'
        <4>1. ASSUME NEW p \in Partitions, NEW o \in 1 .. committed[p],
                     Decidable(log[p][o])
              PROVE  Decided(p, o)' \/ o \in retried[p]
          BY <3>1, <4>1, DecidedGrows DEF DeliveryInv, DroppedOnlyIfLogged
        <4> QED BY <3>1, <4>1 DEF DroppedOnlyIfLogged
      <3>5. TellsLedger'
        BY <2>m, <3>1, <3>2 DEF DeliveryInv, TellsLedger
      <3> QED BY <1>t, <3>2, <3>3, <3>4, <3>5 DEF DeliveryInv
    <2>r. ASSUME pc[w] \in Working, WillRetry(w), rows' = rows PROVE DeliveryInv'
      <3>1. /\ RowsFromLog' /\ RowsUnique' /\ CacheBacked'
            /\ \A v \in Workers \ {w} : Recorded(v) => Recorded(v)'
        BY <2>m, <2>r DEF WillRetry, PassOver, DeliveryInv, RowsFromLog,
                          RowsUnique, CacheBacked, AcceptedIn, Recorded,
                          Message
      <3> QED BY <1>t, <2>r, <3>1, DeliveryRetry
    <2>7. ASSUME AlreadyProcessed(w) \/ Unstorable(w) \/ CallFails(w)
          PROVE  DeliveryInv'
      BY <2>7, <2>r DEF AlreadyProcessed, Unstorable, CallFails, Working
    <2>8. ASSUME UpdateCache(w) PROVE DeliveryInv'
      <3>1. /\ pc[w] = "cache" /\ pc' = [pc EXCEPT ![w] = "announce"]
            /\ UNCHANGED <<log, rows, committed, held, pos, cur, retried>>
        BY <2>8 DEF UpdateCache, CacheStep
      <3>2. Recorded(w) /\ cur[w].verdict = "accepted"
        BY <3>1 DEF DeliveryInv, TellsLedger
      <3>3. CacheBacked'
        <4>1. PICK r \in rows : /\ r.auction = Message(w).auction
                                /\ r.amount = Message(w).amount
                                /\ r.verdict = "accepted"
          BY <3>2 DEF Recorded
        <4>2. cache \in [Auctions -> Amounts \cup {0}]
          BY <1>t DEF TypeInv, TypeOK
        <4>3. \A a \in Auctions :
                 \/ cache'[a] = cache[a]
                 \/ a = Message(w).auction /\ cache'[a] = Message(w).amount
          BY <2>8, <4>2, SMTT(60) DEF UpdateCache, CacheStep
        <4> QED BY <3>1, <4>1, <4>3 DEF DeliveryInv, CacheBacked, AcceptedIn
      <3>4. TellsLedger'
        BY <2>m, <3>1 DEF DeliveryInv, TellsLedger, Recorded, Message
      <3>5. PositionCovered'
        BY <2>m, <3>1 DEF DeliveryInv, PositionCovered, InFlight, Decided
      <3> QED BY <1>t, <3>1, <3>3, <3>4, <3>5
              DEF DeliveryInv, RowsFromLog, RowsUnique, DroppedOnlyIfLogged, Decided
    <2>9. ASSUME Announce(w) PROVE DeliveryInv'
      <3>1. Recorded(w)
        BY <2>9 DEF Announce, DeliveryInv, TellsLedger
      <3> QED BY <1>t, <2>9, <3>1, DeliveryMove DEF Announce, Steps, InFlight
    <2>10. ASSUME PublishResult(w) PROVE DeliveryInv'
      BY <1>t, <2>10, DeliveryMove DEF PublishResult, Steps, InFlight
    <2>11. ASSUME Commit(w) PROVE DeliveryInv'
      <3>1. /\ pc[w] = "commit" /\ pc' = [pc EXCEPT ![w] = "poll"]
            /\ cur' = [cur EXCEPT ![w] = NoJob]
            /\ committed' = [p \in Partitions |->
                               IF p \in held[w] THEN pos[w][p] ELSE committed[p]]
            /\ UNCHANGED <<log, rows, held, pos, retried, cache>>
        BY <2>11 DEF Commit
      <3>2. DroppedOnlyIfLogged'
        BY <2>m, <3>1 DEF DeliveryInv, DroppedOnlyIfLogged, PositionCovered,
                          InFlight, Decided
      <3>3. PositionCovered'
        BY <2>m, <3>1 DEF DeliveryInv, PositionCovered, InFlight, Decided
      <3>4. TellsLedger'
        BY <2>m, <3>1 DEF DeliveryInv, TellsLedger, Recorded, Message
      <3> QED BY <1>t, <3>1, <3>2, <3>3, <3>4
              DEF DeliveryInv, RowsFromLog, RowsUnique, CacheBacked, AcceptedIn
    <2>12. ASSUME \/ CommitFenced(w) \/ Crash(w) \/ PollFails(w) \/ CommitFails(w)
           PROVE  DeliveryInv'
      BY <1>g, <2>12 DEF CommitFenced, Crash, PollFails, CommitFails
    <2>13. ASSUME InsertUnknown(w) PROVE DeliveryInv'
      <3>1. /\ pc[w] = "insert" /\ WillRetry(w) /\ rows \subseteq rows'
            /\ rows' = rows \cup {RowOf(w)}
            /\ ~ViolatesIntegrity(w) /\ Decidable(Message(w))
            /\ UNCHANGED <<log, committed, cache>>
            /\ cur' = [cur EXCEPT ![w] = NoJob]
        BY <2>13 DEF InsertUnknown, WillRetry, PassOver
      <3>2. /\ cur[w] \in Jobs
            /\ cur[w].offset \in 1 .. Len(log[cur[w].partition])
        BY <1>t, <3>1 DEF TypeInv, JobsInLog, Working
      <3>3. /\ RowOf(w).partition = cur[w].partition
            /\ RowOf(w).offset = cur[w].offset
            /\ RowOf(w).auction = Message(w).auction
            /\ RowOf(w).amount = Message(w).amount
        BY SMTT(60) DEF RowOf
      <3>4. RowsFromLog'
        BY <3>1, <3>2, <3>3, SMTT(60) DEF DeliveryInv, RowsFromLog, Message
      <3>5. RowsUnique'
        BY <3>1, <3>3 DEF DeliveryInv, RowsUnique, ViolatesIntegrity, Decided, DecidedIn
      <3>6. CacheBacked'
        BY <3>1 DEF DeliveryInv, CacheBacked, AcceptedIn
      <3>7. \A v \in Workers \ {w} : Recorded(v) => Recorded(v)'
        BY <2>m, <3>1 DEF Recorded, Message
      <3> QED BY <1>t, <3>1, <3>4, <3>5, <3>6, <3>7, DeliveryRetry DEF Working
    <2> QED
      BY <2>1, <2>2, <2>3, <2>4, <2>5, <2>7, <2>8, <2>9, <2>10, <2>11,
         <2>12, <2>13 DEF Turn, Fault
  <1>u. CASE UNCHANGED vars
    BY <1>t, <1>u, DeliveryFrame DEF vars
  <1> QED
    BY <1>s, <1>c, <1>p, <1>q, <1>f, <1>b, <1>l, <1>w, <1>u DEF Next

LEMMA DeliveryInvariant == Spec => []DeliveryInv
  BY DeliveryInit, DeliveryStep, PTL DEF Spec

(* Whatever fails, a committed offset passes over a recordable bid only    *)
(* when the bid is decided or its failure is in the worker's log           *)
(* (workers/auction_worker.py:51-75).                                      *)
THEOREM DroppedLogged == Spec => []DroppedOnlyIfLogged
  <1>1. DeliveryInv => DroppedOnlyIfLogged
    BY DEF DeliveryInv
  <1> QED
    BY <1>1, DeliveryInvariant, PTL

(* Whatever fails, the highest bid Redis shows is an accepted bid of the   *)
(* ledger (core/redis.py:3-4).                                             *)
THEOREM CacheIsBacked == Spec => []CacheBacked
  <1>1. DeliveryInv => CacheBacked
    BY DEF DeliveryInv
  <1> QED
    BY <1>1, DeliveryInvariant, PTL

(* Whatever fails, a Kafka position is recorded at most once               *)
(* (models/auction.py:97-104 and services/bid_service.py:166-171).         *)
THEOREM DecidedOnce == Spec => []RowsUnique
  <1>1. DeliveryInv => RowsUnique
    BY DEF DeliveryInv
  <1> QED
    BY <1>1, DeliveryInvariant, PTL

---------------------------------------------------------------------------
(* The ledger while no call of a decision fails                            *)

LEMMA SpendKeepsError ==
    ASSUME left \in [Faults -> Nat], left["error"] = 0,
           NEW f \in Faults, Spend(f)
    PROVE  f # "error" /\ left'["error"] = 0
  BY SMTT(60) DEF Spend, Faults

(* A step that leaves these variables alone preserves the invariant.       *)
LEMMA LedgerFrame ==
    ASSUME LedgerInv, DeliveryInv', left'["error"] = 0,
           UNCHANGED <<status, log, rows, pc, cur, retried>>
    PROVE  LedgerInv'
  BY DEF LedgerInv, RetriedHarmless, PrefixDecided, JudgementCurrent, Decided,
         Message

LEMMA LedgerAppend ==
    ASSUME LedgerInv, DeliveryInv', left'["error"] = 0,
           NEW p \in Partitions, NEW m \in Messages,
           log' = [log EXCEPT ![p] = Append(@, m)],
           UNCHANGED <<status, rows, pc, cur, retried>>
    PROVE  LedgerInv'
  <1>1. \A q \in Partitions :
           /\ Len(log[q]) \in Nat /\ Len(log'[q]) \in Nat
           /\ Len(log[q]) <= Len(log'[q])
           /\ \A o \in 1 .. Len(log[q]) : log'[q][o] = log[q][o]
    BY AppendGrows, SMTT(60) DEF LedgerInv, DeliveryInv, TypeInv, TypeOK
  <1>2. ASSUME NEW w \in Workers, pc[w] \in {"read", "insert"}
        PROVE  /\ cur[w].partition \in Partitions
               /\ cur[w].offset \in 1 .. Len(log[cur[w].partition])
               /\ Message(w)' = Message(w)
    BY <1>1, <1>2 DEF LedgerInv, DeliveryInv, TypeInv, JobsInLog, Jobs, Message,
                      Working
  <1>3. RetriedHarmless'
    BY <1>1 DEF LedgerInv, RetriedHarmless, Decided
  <1>4. PrefixDecided'
    BY <1>1, <1>2, SMTT(60) DEF LedgerInv, PrefixDecided, Decided
  <1>5. JudgementCurrent'
    BY <1>2 DEF LedgerInv, JudgementCurrent, Decided
  <1> QED BY <1>3, <1>4, <1>5 DEF LedgerInv

(* A step of worker w that leaves the data alone and ends no decision of   *)
(* another worker.                                                         *)
LEMMA LedgerMove ==
    ASSUME LedgerInv, DeliveryInv', left'["error"] = 0,
           NEW w \in Workers, NEW s \in Steps \ {"read", "insert"},
           pc' = [pc EXCEPT ![w] = s],
           \A v \in Workers \ {w} : cur'[v] = cur[v],
           UNCHANGED <<status, log, rows, retried>>
    PROVE  LedgerInv'
  <1>1. \A v \in Workers : pc'[v] \in {"read", "insert"} =>
           v # w /\ pc'[v] = pc[v] /\ cur'[v] = cur[v]
    BY DEF LedgerInv, DeliveryInv, TypeInv, TypeOK
  <1>2. PrefixDecided'
    BY <1>1 DEF LedgerInv, PrefixDecided, Decided
  <1>3. JudgementCurrent'
    BY <1>1 DEF LedgerInv, JudgementCurrent, Decided, Message
  <1>4. RetriedHarmless'
    BY DEF LedgerInv, RetriedHarmless, Decided
  <1> QED BY <1>2, <1>3, <1>4 DEF LedgerInv

(* The message a worker gives up cannot be recorded, or is.                *)
LEMMA LedgerRetry ==
    ASSUME LedgerInv, DeliveryInv', UNCHANGED <<rows, left>>,
           NEW w \in Workers, pc[w] = "insert", WillRetry(w),
           Decidable(Message(w)) => Decided(cur[w].partition, cur[w].offset)
    PROVE  LedgerInv'
  <1>1. /\ pc' = [pc EXCEPT ![w] = "poll"]
        /\ cur' = [cur EXCEPT ![w] = NoJob]
        /\ retried' = [retried EXCEPT ![cur[w].partition] = @ \cup {cur[w].offset}]
        /\ UNCHANGED <<status, log, rows>>
    BY DEF WillRetry, PassOver, brokerVars
  <1>2. /\ pc \in [Workers -> Steps] /\ cur \in [Workers -> Jobs \cup {NoJob}]
        /\ retried \in [Partitions -> SUBSET (Nat \ {0})]
        /\ cur[w].partition \in Partitions
        /\ cur[w].offset \in 1 .. Len(log[cur[w].partition])
    BY DEF LedgerInv, DeliveryInv, TypeInv, TypeOK, JobsInLog, Jobs, Working
  <1>3. RetriedHarmless'
    <2>1. ASSUME NEW p \in Partitions, NEW o \in retried'[p]
          PROVE  /\ o \in 1 .. Len(log[p])
                 /\ Decidable(log[p][o]) => Decided(p, o)
      <3>1. CASE o \in retried[p]
        BY <3>1 DEF LedgerInv, RetriedHarmless
      <3>2. CASE o \notin retried[p]
        <4>1. p = cur[w].partition /\ o = cur[w].offset
          BY <1>1, <1>2, <2>1, <3>2
        <4> QED BY <1>2, <4>1 DEF Message
      <3> QED BY <3>1, <3>2
    <2> QED BY <1>1, <2>1 DEF LedgerInv, RetriedHarmless, Decided
  <1>4. \A v \in Workers : pc'[v] \in {"read", "insert"} =>
           v # w /\ pc'[v] = pc[v] /\ cur'[v] = cur[v]
    BY <1>1, <1>2
  <1>5. PrefixDecided'
    BY <1>1, <1>4, SMTT(60) DEF LedgerInv, PrefixDecided, Decided
  <1>6. JudgementCurrent'
    BY <1>1, <1>4 DEF LedgerInv, JudgementCurrent, Decided, Message
  <1> QED BY <1>3, <1>5, <1>6 DEF LedgerInv

(* Two workers that judge the same auction judge the same message: each    *)
(* has the other's message before its own only if that one is decided.     *)
LEMMA SameAuctionSameMessage ==
    ASSUME LedgerInv, NEW v \in Workers, NEW w \in Workers,
           pc[v] = "insert", pc[w] = "insert",
           Decidable(Message(v)), Decidable(Message(w)),
           ~Decided(cur[v].partition, cur[v].offset),
           ~Decided(cur[w].partition, cur[w].offset),
           Message(v).auction = Message(w).auction
    PROVE  cur[v].partition = cur[w].partition /\ cur[v].offset = cur[w].offset
  <1>1. /\ cur[v] \in Jobs /\ cur[w] \in Jobs
        /\ cur[v].partition = PartitionOf[Message(v).auction]
        /\ cur[w].partition = PartitionOf[Message(w).auction]
    BY MessageType DEF LedgerInv, DeliveryInv, Working, Decidable
  <1>2. cur[v].offset \in Nat \ {0} /\ cur[w].offset \in Nat \ {0}
    BY <1>1, SMTT(60) DEF Jobs
  <1>3. ~(cur[v].offset < cur[w].offset)
    BY <1>1, <1>2, SMTT(60) DEF LedgerInv, PrefixDecided, Message
  <1>4. ~(cur[w].offset < cur[v].offset)
    BY <1>1, <1>2 DEF LedgerInv, PrefixDecided, Message
  <1> QED BY <1>1, <1>2, <1>3, <1>4

LEMMA LedgerInsert ==
    ASSUME LedgerInv, DeliveryInv', NEW w \in Workers, Insert(w)
    PROVE  LedgerInv'
  <1>1. /\ pc[w] = "insert"
        /\ ~Decided(cur[w].partition, cur[w].offset)
        /\ Decidable(Message(w))
        /\ rows' = rows \cup {RowOf(w)}
        /\ pc' = [pc EXCEPT ![w] = IF cur[w].verdict = "accepted"
                                   THEN "cache" ELSE "announce"]
        /\ UNCHANGED <<status, log, cur, retried, left>>
    BY DEF Insert, ViolatesIntegrity, brokerVars
  <1>2. /\ RowOf(w).partition = cur[w].partition
        /\ RowOf(w).offset = cur[w].offset
        /\ RowOf(w).auction = Message(w).auction
    BY DEF RowOf
  <1>3. \A p, o : Decided(p, o) => Decided(p, o)'
    BY <1>1, DecidedGrows
  <1>4. \A v \in Workers : pc'[v] \in {"read", "insert"} => v # w /\ pc'[v] = pc[v]
    BY <1>1 DEF LedgerInv, DeliveryInv, TypeInv, TypeOK
  <1>5. RetriedHarmless'
    BY <1>1, <1>3 DEF LedgerInv, RetriedHarmless
  <1>6. PrefixDecided'
    <2>1. ASSUME NEW v \in Workers, pc'[v] \in {"read", "insert"},
                 NEW o \in 1 .. cur[v].offset - 1,
                 Decidable(log[cur[v].partition][o])
          PROVE  Decided(cur[v].partition, o)
      BY <1>4, <2>1, SMTT(60) DEF LedgerInv, PrefixDecided
    <2> QED BY <1>1, <1>3, <2>1 DEF PrefixDecided, Decided, DecidedIn
  <1>7. JudgementCurrent'
    <2>1. ASSUME NEW v \in Workers, pc'[v] = "insert", Decidable(Message(v)),
                 ~DecidedIn(rows', cur[v].partition, cur[v].offset),
                 cur[v].verdict # "auction_not_live"
          PROVE  /\ status[Message(v).auction] # "scheduled"
                 /\ cur[v].verdict = Judge(rows', Message(v).auction, Message(v).amount)
      <3>1. pc[v] = "insert" /\ ~Decided(cur[v].partition, cur[v].offset)
        BY <1>1, <1>4, <2>1 DEF Decided, DecidedIn
      <3>2. ~(cur[v].partition = cur[w].partition /\ cur[v].offset = cur[w].offset)
        BY <1>1, <1>2, <2>1 DEF DecidedIn
      <3>3. Message(v).auction # Message(w).auction
        BY <1>1, <2>1, <3>1, <3>2, SameAuctionSameMessage
      <3>4. AcceptedIn(rows', Message(v).auction) = AcceptedIn(rows, Message(v).auction)
        BY <1>1, <1>2, <3>3 DEF AcceptedIn
      <3>5. /\ status[Message(v).auction] # "scheduled"
            /\ cur[v].verdict = Judge(rows, Message(v).auction, Message(v).amount)
        BY <2>1, <3>1 DEF LedgerInv, JudgementCurrent
      <3> QED BY <3>4, <3>5 DEF Judge, Outbids
    <2> QED BY <1>1, <2>1 DEF JudgementCurrent, Decided, Message
  <1> QED BY <1>5, <1>6, <1>7 DEF LedgerInv

LEMMA LedgerInit == Budget["error"] = 0 /\ Init => LedgerInv
  <1> SUFFICES ASSUME Budget["error"] = 0, Init PROVE LedgerInv
    OBVIOUS
  <1>1. DeliveryInv
    BY DeliveryInit
  <1> QED
    BY <1>1 DEF Init, LedgerInv, RetriedHarmless, PrefixDecided, JudgementCurrent

LEMMA LedgerStep == LedgerInv /\ [Next]_vars => LedgerInv'
  <1> SUFFICES ASSUME LedgerInv, [Next]_vars PROVE LedgerInv'
    OBVIOUS
  <1> USE DEF dbVars, brokerVars, workerVars, redisVars
  <1>t. /\ DeliveryInv' /\ TypeInv
        /\ left["error"] = 0 /\ left \in [Faults -> Nat]
        /\ pc \in [Workers -> Steps]
        /\ cur \in [Workers -> Jobs \cup {NoJob}]
    BY DeliveryStep, SMTT(60) DEF LedgerInv, DeliveryInv, RetriedHarmless, TypeInv, TypeOK
  <1>s. ASSUME NEW a \in Auctions, NEW s \in Statuses, SetStatus(a, s)
        PROVE  LedgerInv'
    <2>1. /\ \A b \in Auctions : status[b] # "scheduled" => status'[b] # "scheduled"
          /\ UNCHANGED <<log, rows, pc, cur, retried, left>>
      BY <1>s, <1>t DEF SetStatus, TypeInv, TypeOK
    <2>2. \A w \in Workers : pc[w] = "insert" /\ Decidable(Message(w)) =>
             Message(w).auction \in Auctions
      BY <1>t, MessageType DEF Working, Decidable
    <2>3. JudgementCurrent'
      BY <2>1, <2>2, SMTT(60) DEF LedgerInv, JudgementCurrent, Decided, Message
    <2> QED BY <1>t, <2>1, <2>3 DEF LedgerInv, RetriedHarmless, PrefixDecided, Decided
  <1>c. ASSUME NEW c \in Clients, NEW a \in Auctions, NEW x \in Amounts,
               SubmitCheck(c, a, x)
        PROVE  LedgerInv'
    BY <1>c, <1>t, LedgerFrame DEF SubmitCheck
  <1>p. ASSUME NEW c \in Clients, Publish(c)
        PROVE  LedgerInv'
    <2>1. /\ PartitionOf[req[c].auction] \in Partitions
          /\ req[c] \in Messages
      BY <1>p, <1>t, KeyAssumption DEF Publish, TypeInv, TypeOK, BidMessages, Messages
    <2> QED BY <1>p, <1>t, <2>1, LedgerAppend DEF Publish
  <1>q. ASSUME NEW c \in Clients, PublishFails(c)
        PROVE  LedgerInv'
    BY <1>q, <1>t, LedgerFrame DEF PublishFails
  <1>f. ASSUME NEW p \in Partitions, NEW m \in ForeignMessages, PutForeign(p, m)
        PROVE  LedgerInv'
    <2>1. left'["error"] = 0
      BY <1>f, <1>t, SpendKeepsError DEF PutForeign, Faults
    <2> QED BY <1>f, <1>t, <2>1, LedgerAppend DEF PutForeign, Messages
  <1>b. ASSUME Recover \/ Rebalance PROVE LedgerInv'
    <2>1. left'["error"] = 0
      BY <1>b, <1>t, SpendKeepsError DEF Recover, Rebalance, Faults
    <2> QED BY <1>b, <1>t, <2>1, LedgerFrame DEF Recover, Rebalance, Assign
  <1>l. ASSUME FlushCache PROVE LedgerInv'
    <2>1. left'["error"] = 0
      BY <1>l, <1>t, SpendKeepsError DEF FlushCache, Faults
    <2> QED BY <1>l, <1>t, <2>1, LedgerFrame DEF FlushCache
  <1>g. ASSUME NEW w \in Workers, Gone(w), left'["error"] = 0 PROVE LedgerInv'
    BY <1>g, <1>t, LedgerMove DEF Gone, Steps
  <1>w. ASSUME NEW w \in Workers PROVE
               /\ Start(w) => LedgerInv'
               /\ Sync(w) => LedgerInv'
               /\ Turn(w) => LedgerInv'
               /\ Fault(w) => LedgerInv'
               /\ \A p \in Partitions : Poll(w, p) => LedgerInv'
    <2>1. ASSUME Start(w) PROVE LedgerInv'
      BY <1>t, <2>1, LedgerMove DEF Start, Steps
    <2>2. ASSUME Sync(w) PROVE LedgerInv'
      BY <1>t, <2>2, LedgerFrame DEF Sync, SyncAt
    <2>3. ASSUME NEW p \in Partitions, Poll(w, p) PROVE LedgerInv'
      <3>p. pos[w][p] \in Nat
        BY <1>t DEF TypeInv, TypeOK
      <3>0. PICK o \in Nat : o = pos[w][p] + 1
        BY <3>p
      <3>1. /\ pc[w] = "poll" /\ p \in held[w]
            /\ pc' = [pc EXCEPT ![w] = IF log[p][o].kind = "malformed"
                                       THEN "commit" ELSE "read"]
            /\ cur' = [cur EXCEPT ![w] = [partition |-> p, offset |-> o,
                                          verdict |-> "auction_not_live"]]
            /\ UNCHANGED <<status, log, rows, retried, left>>
        BY <2>3, <3>0 DEF Poll
      <3>2. \A e \in 1 .. o - 1 : Decidable(log[p][e]) => Decided(p, e)
        <4>1. ASSUME NEW e \in 1 .. o - 1, Decidable(log[p][e])
              PROVE  Decided(p, e)
          <5>1. e \in 1 .. pos[w][p]
            BY <3>p, <3>0
          <5>2. ~InFlight(w, p, e)
            BY <3>1 DEF InFlight
          <5>3. Decided(p, e) \/ e \in retried[p]
            BY <3>1, <4>1, <5>1, <5>2 DEF LedgerInv, DeliveryInv, PositionCovered
          <5> QED BY <4>1, <5>3 DEF LedgerInv, RetriedHarmless
        <4> QED BY <4>1
      <3>3. PrefixDecided'
        <4>1. ASSUME NEW v \in Workers, pc'[v] \in {"read", "insert"},
                     NEW e \in 1 .. cur'[v].offset - 1,
                     Decidable(log[cur'[v].partition][e])
              PROVE  Decided(cur'[v].partition, e)
          <5>1. CASE v = w
            BY <1>t, <3>1, <3>2, <4>1, <5>1
          <5>2. CASE v # w
            BY <1>t, <3>1, <4>1, <5>2 DEF LedgerInv, PrefixDecided
          <5> QED BY <5>1, <5>2
        <4> QED BY <3>1, <4>1 DEF PrefixDecided, Decided
      <3>4. \A v \in Workers : pc'[v] = "insert" => pc[v] = "insert" /\ cur'[v] = cur[v]
        BY <1>t, <3>1, SMTT(60)
      <3>5. JudgementCurrent'
        BY <3>1, <3>4 DEF LedgerInv, JudgementCurrent, Decided, Message
      <3>6. RetriedHarmless'
        BY <3>1 DEF LedgerInv, RetriedHarmless, Decided
      <3> QED BY <1>t, <3>3, <3>5, <3>6 DEF LedgerInv
    <2>4. ASSUME Read(w) PROVE LedgerInv'
      <3>1. /\ pc[w] = "read" /\ cur[w] \in Jobs
            /\ Message(w).kind = "bid" => Message(w).auction \in Auctions
        BY <1>t, <2>4, MessageType DEF Read, VerdictOf, Working
      <3>2. PICK v \in Verdicts :
              /\ v = IF Message(w).kind = "bid" /\ status[Message(w).auction] = "live"
                     THEN Judge(rows, Message(w).auction, Message(w).amount)
                     ELSE "auction_not_live"
              /\ pc' = [pc EXCEPT ![w] = "insert"]
              /\ cur' = [cur EXCEPT ![w] = [cur[w] EXCEPT !.verdict = v]]
              /\ UNCHANGED <<status, log, rows, retried, left>>
        BY <2>4 DEF Read, VerdictOf, Judge, Verdicts
      <3>3. /\ cur'[w].partition = cur[w].partition
            /\ cur'[w].offset = cur[w].offset
            /\ cur'[w].verdict = v
        BY <1>t, <3>1, <3>2 DEF Jobs
      <3>4. \A u \in Workers \ {w} : pc'[u] = pc[u] /\ cur'[u] = cur[u]
        BY <1>t, <3>2
      <3>5. PrefixDecided'
        <4>1. \A u \in Workers : pc'[u] \in {"read", "insert"} =>
                /\ pc[u] \in {"read", "insert"}
                /\ cur'[u].partition = cur[u].partition
                /\ cur'[u].offset = cur[u].offset
          BY <3>1, <3>3, <3>4
        <4> QED BY <3>2, <4>1 DEF LedgerInv, PrefixDecided, Decided
      <3>6. JudgementCurrent'
        <4>1. Message(w)' = Message(w)
          BY <3>2, <3>3 DEF Message
        <4>2. v # "auction_not_live" =>
                /\ status[Message(w).auction] # "scheduled"
                /\ v = Judge(rows, Message(w).auction, Message(w).amount)
          BY <3>2
        <4>3. ASSUME NEW u \in Workers, pc'[u] = "insert", Decidable(Message(u)'),
                     ~Decided(cur'[u].partition, cur'[u].offset),
                     cur'[u].verdict # "auction_not_live"
              PROVE  /\ status[Message(u)'.auction] # "scheduled"
                     /\ cur'[u].verdict = Judge(rows, Message(u)'.auction, Message(u)'.amount)
          <5>1. CASE u = w
            BY <3>3, <4>1, <4>2, <4>3, <5>1
          <5>2. CASE u # w
            <6>1. pc[u] = "insert" /\ cur'[u] = cur[u] /\ Message(u)' = Message(u)
              BY <3>2, <3>4, <4>3, <5>2 DEF Message
            <6> QED BY <4>3, <6>1, SMTT(60) DEF LedgerInv, JudgementCurrent
          <5> QED BY <5>1, <5>2
        <4> QED BY <3>2, <4>3 DEF JudgementCurrent, Decided
      <3>7. RetriedHarmless'
        BY <3>2 DEF LedgerInv, RetriedHarmless, Decided
      <3> QED BY <1>t, <3>5, <3>6, <3>7 DEF LedgerInv
    <2>5. ASSUME Insert(w) PROVE LedgerInv'
      BY <1>t, <2>5, LedgerInsert
    <2>6. ASSUME AlreadyProcessed(w) PROVE LedgerInv'
      <3>1. Decidable(Message(w)) => Decided(cur[w].partition, cur[w].offset)
        BY <2>6 DEF AlreadyProcessed, ViolatesIntegrity, Decidable
      <3> QED BY <1>t, <2>6, <3>1, LedgerRetry DEF AlreadyProcessed
    <2>7. ASSUME Unstorable(w) PROVE LedgerInv'
      BY <1>t, <2>7, LedgerRetry DEF Unstorable
    <2>8. ASSUME UpdateCache(w) \/ Announce(w) \/ PublishResult(w) \/ Commit(w)
          PROVE  LedgerInv'
      BY <1>t, <2>8, LedgerMove DEF UpdateCache, CacheStep, Announce,
                                    PublishResult, Commit, Steps
    <2>9. ASSUME CommitFenced(w) \/ Crash(w)
          PROVE  LedgerInv'
      BY <1>g, <1>t, <2>9, SpendKeepsError DEF CommitFenced, Crash, Faults
    <2>10. ~(PollFails(w) \/ CommitFails(w) \/ InsertUnknown(w) \/ CallFails(w))
      BY <1>t DEF PollFails, CommitFails, InsertUnknown, CallFails, Spend
    <2> QED
      BY <2>1, <2>2, <2>3, <2>4, <2>5, <2>6, <2>7, <2>8, <2>9, <2>10
         DEF Turn, Fault
  <1>u. CASE UNCHANGED vars
    BY <1>u, <1>t, LedgerFrame DEF vars
  <1> QED
    BY <1>s, <1>c, <1>p, <1>q, <1>f, <1>b, <1>l, <1>w, <1>u DEF Next

LEMMA LedgerInvariant == Budget["error"] = 0 => (Spec => []LedgerInv)
  <1> SUFFICES ASSUME Budget["error"] = 0 PROVE Spec => []LedgerInv
    OBVIOUS
  <1>1. Init => LedgerInv
    BY LedgerInit
  <1> QED
    BY <1>1, LedgerStep, PTL DEF Spec

---------------------------------------------------------------------------
(* Theorems about the ledger                                               *)

(* While no call of a decision fails, no committed offset passes over a    *)
(* bid that could be recorded, whatever crashes and rebalances do          *)
(* (workers/auction_worker.py:14-18, core/kafka.py:7-8).                   *)
THEOREM NothingDropped == Budget["error"] = 0 => (Spec => []NoBidDropped)
  <1> SUFFICES ASSUME Budget["error"] = 0 PROVE Spec => []NoBidDropped
    OBVIOUS
  <1>1. LedgerInv => NoBidDropped
    BY DEF LedgerInv, DeliveryInv, RetriedHarmless, DroppedOnlyIfLogged, NoBidDropped
  <1>2. Spec => []LedgerInv
    BY LedgerInvariant
  <1> QED
    BY <1>1, <1>2, PTL

(* The arbiter's vocabulary is the pipeline's.                             *)
LEMMA Vocabulary ==
    /\ Arbiter!Messages = Messages
    /\ Arbiter!Statuses = Statuses
    /\ Arbiter!Verdicts = Verdicts
    /\ \A m : Arbiter!Decidable(m) <=> Decidable(m)
    /\ \A rs, p, o : Arbiter!DecidedIn(rs, p, o) <=> DecidedIn(rs, p, o)
    /\ \A rs, a, x : Arbiter!Judge(rs, a, x) = Judge(rs, a, x)
  BY DEF Arbiter!Messages, Messages, Arbiter!BidMessages, BidMessages,
         Arbiter!ForeignMessages, ForeignMessages, Arbiter!Statuses, Statuses,
         Arbiter!Verdicts, Verdicts, Arbiter!Decidable, Decidable,
         Arbiter!DecidedIn, DecidedIn, Arbiter!Judge, Judge,
         Arbiter!Outbids, Outbids, Arbiter!AcceptedIn, AcceptedIn

(* A row that is written is the serial arbiter's decision.                 *)
LEMMA RowIsArbitrated ==
    ASSUME LedgerInv, NEW w \in Workers, pc[w] = "insert",
           ~ViolatesIntegrity(w), Decidable(Message(w)),
           rows' = rows \cup {RowOf(w)}, UNCHANGED <<log, status>>
    PROVE  Arbiter!ANext
  <1>1. /\ cur[w] \in Jobs
        /\ cur[w].partition \in Partitions
        /\ cur[w].offset \in 1 .. Len(log[cur[w].partition])
        /\ cur[w].verdict \in Verdicts
    BY DEF LedgerInv, DeliveryInv, TypeInv, JobsInLog, Jobs, Working
  <1>2. ~Decided(cur[w].partition, cur[w].offset)
    BY DEF ViolatesIntegrity
  <1>3. \A e \in 1 .. cur[w].offset - 1 :
           Decidable(log[cur[w].partition][e]) => DecidedIn(rows, cur[w].partition, e)
    BY DEF LedgerInv, PrefixDecided, Decided
  <1>4. cur[w].verdict # "auction_not_live" =>
           /\ status[Message(w).auction] # "scheduled"
           /\ cur[w].verdict = Judge(rows, Message(w).auction, Message(w).amount)
    BY <1>2, SMTT(60) DEF LedgerInv, JudgementCurrent
  <1>5. Arbiter!ADecide(cur[w].partition, cur[w].offset, cur[w].verdict)
    BY <1>1, <1>2, <1>3, <1>4, Vocabulary DEF Arbiter!ADecide, Message, RowOf, Decided
  <1> QED
    BY <1>1, <1>5, Vocabulary DEF Arbiter!ANext

(* Every step of the pipeline is a step of the arbiter or leaves the log,  *)
(* the ledger and the auctions alone.                                      *)
LEMMA ArbiterStep == LedgerInv /\ [Next]_vars => [Arbiter!ANext]_(Arbiter!avars)
  <1> SUFFICES ASSUME LedgerInv, [Next]_vars
               PROVE  Arbiter!ANext \/ UNCHANGED <<log, rows, status>>
    BY DEF Arbiter!avars
  <1> USE DEF dbVars, brokerVars, workerVars, redisVars
  <1>t. TypeInv /\ left["error"] = 0
    BY DEF LedgerInv, DeliveryInv, RetriedHarmless
  <1>s. ASSUME NEW a \in Auctions, NEW s \in Statuses, SetStatus(a, s)
        PROVE  Arbiter!ANext
    BY <1>s, Vocabulary DEF SetStatus, Arbiter!ANext, Arbiter!ASetStatus
  <1>c. ASSUME NEW c \in Clients, NEW a \in Auctions, NEW x \in Amounts,
               SubmitCheck(c, a, x)
        PROVE  UNCHANGED <<log, rows, status>>
    BY <1>c DEF SubmitCheck
  <1>p. ASSUME NEW c \in Clients, Publish(c)
        PROVE  Arbiter!ANext
    <2>1. /\ PartitionOf[req[c].auction] \in Partitions
          /\ req[c] \in Messages
      BY <1>p, <1>t, KeyAssumption DEF Publish, TypeInv, TypeOK, BidMessages, Messages
    <2>2. Arbiter!AAppend(PartitionOf[req[c].auction], req[c])
      BY <1>p DEF Publish, Arbiter!AAppend
    <2> QED BY <2>1, <2>2, Vocabulary DEF Arbiter!ANext
  <1>q. ASSUME NEW c \in Clients, PublishFails(c)
        PROVE  UNCHANGED <<log, rows, status>>
    BY <1>q DEF PublishFails
  <1>f. ASSUME NEW p \in Partitions, NEW m \in ForeignMessages, PutForeign(p, m)
        PROVE  Arbiter!ANext
    <2>1. m \in Messages /\ m.kind # "bid"
      BY DEF Messages, ForeignMessages
    <2>2. Arbiter!AAppend(p, m)
      BY <1>f, <2>1 DEF PutForeign, Arbiter!AAppend
    <2> QED BY <2>1, <2>2, Vocabulary DEF Arbiter!ANext
  <1>b. ASSUME Recover \/ Rebalance \/ FlushCache
        PROVE  UNCHANGED <<log, rows, status>>
    BY <1>b DEF Recover, Rebalance, FlushCache, Assign
  <1>w. ASSUME NEW w \in Workers, Insert(w)
        PROVE  Arbiter!ANext
    BY <1>w, RowIsArbitrated DEF Insert
  <1>e. ASSUME NEW w \in Workers
        PROVE  ~(PollFails(w) \/ CommitFails(w) \/ InsertUnknown(w) \/ CallFails(w))
    BY <1>t, SMTT(60) DEF PollFails, CommitFails, InsertUnknown, CallFails, Spend
  <1>o. ASSUME NEW w \in Workers,
               \/ Start(w) \/ Sync(w) \/ Read(w) \/ AlreadyProcessed(w)
               \/ Unstorable(w) \/ UpdateCache(w) \/ Announce(w)
               \/ PublishResult(w) \/ Commit(w) \/ CommitFenced(w) \/ Crash(w)
               \/ \E p \in Partitions : Poll(w, p)
        PROVE  UNCHANGED <<log, rows, status>>
    BY <1>o DEF Start, Sync, SyncAt, Read, VerdictOf, AlreadyProcessed,
                Unstorable, UpdateCache, CacheStep, Announce, PublishResult,
                Commit, CommitFenced, Crash, Poll, WillRetry, PassOver, Gone
  <1>u. CASE UNCHANGED vars
    BY <1>u DEF vars
  <1> QED
    BY <1>s, <1>c, <1>p, <1>q, <1>f, <1>b, <1>w, <1>e, <1>o, <1>u
       DEF Next, Turn, Fault

(* While no call of a decision fails, the pipeline implements the serial   *)
(* arbiter: crashes, replays, rebalances, two workers on one partition and *)
(* a cache that loses its data change no decision                          *)
(* (services/bid_service.py:127-171).                                      *)
THEOREM Arbitration == Budget["error"] = 0 => (Spec => SerialArbitration)
  <1> SUFFICES ASSUME Budget["error"] = 0 PROVE Spec => SerialArbitration
    OBVIOUS
  <1>1. Init => Arbiter!AInit
    BY DEF Init, Arbiter!AInit
  <1>2. Spec => []LedgerInv
    BY LedgerInvariant
  <1> QED
    BY <1>1, <1>2, ArbiterStep, PTL DEF Spec, SerialArbitration, Arbiter!ASpec

(* An accepted bid was higher than the bids accepted before it, while no   *)
(* call of a decision fails (services/bid_service.py:148-155).             *)
THEOREM AcceptedIsHighest == Budget["error"] = 0 => (Spec => AcceptedOutbids)
  <1> SUFFICES ASSUME Budget["error"] = 0 PROVE Spec => AcceptedOutbids
    OBVIOUS
  <1> DEFINE Step == \A r \in rows' \ rows :
                       r.verdict = "accepted" => Outbids(rows, r.auction, r.amount)
  <1>1. LedgerInv /\ [Next]_vars => Step
    <2> SUFFICES ASSUME LedgerInv, [Next]_vars PROVE Step
      OBVIOUS
    <2>1. Arbiter!ANext \/ rows' = rows
      BY ArbiterStep DEF Arbiter!avars
    <2>2. CASE rows' = rows
      BY <2>2
    <2>3. CASE Arbiter!ANext
      <3>1. ASSUME NEW p \in Partitions, NEW o \in 1 .. Len(log[p]), NEW v \in Verdicts,
                   Arbiter!ADecide(p, o, v)
            PROVE  Step
        BY <3>1, Vocabulary DEF Arbiter!ADecide, Judge
      <3>2. ASSUME rows' = rows PROVE Step
        BY <3>2
      <3> QED
        BY <2>3, <3>1, <3>2, Vocabulary
           DEF Arbiter!ANext, Arbiter!AAppend, Arbiter!ASetStatus
    <2> QED BY <2>1, <2>2, <2>3
  <1>2. Spec => []LedgerInv
    BY LedgerInvariant
  <1>3. LedgerInv /\ [Next]_vars => [Step]_vars
    BY <1>1
  <1> HIDE DEF Step
  <1>4. Spec => [][Step]_vars
    BY <1>2, <1>3, PTL DEF Spec
  <1> QED
    BY <1>4 DEF Step, AcceptedOutbids

---------------------------------------------------------------------------
(* Bids accepted after the auction closed                                  *)

LateAccepted(r) == r.late /\ r.verdict = "accepted"

(* After a late acceptance the auction is closed, and no worker is about   *)
(* to accept another bid of it.                                            *)
LateExcludes ==
    \A r \in rows : LateAccepted(r) =>
        /\ status[r.auction] = "closed"
        /\ \A w \in Workers :
             /\ pc[w] = "insert"
             /\ Decidable(Message(w))
             /\ ~Decided(cur[w].partition, cur[w].offset)
             /\ Message(w).auction = r.auction
             => cur[w].verdict # "accepted"

LateInv == LedgerInv /\ LateExcludes /\ AtMostOneLateAcceptance

(* Rows come from Insert, and a closed auction stays closed.               *)
LEMMA RowsAndStatus ==
    ASSUME LedgerInv, [Next]_vars
    PROVE  /\ rows' = rows \/ \E w \in Workers : Insert(w)
           /\ \A a \in Auctions : status[a] = "closed" => status'[a] = "closed"
           /\ rows' # rows => status' = status
  <1> USE DEF dbVars, brokerVars, workerVars, redisVars
  <1>1. left["error"] = 0 /\ status \in [Auctions -> Statuses]
    BY DEF LedgerInv, RetriedHarmless, DeliveryInv, TypeInv, TypeOK
  <1>2. ASSUME NEW a \in Auctions, NEW s \in Statuses, SetStatus(a, s)
        PROVE  rows' = rows /\ \A b \in Auctions : status[b] = "closed" => status'[b] = "closed"
    BY <1>1, <1>2 DEF SetStatus
  <1>3. ASSUME NEW w \in Workers, Insert(w) PROVE status' = status
    BY <1>3 DEF Insert
  <1>4. ASSUME NEW w \in Workers
        PROVE  ~(PollFails(w) \/ CommitFails(w) \/ InsertUnknown(w) \/ CallFails(w))
    BY <1>1, SMTT(60) DEF PollFails, CommitFails, InsertUnknown, CallFails, Spend
  <1>5. ASSUME NEW w \in Workers,
               \/ Start(w) \/ Sync(w) \/ Read(w) \/ AlreadyProcessed(w)
               \/ Unstorable(w) \/ UpdateCache(w) \/ Announce(w)
               \/ PublishResult(w) \/ Commit(w) \/ CommitFenced(w) \/ Crash(w)
               \/ \E p \in Partitions : Poll(w, p)
        PROVE  UNCHANGED <<rows, status>>
    BY <1>5, SMTT(60) DEF Start, Sync, SyncAt, Read, VerdictOf, AlreadyProcessed,
                Unstorable, UpdateCache, CacheStep, Announce, PublishResult,
                Commit, CommitFenced, Crash, Poll, WillRetry, PassOver, Gone
  <1>6. ASSUME \/ Recover \/ Rebalance \/ FlushCache
               \/ \E c \in Clients, a \in Auctions, x \in Amounts : SubmitCheck(c, a, x)
               \/ \E c \in Clients : Publish(c) \/ PublishFails(c)
               \/ \E p \in Partitions, m \in ForeignMessages : PutForeign(p, m)
               \/ UNCHANGED vars
        PROVE  UNCHANGED <<rows, status>>
    BY <1>6 DEF Recover, Rebalance, FlushCache, Assign, SubmitCheck, Publish,
                PublishFails, PutForeign, vars
  <1> QED
    BY <1>2, <1>3, <1>4, <1>5, <1>6 DEF Next, Turn, Fault

(* An accepting verdict of this step is that of what the worker has read.  *)
JustJudged(v) ==
    cur'[v].verdict = "accepted" =>
        /\ status[Message(v).auction] = "live"
        /\ Outbids(rows, Message(v).auction, Message(v).amount)

(* A worker about to insert was there before, or has just read the auction. *)
LEMMA InsertStage ==
    ASSUME TypeInv, [Next]_vars, NEW v \in Workers, pc'[v] = "insert"
    PROVE  /\ Message(v)' = Message(v)
           /\ cur'[v].partition = cur[v].partition /\ cur'[v].offset = cur[v].offset
           /\ \/ pc[v] = "insert" /\ cur'[v] = cur[v]
              \/ pc[v] = "read" /\ JustJudged(v)
  <1> USE DEF dbVars, brokerVars, workerVars, redisVars
  <1>t. /\ TypeInv
        /\ pc \in [Workers -> Steps]
        /\ cur \in [Workers -> Jobs \cup {NoJob}]
        /\ log \in [Partitions -> Seq(Messages)]
    BY DEF TypeInv, TypeOK
  <1>j. pc[v] \in Working => /\ cur[v].partition \in Partitions
                             /\ cur[v].offset \in 1 .. Len(log[cur[v].partition])
    BY <1>t DEF TypeInv, JobsInLog, Jobs
  <1>1. ASSUME NEW p \in Partitions, NEW m \in Messages,
               log' = [log EXCEPT ![p] = Append(@, m)], UNCHANGED <<pc, cur>>
        PROVE  pc[v] = "insert" /\ cur'[v] = cur[v] /\ Message(v)' = Message(v)
    BY <1>1, <1>t, <1>j, AppendGrows DEF Message, Working
  <1>2. ASSUME UNCHANGED <<pc, cur, log>>
        PROVE  pc[v] = "insert" /\ cur'[v] = cur[v] /\ Message(v)' = Message(v)
    BY <1>2 DEF Message
  <1>3. ASSUME NEW w \in Workers, NEW s \in Steps \ {"insert"},
               pc' = [pc EXCEPT ![w] = s], UNCHANGED log,
               \A u \in Workers \ {w} : cur'[u] = cur[u]
        PROVE  pc[v] = "insert" /\ cur'[v] = cur[v] /\ Message(v)' = Message(v)
    BY <1>3, <1>t, SMTT(60) DEF Message
  <1>4. ASSUME NEW c \in Clients, Publish(c)
        PROVE  pc[v] = "insert" /\ cur'[v] = cur[v] /\ Message(v)' = Message(v)
    <2>1. /\ PartitionOf[req[c].auction] \in Partitions
          /\ req[c] \in Messages
      BY <1>4, <1>t, KeyAssumption DEF Publish, TypeInv, TypeOK, BidMessages, Messages
    <2> QED BY <1>1, <1>4, <2>1 DEF Publish
  <1>5. ASSUME NEW p \in Partitions, NEW m \in ForeignMessages, PutForeign(p, m)
        PROVE  pc[v] = "insert" /\ cur'[v] = cur[v] /\ Message(v)' = Message(v)
    BY <1>1, <1>5 DEF PutForeign, Messages
  <1>6. ASSUME NEW w \in Workers, Read(w)
        PROVE  /\ Message(v)' = Message(v)
               /\ cur'[v].partition = cur[v].partition /\ cur'[v].offset = cur[v].offset
               /\ \/ pc[v] = "insert" /\ cur'[v] = cur[v]
                  \/ pc[v] = "read" /\ JustJudged(v)
    <2>1. CASE v = w
      <3>1. cur[w] \in Jobs
        BY <1>6, <1>t, MessageType DEF Read, VerdictOf, Working
      <3>2. /\ cur'[w] = [cur[w] EXCEPT !.verdict =
                            IF Message(w).kind = "bid" /\ status[Message(w).auction] = "live"
                            THEN Judge(rows, Message(w).auction, Message(w).amount)
                            ELSE "auction_not_live"]
            /\ log' = log
        BY <1>6, <1>t, SMTT(60) DEF Read, VerdictOf
      <3>3. /\ cur'[w].verdict = "accepted" =>
                 /\ status[Message(w).auction] = "live"
                 /\ Outbids(rows, Message(w).auction, Message(w).amount)
            /\ cur'[w].partition = cur[w].partition /\ cur'[w].offset = cur[w].offset
        BY <1>t, <1>6, <3>1, <3>2 DEF Jobs, Judge
      <3>4. pc[w] = "read" /\ Message(w)' = Message(w)
        BY <1>6, <3>2, <3>3 DEF Read, Message
      <3> QED BY <2>1, <3>3, <3>4 DEF JustJudged
    <2>2. CASE v # w
      BY <1>6, <1>t, <2>2 DEF Read, VerdictOf, Message
    <2> QED BY <2>1, <2>2
  <1>7. ASSUME NEW w \in Workers, NEW p \in Partitions, Poll(w, p)
        PROVE  pc[v] = "insert" /\ cur'[v] = cur[v] /\ Message(v)' = Message(v)
    <2>1. PICK s \in Steps \ {"insert"} : pc' = [pc EXCEPT ![w] = s]
      BY <1>7 DEF Poll, Steps
    <2>2. UNCHANGED log /\ \A u \in Workers \ {w} : cur'[u] = cur[u]
      BY <1>7, <1>t DEF Poll
    <2> QED BY <1>3, <2>1, <2>2
  <1>8. ASSUME NEW w \in Workers,
               \/ Start(w) \/ Insert(w) \/ AlreadyProcessed(w) \/ Unstorable(w)
               \/ UpdateCache(w) \/ Announce(w) \/ PublishResult(w) \/ Commit(w)
               \/ CommitFenced(w) \/ Fault(w)
        PROVE  pc[v] = "insert" /\ cur'[v] = cur[v] /\ Message(v)' = Message(v)
    <2>1. PICK s \in Steps \ {"insert"} : pc' = [pc EXCEPT ![w] = s]
      <3>1. CASE Start(w) \/ AlreadyProcessed(w) \/ Unstorable(w) \/ UpdateCache(w)
                 \/ Announce(w) \/ PublishResult(w) \/ Commit(w) \/ CommitFenced(w)
        BY <3>1 DEF Start, AlreadyProcessed, Unstorable, UpdateCache,
                    CacheStep, Announce, PublishResult, Commit, CommitFenced,
                    WillRetry, PassOver, Gone, Steps
      <3>2. CASE Insert(w)
        <4>1. CASE cur[w].verdict = "accepted"
          BY <3>2, <4>1 DEF Insert, Steps
        <4>2. CASE cur[w].verdict # "accepted"
          BY <3>2, <4>2 DEF Insert, Steps
        <4> QED BY <4>1, <4>2
      <3>3. CASE Fault(w)
        BY <3>3, SMTT(60) DEF Fault, Crash, PollFails, InsertUnknown, CallFails,
                    CommitFails, WillRetry, PassOver, Gone, Steps
      <3> QED BY <1>8, <3>1, <3>2, <3>3
    <2>2. UNCHANGED log
      BY <1>8, SMTT(60) DEF Start, Insert, AlreadyProcessed, Unstorable, UpdateCache,
                  CacheStep, Announce, PublishResult, Commit, CommitFenced,
                  Fault, Crash, PollFails, InsertUnknown, CallFails,
                  CommitFails, WillRetry, PassOver, Gone
    <2>3. \A u \in Workers \ {w} : cur'[u] = cur[u]
      BY <1>8, <1>t DEF Start, Insert, AlreadyProcessed, Unstorable,
                        UpdateCache, CacheStep, Announce, PublishResult,
                        Commit, CommitFenced, Fault, Crash, PollFails,
                        InsertUnknown, CallFails, CommitFails, WillRetry,
                        PassOver, Gone
    <2> QED BY <1>3, <2>1, <2>2, <2>3
  <1>9. ASSUME \/ Recover \/ Rebalance \/ FlushCache
               \/ \E a \in Auctions, s \in Statuses : SetStatus(a, s)
               \/ \E c \in Clients, a \in Auctions, x \in Amounts : SubmitCheck(c, a, x)
               \/ \E c \in Clients : PublishFails(c)
               \/ \E w \in Workers : Sync(w)
               \/ UNCHANGED vars
        PROVE  pc[v] = "insert" /\ cur'[v] = cur[v] /\ Message(v)' = Message(v)
    BY <1>2, <1>9 DEF Recover, Rebalance, FlushCache, Assign, SetStatus,
                      SubmitCheck, PublishFails, Sync, SyncAt, vars
  <1> QED
    BY <1>4, <1>5, <1>6, <1>7, <1>8, <1>9 DEF Next, Turn

LEMMA LateStep == LateInv /\ [Next]_vars => LateInv'
  <1> SUFFICES ASSUME LateInv, [Next]_vars PROVE LateInv'
    OBVIOUS
  <1>t. /\ LedgerInv /\ LedgerInv' /\ TypeInv /\ rows \subseteq Rows
        /\ \A r \in rows : r.auction \in Auctions
    BY LedgerStep DEF LateInv, LedgerInv, DeliveryInv, TypeInv, TypeOK, Rows
  <1>1. CASE rows' = rows
    <2>1. ASSUME NEW r \in rows, LateAccepted(r)
          PROVE  /\ status'[r.auction] = "closed"
                 /\ \A w \in Workers :
                      /\ pc'[w] = "insert"
                      /\ Decidable(Message(w)')
                      /\ ~DecidedIn(rows, cur'[w].partition, cur'[w].offset)
                      /\ Message(w)'.auction = r.auction
                      => cur'[w].verdict # "accepted"
      <3>1. status[r.auction] = "closed"
        BY <2>1 DEF LateInv, LateExcludes
      <3>2. status'[r.auction] = "closed"
        BY <1>t, <3>1, RowsAndStatus
      <3>3. ASSUME NEW w \in Workers, pc'[w] = "insert", Decidable(Message(w)'),
                   ~DecidedIn(rows, cur'[w].partition, cur'[w].offset),
                   Message(w)'.auction = r.auction
            PROVE  cur'[w].verdict # "accepted"
        <4>1. /\ Message(w)' = Message(w)
              /\ cur'[w].partition = cur[w].partition /\ cur'[w].offset = cur[w].offset
              /\ \/ pc[w] = "insert" /\ cur'[w] = cur[w]
                 \/ cur'[w].verdict = "accepted" => status[Message(w).auction] = "live"
          BY <1>t, <3>3, InsertStage DEF JustJudged
        <4> QED BY <2>1, <3>1, <3>3, <4>1 DEF LateInv, LateExcludes, Decided
      <3> QED BY <3>2, <3>3
    <2>2. LateExcludes'
      BY <1>1, <2>1 DEF LateExcludes, LateAccepted, Decided
    <2>3. AtMostOneLateAcceptance'
      BY <1>1 DEF LateInv, AtMostOneLateAcceptance
    <2> QED BY <1>t, <2>2, <2>3 DEF LateInv
  <1>2. ASSUME NEW w \in Workers, Insert(w) PROVE LateInv'
    <2>1. /\ pc[w] = "insert" /\ Decidable(Message(w))
          /\ ~Decided(cur[w].partition, cur[w].offset)
          /\ rows' = rows \cup {RowOf(w)}
          /\ UNCHANGED <<log, cur, status>>
          /\ pc' = [pc EXCEPT ![w] = IF cur[w].verdict = "accepted"
                                     THEN "cache" ELSE "announce"]
      BY <1>2 DEF Insert, ViolatesIntegrity, brokerVars
    <2>2. /\ RowOf(w).partition = cur[w].partition
          /\ RowOf(w).offset = cur[w].offset
          /\ RowOf(w).auction = Message(w).auction
          /\ RowOf(w).verdict = cur[w].verdict
          /\ RowOf(w).late <=> status[Message(w).auction] = "closed"
      BY DEF RowOf
    <2>3. \A v \in Workers : pc'[v] = "insert" => pc[v] = "insert" /\ Message(v)' = Message(v)
      BY <1>t, <2>1 DEF LedgerInv, DeliveryInv, TypeInv, TypeOK, Message
    <2>4. \A r \in rows : LateAccepted(r) /\ r.auction = Message(w).auction =>
             ~LateAccepted(RowOf(w))
      BY <2>1, <2>2 DEF LateInv, LateExcludes, LateAccepted
    <2>5. AtMostOneLateAcceptance'
      BY <2>1, <2>2, <2>4 DEF LateInv, AtMostOneLateAcceptance, LateAccepted
    <2>6. ASSUME NEW r \in rows', LateAccepted(r)
          PROVE  /\ status[r.auction] = "closed"
                 /\ \A v \in Workers :
                      /\ pc'[v] = "insert"
                      /\ Decidable(Message(v))
                      /\ ~DecidedIn(rows', cur[v].partition, cur[v].offset)
                      /\ Message(v).auction = r.auction
                      => cur[v].verdict # "accepted"
      <3>1. \A v \in Workers : ~DecidedIn(rows', cur[v].partition, cur[v].offset) =>
               /\ ~Decided(cur[v].partition, cur[v].offset)
               /\ ~(cur[v].partition = cur[w].partition /\ cur[v].offset = cur[w].offset)
        BY <2>1, <2>2 DEF Decided, DecidedIn
      <3>2. CASE r \in rows
        BY <2>3, <2>6, <3>1, <3>2 DEF LateInv, LateExcludes
      <3>3. CASE r = RowOf(w)
        <4>1. status[r.auction] = "closed"
          BY <2>2, <2>6, <3>3 DEF LateAccepted
        <4>2. ASSUME NEW v \in Workers, pc'[v] = "insert", Decidable(Message(v)),
                     ~DecidedIn(rows', cur[v].partition, cur[v].offset),
                     Message(v).auction = r.auction
              PROVE  FALSE
          BY <1>t, <2>1, <2>2, <2>3, <3>1, <3>3, <4>2, SameAuctionSameMessage
        <4> QED BY <4>1, <4>2
      <3> QED BY <2>1, <3>2, <3>3
    <2>7. LateExcludes'
      <3> SUFFICES ASSUME NEW r \in rows', LateAccepted(r)
                   PROVE  /\ status'[r.auction] = "closed"
                          /\ \A v \in Workers :
                               /\ pc'[v] = "insert"
                               /\ Decidable(Message(v)')
                               /\ ~DecidedIn(rows', cur'[v].partition, cur'[v].offset)
                               /\ Message(v)'.auction = r.auction
                               => cur'[v].verdict # "accepted"
        BY DEF LateExcludes, LateAccepted, Decided
      <3>1. status' = status /\ cur' = cur
        BY <2>1
      <3> QED BY <2>3, <2>6, <3>1
    <2> QED BY <1>t, <2>5, <2>7 DEF LateInv
  <1> QED BY <1>1, <1>2, <1>t, RowsAndStatus

(* While no call of a decision fails, at most one bid of an auction is     *)
(* accepted after the auction has closed, however many workers race        *)
(* (services/bid_service.py:142-168).                                      *)
THEOREM LateAcceptance == Budget["error"] = 0 => (Spec => []AtMostOneLateAcceptance)
  <1> SUFFICES ASSUME Budget["error"] = 0
               PROVE  Spec => []AtMostOneLateAcceptance
    OBVIOUS
  <1>1. Init => LateInv
    BY LedgerInit DEF Init, LateInv, LateExcludes, AtMostOneLateAcceptance
  <1>2. LateInv => AtMostOneLateAcceptance
    BY DEF LateInv
  <1> QED
    BY <1>1, <1>2, LateStep, PTL DEF Spec

---------------------------------------------------------------------------
(* Failing calls, in a topic of one partition that no rebalance moves      *)

(* Faults are only used up.                                                *)
LEMMA FaultsFall ==
    ASSUME TypeInv, [Next]_vars
    PROVE  /\ left \in [Faults -> Nat] /\ left' \in [Faults -> Nat]
           /\ \A f \in Faults : left'[f] <= left[f]
  <1>1. left \in [Faults -> Nat] /\ left' \in [Faults -> Nat]
    BY TypeStep DEF TypeInv, TypeOK
  <1>2. (\E f \in Faults : Spend(f)) \/ left' = left
    <2>1. ASSUME NEW w \in Workers, Turn(w) \/ Fault(w) \/ Start(w) \/ Sync(w)
          PROVE  (\E f \in Faults : Spend(f)) \/ left' = left
      <3>1. Turn(w) => left' = left
        BY DEF Turn, Read, Insert, AlreadyProcessed, Unstorable, UpdateCache,
               CacheStep, Announce, PublishResult, Commit, CommitFenced
      <3>2. Fault(w) => \E f \in Faults : Spend(f)
        BY DEF Fault, Crash, PollFails, InsertUnknown, CallFails, CommitFails, Faults
      <3>3. Start(w) \/ Sync(w) => left' = left
        BY DEF Start, Sync, SyncAt
      <3> QED BY <2>1, <3>1, <3>2, <3>3
    <2>2. Rebalance \/ FlushCache => \E f \in Faults : Spend(f)
      BY DEF Rebalance, FlushCache, Faults
    <2>3. (\E p \in Partitions, m \in ForeignMessages : PutForeign(p, m))
            => \E f \in Faults : Spend(f)
      BY DEF PutForeign, Faults
    <2> QED BY <2>1, <2>2, <2>3
        DEF Next, vars, SetStatus, SubmitCheck, Publish, PublishFails, Recover, Poll
  <1> QED BY <1>1, <1>2 DEF Spend

(* Who has work in hand or may poll is the owner of the partition, and     *)
(* knows it.                                                               *)
OwnersWork ==
    \A w \in Workers : \A p \in Partitions :
        pc[w] \in Working \/ p \in held[w] => owner[p] = w /\ w \in synced

(* The partition changes hands only when its owner has died.               *)
LEMMA OwnersWorkStep ==
    ASSUME NEW part, Partitions = {part}, TypeInv, OwnersWork, [Next]_vars,
           ~Rebalance
    PROVE  OwnersWork'
  <1> USE DEF dbVars, brokerVars, workerVars, redisVars
  <1>t. /\ pc \in [Workers -> Steps]
        /\ held \in [Workers -> SUBSET Partitions]
        /\ owner \in [Partitions -> Workers \cup {NoWorker}]
    BY DEF TypeInv, TypeOK
  <1>f. ASSUME UNCHANGED <<held, owner, synced>>,
               \A v \in Workers : pc'[v] \in Working => pc[v] \in Working
        PROVE  OwnersWork'
    BY <1>f DEF OwnersWork
  <1>m. ASSUME NEW w \in Workers, NEW s, pc' = [pc EXCEPT ![w] = s],
               s \in Working => pc[w] \in Working,
               UNCHANGED <<held, owner, synced>>
        PROVE  OwnersWork'
    BY <1>f, <1>m, <1>t
  <1>g. ASSUME NEW w \in Workers, Gone(w) PROVE OwnersWork'
    <2>1. /\ pc' = [pc EXCEPT ![w] = "down"]
          /\ held' = [held EXCEPT ![w] = {}]
          /\ owner' = [p \in Partitions |-> IF owner[p] = w THEN NoWorker ELSE owner[p]]
          /\ synced' = synced \ {w}
      BY <1>g DEF Gone
    <2>2. pc'[w] \notin Working /\ held'[w] = {}
      BY <1>t, <2>1 DEF Working
    <2>3. \A v \in Workers \ {w} : pc'[v] = pc[v] /\ held'[v] = held[v]
      BY <1>t, <2>1
    <2>4. ASSUME NEW v \in Workers, NEW p \in Partitions,
                 pc'[v] \in Working \/ p \in held'[v]
          PROVE  owner'[p] = v /\ v \in synced'
      <3>1. v # w
        BY <2>2, <2>4
      <3>2. owner[p] = v /\ v \in synced
        BY <2>3, <2>4, <3>1 DEF OwnersWork
      <3> QED BY <2>1, <3>1, <3>2
    <2> QED BY <2>4 DEF OwnersWork
  <1>1. ASSUME Recover PROVE OwnersWork'
    <2>1. owner[part] = NoWorker /\ UNCHANGED <<pc, held>>
      BY <1>1 DEF Recover, Assign
    <2>2. \A v \in Workers, p \in Partitions : ~(pc[v] \in Working \/ p \in held[v])
      BY <2>1, SentinelAssumption DEF OwnersWork
    <2> QED BY <2>1, <2>2 DEF OwnersWork
  <1>2. ASSUME NEW w \in Workers, NEW p \in Partitions, Poll(w, p) PROVE OwnersWork'
    <2>1. /\ p \in held[w] /\ UNCHANGED <<held, owner, synced>>
          /\ \A v \in Workers \ {w} : pc'[v] = pc[v]
      BY <1>2, <1>t DEF Poll
    <2>2. owner[p] = w /\ w \in synced
      BY <2>1 DEF OwnersWork
    <2>3. \A q \in Partitions : q = p
      OBVIOUS
    <2> QED BY <2>1, <2>2, <2>3 DEF OwnersWork
  <1>3. ASSUME NEW w \in Workers, Sync(w) PROVE OwnersWork'
    <2>1. /\ w \notin synced /\ synced' = synced \cup {w}
          /\ held' = [held EXCEPT ![w] = {p \in Partitions : owner[p] = w}]
          /\ UNCHANGED <<pc, owner>>
      BY <1>3 DEF Sync, SyncAt
    <2>2. pc[w] \notin Working
      BY <2>1 DEF OwnersWork
    <2>3. held'[w] = {p \in Partitions : owner[p] = w}
      BY <1>t, <2>1
    <2>4. \A v \in Workers \ {w} : held'[v] = held[v]
      BY <1>t, <2>1
    <2> QED BY <2>1, <2>2, <2>3, <2>4 DEF OwnersWork
  <1>4. ASSUME NEW w \in Workers, Turn(w) PROVE OwnersWork'
    <2>1. ASSUME Read(w) \/ UpdateCache(w) \/ Announce(w) \/ PublishResult(w) \/ Commit(w)
          PROVE  OwnersWork'
      BY <1>m, <2>1
         DEF Read, UpdateCache, CacheStep, Announce, PublishResult, Commit, Working
    <2>2. ASSUME Insert(w) PROVE OwnersWork'
      BY <1>m, <2>2 DEF Insert, Working
    <2>3. ASSUME WillRetry(w) PROVE OwnersWork'
      BY <1>m, <2>3 DEF WillRetry, PassOver, Working
    <2>4. ASSUME AlreadyProcessed(w) PROVE OwnersWork'
      BY <2>3, <2>4 DEF AlreadyProcessed
    <2> QED BY <1>4, <1>g, <2>1, <2>2, <2>3, <2>4 DEF Turn, Unstorable, CommitFenced
  <1>5. ASSUME NEW w \in Workers, Fault(w) PROVE OwnersWork'
    BY <1>5, <1>g, <1>m
       DEF Fault, Crash, PollFails, InsertUnknown, CallFails, CommitFails,
           WillRetry, PassOver, Working
  <1>6. ASSUME NEW w \in Workers, Start(w) PROVE OwnersWork'
    BY <1>6, <1>m DEF Start, Working
  <1>7. ASSUME UNCHANGED <<pc, held, owner, synced>> PROVE OwnersWork'
    BY <1>f, <1>7
  <1>8. ASSUME \/ \E a \in Auctions, s \in Statuses : SetStatus(a, s)
               \/ \E c \in Clients, a \in Auctions, x \in Amounts : SubmitCheck(c, a, x)
               \/ \E c \in Clients : Publish(c) \/ PublishFails(c)
               \/ \E p \in Partitions, m \in ForeignMessages : PutForeign(p, m)
               \/ FlushCache \/ UNCHANGED vars
        PROVE  OwnersWork'
    BY <1>7, <1>8
       DEF SetStatus, SubmitCheck, Publish, PublishFails, PutForeign, FlushCache, vars
  <1> QED
    BY <1>1, <1>2, <1>3, <1>4, <1>5, <1>6, <1>8 DEF Next

(* Only the commit of a decision adds a row.                               *)
LEMMA RowsKept ==
    ASSUME [Next]_vars
    PROVE  \/ rows' = rows
           \/ \E w \in Workers : Insert(w) \/ InsertUnknown(w)
  <1>1. ASSUME NEW w \in Workers, Turn(w), ~Insert(w) PROVE rows' = rows
    BY <1>1 DEF Turn, Read, AlreadyProcessed, Unstorable, UpdateCache, CacheStep,
               Announce, PublishResult, Commit, CommitFenced, Gone, dbVars
  <1>2. ASSUME NEW w \in Workers, Fault(w), ~InsertUnknown(w) PROVE rows' = rows
    BY <1>2 DEF Fault, Crash, PollFails, CallFails, CommitFails, Gone, dbVars
  <1>3. ASSUME NEW w \in Workers, Start(w) \/ Sync(w) PROVE rows' = rows
    BY <1>3 DEF Start, Sync, SyncAt, dbVars
  <1> QED
    BY <1>1, <1>2, <1>3
       DEF Next, vars, dbVars, SetStatus, SubmitCheck, Publish, PublishFails,
           PutForeign, Recover, Rebalance, Assign, FlushCache, Poll

(* The verdict of a worker about to insert is still the right one.         *)
VerdictsStand ==
    \A w \in Workers :
        pc[w] = "insert" /\ cur[w].verdict = "accepted" =>
            Outbids(rows, Message(w).auction, Message(w).amount)

SettledInv ==
    TypeInv /\ left["rebalance"] = 0 /\ OwnersWork /\ VerdictsStand

LEMMA SettledStep ==
    (\E p : Partitions = {p}) /\ SettledInv /\ [Next]_vars => SettledInv'
  <1> SUFFICES ASSUME NEW part, Partitions = {part}, SettledInv, [Next]_vars
               PROVE  SettledInv'
    OBVIOUS
  <1>1. ~Rebalance
    BY DEF SettledInv, Rebalance, Spend
  <1>2. TypeInv /\ TypeInv' /\ OwnersWork /\ OwnersWork'
    BY <1>1, TypeStep, OwnersWorkStep DEF SettledInv
  <1>3. left'["rebalance"] = 0
    BY <1>2, FaultsFall DEF SettledInv, Faults
  <1>4. ASSUME NEW v \in Workers, pc'[v] = "insert", cur'[v].verdict = "accepted"
        PROVE  Outbids(rows, Message(v).auction, Message(v).amount)'
    <2>1. /\ Message(v)' = Message(v)
          /\ pc[v] \in {"read", "insert"}
          /\ Outbids(rows, Message(v).auction, Message(v).amount)
      BY <1>2, <1>4, InsertStage DEF JustJudged, SettledInv, VerdictsStand
    <2>2. rows' = rows
      <3>1. SUFFICES ASSUME NEW w \in Workers, Insert(w) \/ InsertUnknown(w)
                     PROVE  FALSE
        BY RowsKept
      <3>2. pc[w] = "insert" /\ pc'[w] # "insert"
        BY <1>2, <3>1
           DEF Insert, InsertUnknown, WillRetry, PassOver, TypeInv, TypeOK
      <3>3. owner[part] = w /\ owner[part] = v
        BY <1>2, <2>1, <3>2 DEF OwnersWork, Working
      <3> QED BY <1>4, <3>2, <3>3
    <2> QED BY <2>1, <2>2 DEF Outbids, AcceptedIn
  <1> QED BY <1>2, <1>3, <1>4 DEF SettledInv, VerdictsStand

(* In a topic of one partition that is never moved from a living worker,   *)
(* every accepted bid is higher than those accepted before it, whatever    *)
(* calls fail and workers die: a message that was passed over is decided   *)
(* late or never, but by the one worker there is, which reads afresh       *)
(* (services/bid_service.py:148-155, workers/auction_worker.py:66-75).     *)
THEOREM AcceptedIsHighestUnmoved ==
    (\E p : Partitions = {p}) /\ Budget["rebalance"] = 0 =>
      (Spec => AcceptedOutbids)
  <1> SUFFICES ASSUME \E p : Partitions = {p}, Budget["rebalance"] = 0
               PROVE  Spec => AcceptedOutbids
    OBVIOUS
  <1> DEFINE Step == \A r \in rows' \ rows :
                       r.verdict = "accepted" => Outbids(rows, r.auction, r.amount)
  <1>1. Init => SettledInv
    BY TypeInit DEF Init, SettledInv, OwnersWork, VerdictsStand, Working
  <1>2. SettledInv /\ [Next]_vars => SettledInv'
    BY SettledStep
  <1>3. SettledInv /\ [Next]_vars => [Step]_vars
    <2> SUFFICES ASSUME SettledInv, [Next]_vars PROVE Step
      OBVIOUS
    <2>1. ASSUME NEW w \in Workers, Insert(w) \/ InsertUnknown(w) PROVE Step
      <3>1. pc[w] = "insert" /\ rows' = rows \cup {RowOf(w)}
        BY <2>1 DEF Insert, InsertUnknown
      <3>2. ASSUME NEW r, r = RowOf(w)
            PROVE  /\ r.verdict = cur[w].verdict /\ r.auction = Message(w).auction
                   /\ r.amount = Message(w).amount
        BY <3>2, SMTT(60) DEF RowOf
      <3> QED BY <3>1, <3>2 DEF SettledInv, VerdictsStand
    <2> QED BY <2>1, RowsKept
  <1> HIDE DEF Step
  <1>4. Spec => [][Step]_vars
    BY <1>1, <1>2, <1>3, PTL DEF Spec
  <1> QED
    BY <1>4 DEF Step, AcceptedOutbids

============================================================================
