---------------------------- MODULE BidPipeline ----------------------------
(***************************************************************************)
(* The bid path of the AWA platform, from the HTTP request to the result   *)
(* event:                                                                  *)
(*                                                                         *)
(*   API        checks that the auction is live, publishes the bid to the  *)
(*              Kafka topic auction.bids under the auction's id            *)
(*              (services/bid_service.py, submit_bid)                      *)
(*   worker     polls its partitions, decides each bid in one SQL          *)
(*              transaction, updates the Redis cache, announces the        *)
(*              decision on Redis and on auction.bid_results, commits its  *)
(*              offsets (workers/auction_worker.py, decide_bid)            *)
(*   broker     assigns partitions to workers and fences commits of        *)
(*              workers that are not in the current generation (external)  *)
(*                                                                         *)
(* Every await of decide_bid ends a step, so a rebalance, a crash, a       *)
(* status change or another worker may come between any two of them.  A    *)
(* message is known by its partition and its offset, counted from 1.       *)
(***************************************************************************)
EXTENDS BidLedger

CONSTANTS
    Workers,      \* processes running workers.auction_worker
    Clients,      \* requests in flight at the API
    NoWorker,     \* owner of a partition that is assigned to nobody
    NoJob,        \* a worker between two messages
    NoRequest,    \* a client with no request between check and publish
    MaxLog,       \* bound: messages a partition holds
    Budget        \* bound: how many faults of each kind may happen

(* restart    a worker process dies, whatever the reason                   *)
(* error      a database, Redis or Kafka call of a decision fails          *)
(* rebalance  partitions move although every one of them has an owner      *)
(* flush      Redis loses the cached highest bids                          *)
(* foreign    something else than submit_bid writes to auction.bids        *)
Faults == {"restart", "error", "rebalance", "flush", "foreign"}

ASSUME BoundAssumption ==
    /\ MaxLog \in Nat
    /\ Budget \in [Faults -> Nat]

ASSUME SentinelAssumption ==
    /\ NoWorker \notin Workers
    /\ NoJob \notin [partition : Partitions, offset : Nat \ {0},
                     verdict : Verdicts]
    /\ NoRequest \notin BidMessages

VARIABLES
    (* SQL Server *)
    status,     \* status[a]: auctions.status
    rows,       \* the bids table
    (* API *)
    req,        \* req[c]: the bid of c, checked and not yet published
    (* Kafka *)
    log,        \* log[p]: the messages of partition p
    committed,  \* committed[p]: offset the consumer group has committed
    owner,      \* owner[p]: the worker the current generation gives p to
    synced,     \* workers that have joined the current generation
    results,    \* results[a]: auction a's events on auction.bid_results
    (* workers *)
    pc,         \* pc[w]: the step w is about to take
    held,       \* held[w]: partitions w believes it owns
    pos,        \* pos[w][p]: offset of the last message w took from p
    cur,        \* cur[w]: the message w works on and its verdict
    (* Redis *)
    cache,      \* cache[a]: auction:{a}:highest_bid, 0 when absent
    updates,    \* updates[a]: what was published on auction:{a}:updates
    (* history and bounds *)
    retried,    \* offsets logged "bid_processing_failed_will_retry"
    left        \* faults that may still happen

dbVars     == <<status, rows>>
brokerVars == <<log, committed, owner, synced>>
workerVars == <<pc, held, pos, cur>>
redisVars  == <<cache, updates>>
vars == <<status, rows, req, log, committed, owner, synced, results,
          pc, held, pos, cur, cache, updates, retried, left>>

Steps == {"down", "poll", "read", "insert", "cache", "announce", "publish",
          "commit"}

Jobs == [partition : Partitions, offset : Nat \ {0}, verdict : Verdicts]

Decided(p, o) == DecidedIn(rows, p, o)

Up(w) == pc[w] # "down"

(* The message worker w is working on.                                     *)
Message(w) == log[cur[w].partition][cur[w].offset]

Spend(fault) ==
    /\ left[fault] > 0
    /\ left' = [left EXCEPT ![fault] = @ - 1]

Unspent(fault) == left[fault] = Budget[fault]

---------------------------------------------------------------------------

Init ==
    /\ status = [a \in Auctions |-> "scheduled"]
    /\ rows = {}
    /\ req = [c \in Clients |-> NoRequest]
    /\ log = [p \in Partitions |-> <<>>]
    /\ committed = [p \in Partitions |-> 0]
    /\ owner = [p \in Partitions |-> NoWorker]
    /\ synced = {}
    /\ results = [a \in Auctions |-> <<>>]
    /\ pc = [w \in Workers |-> "down"]
    /\ held = [w \in Workers |-> {}]
    /\ pos = [w \in Workers |-> [p \in Partitions |-> 0]]
    /\ cur = [w \in Workers |-> NoJob]
    /\ cache = [a \in Auctions |-> 0]
    /\ updates = [a \in Auctions |-> <<>>]
    /\ retried = [p \in Partitions |-> {}]
    /\ left = Budget

---------------------------------------------------------------------------
(* The auction's life and the API                                          *)

(* No code of the repository changes an auction's status: an operator or a *)
(* scheduler outside it opens and closes auctions.                         *)
SetStatus(a, s) ==
    /\ <<status[a], s>> \in {<<"scheduled", "live">>, <<"live", "closed">>}
    /\ status' = [status EXCEPT ![a] = s]
    /\ UNCHANGED <<rows, req, brokerVars, results, workerVars, redisVars,
                   retried, left>>

(* submit_bid up to the publish: the auction is live and the bidder has a  *)
(* bidding role.  Other requests are refused and change nothing.           *)
SubmitCheck(c, a, x) ==
    /\ req[c] = NoRequest
    /\ status[a] = "live"
    /\ req' = [req EXCEPT ![c] = [kind |-> "bid", auction |-> a, amount |-> x]]
    /\ UNCHANGED <<dbVars, brokerVars, results, workerVars, redisVars,
                   retried, left>>

(* publish_event under the auction's id.  Also the publish whose           *)
(* acknowledgement is lost: the client sees 503 and the bid is in the log. *)
Publish(c) ==
    /\ req[c] # NoRequest
    /\ LET p == PartitionOf[req[c].auction] IN
         /\ Len(log[p]) < MaxLog
         /\ log' = [log EXCEPT ![p] = Append(@, req[c])]
    /\ req' = [req EXCEPT ![c] = NoRequest]
    /\ UNCHANGED <<dbVars, committed, owner, synced, results, workerVars,
                   redisVars, retried, left>>

(* publish_event raises and nothing reached the log: BidPublishError.      *)
PublishFails(c) ==
    /\ req[c] # NoRequest
    /\ req' = [req EXCEPT ![c] = NoRequest]
    /\ UNCHANGED <<dbVars, brokerVars, results, workerVars, redisVars,
                   retried, left>>

(* A message that submit_bid did not write.                                *)
PutForeign(p, m) ==
    /\ Spend("foreign")
    /\ Len(log[p]) < MaxLog
    /\ log' = [log EXCEPT ![p] = Append(@, m)]
    /\ UNCHANGED <<dbVars, req, committed, owner, synced, results, workerVars,
                   redisVars, retried>>

---------------------------------------------------------------------------
(* Worker processes and the consumer group                                 *)

(* run_worker: the clients are initialised, the consumer has no            *)
(* assignment yet.                                                         *)
Start(w) ==
    /\ pc[w] = "down"
    /\ pc' = [pc EXCEPT ![w] = "poll"]
    /\ UNCHANGED <<dbVars, req, brokerVars, results, held, pos, cur,
                   redisVars, retried, left>>

(* The coordinator opens a generation that gives every partition to a      *)
(* running worker.  It must do so when a partition has lost its owner, and *)
(* may do so at any time (a worker joins, a heartbeat is missed).  Nobody  *)
(* waits for the decisions in flight: the consumer of make_consumer has no *)
(* rebalance listener.                                                     *)
Assign(f) ==
    /\ \A p \in Partitions : Up(f[p])
    /\ owner' = f
    /\ synced' = {}
    /\ UNCHANGED <<dbVars, req, log, committed, results, workerVars,
                   redisVars, retried>>

Recover ==
    /\ \E p \in Partitions : owner[p] = NoWorker
    /\ \E f \in [Partitions -> Workers] : Assign(f)
    /\ UNCHANGED left

Rebalance ==
    /\ Spend("rebalance")
    /\ \E f \in [Partitions -> Workers] : Assign(f)

(* w learns its partitions and goes on in them after the offsets start.    *)
SyncAt(w, start) ==
    /\ Up(w)
    /\ w \notin synced
    /\ synced' = synced \cup {w}
    /\ held' = [held EXCEPT ![w] = {p \in Partitions : owner[p] = w}]
    /\ pos' = [pos EXCEPT ![w] = start]
    /\ UNCHANGED <<dbVars, req, log, committed, owner, results, pc, cur,
                   redisVars, retried, left>>

(* Faulty: a partition without committed offset is read from its end.      *)
Sync_FromLatest(w) ==
    SyncAt(w, [p \in Partitions |->
                 IF committed[p] = 0 THEN Len(log[p]) ELSE committed[p]])

(* A worker joins the generation and fetches the committed offsets of its  *)
(* partitions (auto_offset_reset="earliest" where there is none).          *)
Sync(w) == SyncAt(w, committed)

(* What the death of w leaves behind: a process without state.  The        *)
(* broker takes its partitions back when the session ends.                 *)
Gone(w) ==
    /\ pc' = [pc EXCEPT ![w] = "down"]
    /\ held' = [held EXCEPT ![w] = {}]
    /\ pos' = [pos EXCEPT ![w] = [p \in Partitions |-> 0]]
    /\ cur' = [cur EXCEPT ![w] = NoJob]
    /\ owner' = [p \in Partitions |-> IF owner[p] = w THEN NoWorker ELSE owner[p]]
    /\ synced' = synced \ {w}
    /\ UNCHANGED <<dbVars, req, log, committed, results, redisVars, retried>>

(* The process dies.  A graceful shutdown is the case pc = "poll": the     *)
(* loop leaves only when a further message arrives, and drops it.          *)
Crash(w) ==
    /\ Up(w)
    /\ Spend("restart")
    /\ Gone(w)

---------------------------------------------------------------------------
(* One turn of the worker's loop                                           *)

(* The consumer's iterator raises.  consume_with_backoff stops the         *)
(* consumer and run_worker ends with the exception.                        *)
PollFails(w) ==
    /\ pc[w] = "poll"
    /\ Spend("error")
    /\ Gone(w)

(* The next message of p, parsed.  A malformed one is logged and falls     *)
(* through to the commit.                                                  *)
Poll(w, p) ==
    /\ pc[w] = "poll"
    /\ p \in held[w]
    /\ pos[w][p] < Len(log[p])
    /\ LET o == pos[w][p] + 1 IN
         /\ pos' = [pos EXCEPT ![w][p] = o]
         /\ cur' = [cur EXCEPT ![w] = [partition |-> p, offset |-> o,
                                       verdict |-> "auction_not_live"]]
         /\ pc' = [pc EXCEPT ![w] = IF log[p][o].kind = "malformed"
                                    THEN "commit" ELSE "read"]
    /\ UNCHANGED <<dbVars, req, brokerVars, results, held, redisVars,
                   retried, left>>

(* Faulty: whether the auction is live is not asked again.                 *)
VerdictOf_StatusNotRead(w) ==
    LET m == Message(w) IN
    IF m.kind = "bid" THEN Judge(rows, m.auction, m.amount)
                      ELSE "auction_not_live"

VerdictOf(w) ==
    LET m == Message(w) IN
    IF m.kind = "bid" /\ status[m.auction] = "live"
    THEN Judge(rows, m.auction, m.amount)
    ELSE "auction_not_live"

(* Read the auction and its highest accepted bid, and judge.               *)
Read(w) ==
    /\ pc[w] = "read"
    /\ cur' = [cur EXCEPT ![w].verdict = VerdictOf(w)]
    /\ pc' = [pc EXCEPT ![w] = "insert"]
    /\ UNCHANGED <<dbVars, req, brokerVars, results, held, pos, redisVars,
                   retried, left>>

(* The row that records w's decision.                                      *)
RowOf(w) ==
    [partition |-> cur[w].partition, offset |-> cur[w].offset,
     auction |-> Message(w).auction, amount |-> Message(w).amount,
     verdict |-> cur[w].verdict, late |-> status[Message(w).auction] = "closed"]

(* Faulty: the table has no unique index.                                  *)
ViolatesIntegrity_NoUniqueIndex(w) == Message(w).kind = "orphan"

(* The unique index on (kafka_partition, kafka_offset) and the foreign key *)
(* to auctions.                                                            *)
ViolatesIntegrity(w) ==
    Decided(cur[w].partition, cur[w].offset) \/ Message(w).kind = "orphan"

(* The transaction commits.                                                *)
Insert(w) ==
    /\ pc[w] = "insert"
    /\ ~ViolatesIntegrity(w)
    /\ Decidable(Message(w))
    /\ rows' = rows \cup {RowOf(w)}
    /\ pc' = [pc EXCEPT ![w] = IF cur[w].verdict = "accepted"
                               THEN "cache" ELSE "announce"]
    /\ UNCHANGED <<status, req, brokerVars, results, held, pos, cur,
                   redisVars, retried, left>>

(* w gives its message up, logs some offsets of its partition, and polls.  *)
PassOver(w, logged) ==
    /\ pc' = [pc EXCEPT ![w] = "poll"]
    /\ cur' = [cur EXCEPT ![w] = NoJob]
    /\ retried' = [retried EXCEPT ![cur[w].partition] = @ \cup logged]
    /\ UNCHANGED <<status, req, brokerVars, results, held, pos, redisVars>>

(* Faulty: nothing is logged, or the offset of the message before.         *)
WillRetry_NotLogged(w) == PassOver(w, {})

WillRetry_LogsPosition(w) == PassOver(w, {cur[w].offset - 1})

(* The worker logs "will retry", does not commit, and takes the next       *)
(* message.                                                                *)
WillRetry(w) == PassOver(w, {cur[w].offset})

(* Faulty: a replayed decision is announced again.                         *)
AlreadyProcessed_AnnouncesAgain(w) ==
    /\ pc[w] = "insert"
    /\ ViolatesIntegrity(w)
    /\ pc' = [pc EXCEPT ![w] = IF Message(w).kind = "bid" THEN "announce"
                                                          ELSE "commit"]
    /\ UNCHANGED <<dbVars, req, brokerVars, results, held, pos, cur, redisVars,
                   retried, left>>

(* flush raises IntegrityError and decide_bid returns None; leaving        *)
(* session_scope then commits the session, which in SQLAlchemy 2.0 refuses *)
(* with PendingRollbackError, since its flush has failed.                  *)
AlreadyProcessed(w) ==
    /\ pc[w] = "insert"
    /\ ViolatesIntegrity(w)
    /\ WillRetry(w)
    /\ UNCHANGED <<rows, left>>

(* Faulty: the error is swallowed and the decision goes on.                *)
Unstorable_Swallowed(w) ==
    /\ pc[w] = "insert"
    /\ ~ViolatesIntegrity(w)
    /\ ~Decidable(Message(w))
    /\ pc' = [pc EXCEPT ![w] = IF cur[w].verdict = "accepted"
                               THEN "cache" ELSE "commit"]
    /\ UNCHANGED <<dbVars, req, brokerVars, results, held, pos, cur, redisVars,
                   retried, left>>

(* flush raises another error: the amount does not fit its column.         *)
Unstorable(w) ==
    /\ pc[w] = "insert"
    /\ ~ViolatesIntegrity(w)
    /\ ~Decidable(Message(w))
    /\ WillRetry(w)
    /\ UNCHANGED <<rows, left>>

(* The connection fails while the transaction commits: the row is there    *)
(* and session_scope raises.                                               *)
InsertUnknown(w) ==
    /\ pc[w] = "insert"
    /\ ~ViolatesIntegrity(w)
    /\ Decidable(Message(w))
    /\ Spend("error")
    /\ rows' = rows \cup {RowOf(w)}
    /\ WillRetry(w)

(* w's bid becomes the cached highest bid if wins holds, and w goes on.    *)
CacheStep(w, wins) ==
    /\ pc[w] = "cache"
    /\ cache' = IF wins THEN [cache EXCEPT ![Message(w).auction] = Message(w).amount]
                        ELSE cache
    /\ pc' = [pc EXCEPT ![w] = "announce"]
    /\ UNCHANGED <<dbVars, req, brokerVars, results, held, pos, cur, updates,
                   retried, left>>

Higher(w) == Message(w).amount > cache[Message(w).auction]

(* Faulty: a plain write.                                                  *)
UpdateCache_PlainWrite(w) == CacheStep(w, TRUE)

(* try_accept_bid: compare and set on the cached highest bid.              *)
UpdateCache(w) == CacheStep(w, Higher(w))

(* The BidResult of w's decision.                                          *)
ResultOf(w) == [offset |-> cur[w].offset, amount |-> Message(w).amount,
                verdict |-> cur[w].verdict]

(* Faulty: clients are told of accepted bids only.                         *)
Announce_AcceptedOnly(w) ==
    /\ pc[w] = "announce"
    /\ updates' = IF cur[w].verdict = "accepted"
                  THEN [updates EXCEPT ![Message(w).auction] = Append(@, ResultOf(w))]
                  ELSE updates
    /\ pc' = [pc EXCEPT ![w] = "publish"]
    /\ UNCHANGED <<dbVars, req, brokerVars, results, held, pos, cur, cache,
                   retried, left>>

(* publish_bid_update                                                      *)
Announce(w) ==
    /\ pc[w] = "announce"
    /\ updates' = [updates EXCEPT ![Message(w).auction] = Append(@, ResultOf(w))]
    /\ pc' = [pc EXCEPT ![w] = "publish"]
    /\ UNCHANGED <<dbVars, req, brokerVars, results, held, pos, cur, cache,
                   retried, left>>

(* publish_event on auction.bid_results                                    *)
PublishResult(w) ==
    /\ pc[w] = "publish"
    /\ results' = [results EXCEPT ![Message(w).auction] = Append(@, ResultOf(w))]
    /\ pc' = [pc EXCEPT ![w] = "commit"]
    /\ UNCHANGED <<dbVars, req, brokerVars, held, pos, cur, redisVars,
                   retried, left>>

(* A call of decide_bid raises without effect.                             *)
CallFails(w) ==
    /\ pc[w] \in {"read", "insert", "cache", "announce", "publish"}
    /\ Spend("error")
    /\ WillRetry(w)
    /\ UNCHANGED rows

(* consumer.commit(): the positions of every partition w holds.            *)
Commit(w) ==
    /\ pc[w] = "commit"
    /\ w \in synced
    /\ committed' = [p \in Partitions |->
                       IF p \in held[w] THEN pos[w][p] ELSE committed[p]]
    /\ pc' = [pc EXCEPT ![w] = "poll"]
    /\ cur' = [cur EXCEPT ![w] = NoJob]
    /\ UNCHANGED <<dbVars, req, log, owner, synced, results, held, pos,
                   redisVars, retried, left>>

(* The broker refuses the commit of a worker of an earlier generation.     *)
(* The call is outside the loop's try, so the process ends.                *)
CommitFenced(w) ==
    /\ pc[w] = "commit"
    /\ w \notin synced
    /\ Gone(w)
    /\ UNCHANGED left

(* The commit fails for another reason, with the same end.                 *)
CommitFails(w) ==
    /\ pc[w] = "commit"
    /\ Spend("error")
    /\ Gone(w)

(* Redis restarts without its data.                                        *)
FlushCache ==
    /\ Spend("flush")
    /\ cache' = [a \in Auctions |-> 0]
    /\ UNCHANGED <<dbVars, req, brokerVars, results, workerVars, updates,
                   retried>>

---------------------------------------------------------------------------

Turn(w) ==
    \/ Read(w) \/ Insert(w) \/ AlreadyProcessed(w) \/ Unstorable(w)
    \/ UpdateCache(w) \/ Announce(w) \/ PublishResult(w)
    \/ Commit(w) \/ CommitFenced(w)

Fault(w) ==
    \/ Crash(w) \/ PollFails(w)
    \/ InsertUnknown(w) \/ CallFails(w) \/ CommitFails(w)

Next ==
    \/ \E a \in Auctions, s \in Statuses : SetStatus(a, s)
    \/ \E c \in Clients, a \in Auctions, x \in Amounts : SubmitCheck(c, a, x)
    \/ \E c \in Clients : Publish(c) \/ PublishFails(c)
    \/ \E p \in Partitions, m \in ForeignMessages : PutForeign(p, m)
    \/ Recover \/ Rebalance \/ FlushCache
    \/ \E w \in Workers : Start(w) \/ Sync(w) \/ Turn(w) \/ Fault(w)
    \/ \E w \in Workers, p \in Partitions : Poll(w, p)

Spec == Init /\ [][Next]_vars

(* Kubernetes restarts a dead worker, the coordinator ends a generation    *)
(* that lost a member, members join, and the event loop of a running       *)
(* worker goes on with its one task.  Nothing is assumed of clients, of    *)
(* auction closing or of faults.                                           *)
Fairness ==
    /\ WF_vars(Recover)
    /\ \A w \in Workers :
         /\ WF_vars(Start(w)) /\ WF_vars(Sync(w)) /\ WF_vars(Turn(w))
         /\ \A p \in Partitions : WF_vars(Poll(w, p))

FairSpec == Spec /\ Fairness

---------------------------------------------------------------------------
(* Properties                                                              *)

TypeOK ==
    /\ status \in [Auctions -> Statuses]
    /\ rows \subseteq Rows
    /\ req \in [Clients -> BidMessages \cup {NoRequest}]
    /\ log \in [Partitions -> Seq(Messages)]
    /\ committed \in [Partitions -> Nat]
    /\ owner \in [Partitions -> Workers \cup {NoWorker}]
    /\ synced \subseteq Workers
    /\ pc \in [Workers -> Steps]
    /\ held \in [Workers -> SUBSET Partitions]
    /\ pos \in [Workers -> [Partitions -> Nat]]
    /\ cur \in [Workers -> Jobs \cup {NoJob}]
    /\ cache \in [Auctions -> Amounts \cup {0}]
    /\ retried \in [Partitions -> SUBSET (Nat \ {0})]
    /\ left \in [Faults -> Nat]

---------------------------------------------------------------------------
(* Properties of the ledger                                                *)

(* The unique index and the judgement make the pipeline an implementation  *)
(* of the serial arbiter: bids are decided in log order, against the bids  *)
(* accepted before them, whatever crashes and rebalances do                *)
(* (services/bid_service.py:127-171).  Holds while no call of a decision   *)
(* fails: a failed message is passed over and decided out of order.        *)
Arbiter == INSTANCE SerialArbiter WITH log <- log, rows <- rows, status <- status

SerialArbitration == Arbiter!ASpec

(* A bid that is recorded as accepted is higher than every bid accepted    *)
(* before it (services/bid_service.py:148-155).                            *)
AcceptedOutbids ==
    [][\A r \in rows' \ rows :
         r.verdict = "accepted" => Outbids(rows, r.auction, r.amount)]_vars

(* A committed offset passes over no bid that could be recorded            *)
(* (workers/auction_worker.py:14-18), while no call fails.                 *)
NoBidDropped ==
    \A p \in Partitions : \A o \in 1 .. committed[p] :
        Decidable(log[p][o]) => Decided(p, o)

(* With failing calls too, what a committed offset passes over is in the   *)
(* worker's log as "bid_processing_failed_will_retry"                      *)
(* (workers/auction_worker.py:66-75).                                      *)
DroppedOnlyIfLogged ==
    \A p \in Partitions : \A o \in 1 .. committed[p] :
        Decidable(log[p][o]) => Decided(p, o) \/ o \in retried[p]

(* Once an auction has closed, at most one more bid is accepted: the one   *)
(* whose decision had read "live" (services/bid_service.py:142-168 reads   *)
(* the status and writes the row without a lock between them).             *)
AtMostOneLateAcceptance ==
    \A r, s \in rows :
        /\ r.auction = s.auction
        /\ r.late /\ r.verdict = "accepted"
        /\ s.late /\ s.verdict = "accepted"
        => r = s

---------------------------------------------------------------------------
(* Properties of the cache and of the announcements                        *)

(* Every highest bid Redis shows is an accepted bid of the ledger: "every  *)
(* value it holds must be reconstructible from SQL Server"                 *)
(* (core/redis.py:3-4).                                                    *)
CacheBacked ==
    \A a \in Auctions : cache[a] # 0 =>
        \E r \in AcceptedIn(rows, a) : r.amount = cache[a]

(* A bid that is accepted and whose worker has gone on is in the cache,    *)
(* or a higher one is, although two generations of workers may write it    *)
(* in either order (core/redis.py:22-30).  Until a worker or a call fails  *)
(* or Redis restarts.                                                      *)
CacheCurrent ==
    /\ Unspent("restart") /\ Unspent("error") /\ Unspent("flush")
    => \A r \in rows :
         \/ r.verdict # "accepted"
         \/ cache[r.auction] >= r.amount
         \/ \E w \in Workers : /\ pc[w] = "cache"
                               /\ cur[w].partition = r.partition
                               /\ cur[w].offset = r.offset

(* Clients and consumers of auction.bid_results are told each decision at  *)
(* most once and as the ledger has it, replays included                    *)
(* (services/bid_service.py:166-195).                                      *)
AnnouncedOnceAsDecided ==
    \A a \in Auctions : \A s \in {updates[a], results[a]} :
        /\ \A i, j \in 1 .. Len(s) : s[i].offset = s[j].offset => i = j
        /\ \A i \in 1 .. Len(s) :
             \E r \in rows : /\ r.auction = a
                             /\ r.offset = s[i].offset
                             /\ r.amount = s[i].amount
                             /\ r.verdict = s[i].verdict

(* Clients see the decisions of an auction in the order of its log         *)
(* (workers/auction_worker.py:9-12), across crashes and replays.  Until a  *)
(* partition moves from a living worker or a call fails; stated for one    *)
(* partition, since a crash may move the others.                           *)
AnnouncedInOrder ==
    /\ Unspent("rebalance") /\ Unspent("error")
    => \A a \in Auctions : \A i, j \in 1 .. Len(updates[a]) :
         i < j => updates[a][i].offset < updates[a][j].offset

---------------------------------------------------------------------------
(* Liveness                                                                *)

InLog(p, o) == Len(log[p]) >= o

(* A bid in the log is decided, across crashes, replays and rebalances     *)
(* (workers/auction_worker.py:14-18).                                      *)
EventuallyDecided ==
    \A p \in Partitions : \A o \in 1 .. MaxLog :
        (InLog(p, o) /\ Decidable(log[p][o])) ~> Decided(p, o)

Announced(a, o) ==
    \A s \in {updates[a], results[a]} : \E i \in 1 .. Len(s) : s[i].offset = o

(* A decision reaches the clients and the consumers of the results when no *)
(* worker dies, also when the worker that decides has lost the partition   *)
(* and its commit is refused (services/bid_service.py:127-129,173-195).    *)
AnnouncedUnlessCrash ==
    \A a \in Auctions : \A o \in 1 .. MaxLog :
        (\E r \in rows : r.auction = a /\ r.offset = o)
            ~> (Announced(a, o) \/ ~Unspent("restart") \/ ~Unspent("error"))

============================================================================
