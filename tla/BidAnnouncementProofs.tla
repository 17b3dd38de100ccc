----------------------- MODULE BidAnnouncementProofs -----------------------
(***************************************************************************)
(* Theorems about what BidPipeline tells the world: the announcements on   *)
(* Redis and on auction.bid_results, and the cached highest bid.  For any  *)
(* number of auctions, partitions, workers, clients and messages.          *)
(***************************************************************************)
EXTENDS BidPipelineProofs

(* What is told of a decision.                                             *)
Told == [offset : Nat \ {0}, amount : Amounts, verdict : Verdicts]

Feeds == [Auctions -> Seq(Told)]

(* Worker w has recorded its decision and has not finished telling it.     *)
Telling(w) == pc[w] \in {"cache", "announce", "publish"}

(* No decision is in s twice; no decision of offset o is in s.             *)
Once(s) == \A i, j \in 1 .. Len(s) : s[i].offset = s[j].offset => i = j

Silent(s, o) == \A i \in 1 .. Len(s) : s[i].offset # o

(* What is in s stands in the ledger, under auction a.                     *)
AsDecided(ledger, s, a) ==
    \A i \in 1 .. Len(s) :
        \E r \in ledger : /\ r.auction = a
                          /\ r.offset = s[i].offset
                          /\ r.amount = s[i].amount
                          /\ r.verdict = s[i].verdict

Truthful(ledger, feed) ==
    \A a \in Auctions : Once(feed[a]) /\ AsDecided(ledger, feed[a], a)

(* A worker that has still to tell its decision finds it untold.           *)
Untold ==
    \A w \in Workers :
        /\ pc[w] \in {"cache", "announce"} =>
             Silent(updates[Message(w).auction], cur[w].offset)
        /\ Telling(w) => Silent(results[Message(w).auction], cur[w].offset)

(* A decision is told by one worker only.                                  *)
OneTeller ==
    \A v, w \in Workers :
        /\ Telling(v) /\ Telling(w)
        /\ cur[v].partition = cur[w].partition
        /\ cur[v].offset = cur[w].offset
        => v = w

TellInv ==
    /\ DeliveryInv
    /\ updates \in Feeds /\ results \in Feeds
    /\ Truthful(rows, updates) /\ Truthful(rows, results)
    /\ Untold /\ OneTeller

---------------------------------------------------------------------------
(* Preservation                                                            *)

LEMMA TruthGrows ==
    ASSUME NEW old, NEW new, old \subseteq new, NEW feed, Truthful(old, feed)
    PROVE  Truthful(new, feed)
  BY DEF Truthful, AsDecided

(* A step that announces nothing and lets no worker begin to.              *)
LEMMA TellFrame ==
    ASSUME TellInv, DeliveryInv', rows \subseteq rows',
           UNCHANGED <<updates, results>>,
           \A v \in Workers : Telling(v)' =>
             /\ Telling(v)
             /\ cur'[v] = cur[v] /\ Message(v)' = Message(v)
             /\ pc'[v] # "publish" => pc[v] # "publish"
    PROVE  TellInv'
  <1>1. Truthful(rows, updates)' /\ Truthful(rows, results)'
    BY TruthGrows DEF TellInv
  <1>2. Untold'
    <2> SUFFICES ASSUME NEW w \in Workers, Telling(w)'
                 PROVE  /\ pc'[w] \in {"cache", "announce"} =>
                             Silent(updates[Message(w).auction], cur[w].offset)
                        /\ Silent(results[Message(w).auction], cur[w].offset)
                        /\ Message(w)' = Message(w) /\ cur'[w] = cur[w]
      BY DEF Untold, Telling
    <2> QED BY DEF TellInv, Untold, Telling
  <1>3. OneTeller'
    BY DEF TellInv, OneTeller
  <1> QED BY <1>1, <1>2, <1>3 DEF TellInv

(* A step that leaves the workers' hands alone; the log may grow.          *)
LEMMA TellGrow ==
    ASSUME TellInv, DeliveryInv', UNCHANGED <<rows, updates, results, pc, cur>>,
           \A v \in Workers : Telling(v) => Message(v)' = Message(v)
    PROVE  TellInv'
  BY TellFrame DEF Telling

(* A step of worker w that does not begin to tell.                         *)
LEMMA TellMove ==
    ASSUME TellInv, DeliveryInv', NEW w \in Workers, NEW s \in Steps,
           pc' = [pc EXCEPT ![w] = s],
           \A v \in Workers \ {w} : cur'[v] = cur[v],
           rows \subseteq rows',
           UNCHANGED <<log, updates, results>>,
           \/ s \notin {"cache", "announce", "publish"}
           \/ pc[w] = "cache" /\ s = "announce" /\ cur' = cur
    PROVE  TellInv'
  <1>1. pc \in [Workers -> Steps]
    BY DEF TellInv, DeliveryInv, TypeInv, TypeOK
  <1>2. ASSUME NEW v \in Workers, Telling(v)'
        PROVE  /\ Telling(v)
               /\ cur'[v] = cur[v]
               /\ pc'[v] # "publish" => pc[v] # "publish"
    <2>1. CASE v = w
      BY <1>1, <1>2, <2>1 DEF Telling
    <2>2. CASE v # w
      BY <1>1, <1>2, <2>2 DEF Telling
    <2> QED BY <2>1, <2>2
  <1>3. \A v \in Workers : Telling(v)' => Message(v)' = Message(v)
    BY <1>2 DEF Message
  <1> QED BY <1>2, <1>3, TellFrame

(* Worker w adds its decision to a feed that has not got it.               *)
LEMMA TellAppend ==
    ASSUME TellInv, NEW w \in Workers, Telling(w), NEW feed \in Feeds,
           Truthful(rows, feed),
           Silent(feed[Message(w).auction], cur[w].offset)
    PROVE  LET new == [feed EXCEPT ![Message(w).auction] = Append(@, ResultOf(w))]
           IN  /\ new \in Feeds
               /\ Truthful(rows, new)
               /\ \A a \in Auctions : \A o :
                    /\ Silent(feed[a], o)
                    /\ a # Message(w).auction \/ o # cur[w].offset
                    => Silent(new[a], o)
  <1> DEFINE b == Message(w).auction
             e == ResultOf(w)
             new == [feed EXCEPT ![b] = Append(@, e)]
  <1>1. /\ cur[w] \in Jobs /\ b \in Auctions /\ Message(w).amount \in Amounts
    BY MessageType DEF TellInv, DeliveryInv, TypeInv, JobsInLog, Telling, Working
  <1>2. e \in Told /\ e.offset = cur[w].offset
    BY <1>1 DEF ResultOf, Told, Jobs
  <1>3. \E r \in rows : /\ r.auction = b /\ r.offset = e.offset
                        /\ r.amount = e.amount /\ r.verdict = e.verdict
    BY DEF TellInv, DeliveryInv, TellsLedger, Recorded, Telling, ResultOf
  <1>4. feed[b] \in Seq(Told)
    BY <1>1 DEF Feeds
  <1> DEFINE n == Len(feed[b])
  <1>5. /\ new[b] \in Seq(Told) /\ n \in Nat /\ Len(new[b]) = n + 1
        /\ \A i \in 1 .. n : new[b][i] = feed[b][i]
        /\ new[b][n + 1] = e
    BY <1>1, <1>2, <1>4, AppendGrows DEF Feeds
  <1>6. \A a \in Auctions : a # b => new[a] = feed[a]
    BY DEF Feeds
  <1>7. new \in Feeds
    BY <1>1, <1>2, <1>4 DEF Feeds
  <1>8. Once(new[b])
    <2> HIDE DEF e, new, b, n
    <2>1. \A i \in 1 .. n : feed[b][i].offset # e.offset
      BY <1>2 DEF Silent, b, n
    <2>2. \A i, j \in 1 .. n : feed[b][i].offset = feed[b][j].offset => i = j
      BY <1>1 DEF Truthful, Once, n
    <2>3. ASSUME NEW i \in 1 .. n + 1, NEW j \in 1 .. n + 1,
                 new[b][i].offset = new[b][j].offset
          PROVE  i = j
      BY <1>5, <2>1, <2>2, <2>3
    <2> QED BY <1>5, <2>3 DEF Once
  <1>9. AsDecided(rows, new[b], b)
    <2> HIDE DEF e, new, b, n
    <2>1. \A i \in 1 .. n : \E r \in rows :
            /\ r.auction = b /\ r.offset = new[b][i].offset
            /\ r.amount = new[b][i].amount /\ r.verdict = new[b][i].verdict
      BY <1>1, <1>5 DEF Truthful, AsDecided, n
    <2>2. \A i \in 1 .. n + 1 : i \in 1 .. n \/ i = n + 1
      BY <1>5
    <2> QED BY <1>3, <1>5, <2>1, <2>2 DEF AsDecided
  <1>10. Truthful(rows, new)
    <2> HIDE DEF e, new, b
    <2> QED BY <1>6, <1>8, <1>9 DEF Truthful
  <1>11. ASSUME NEW a \in Auctions, NEW o, Silent(feed[a], o),
                a # b \/ o # cur[w].offset
         PROVE  Silent(new[a], o)
    <2> HIDE DEF e, new
    <2>1. CASE a # b
      BY <1>6, <1>11, <2>1
    <2>2. CASE a = b
      <3>1. \A i \in 1 .. n + 1 : i \in 1 .. n \/ i = n + 1
        BY <1>5
      <3> HIDE DEF b, n
      <3> QED BY <1>2, <1>5, <1>11, <2>2, <3>1 DEF Silent, n
    <2> QED BY <2>1, <2>2
  <1> QED BY <1>7, <1>10, <1>11

LEMMA TellInit == Init => TellInv
  <1> SUFFICES ASSUME Init PROVE TellInv
    OBVIOUS
  <1>1. DeliveryInv
    BY DeliveryInit
  <1>2. updates \in Feeds /\ results \in Feeds
    BY DEF Init, Feeds
  <1>3. Truthful(rows, updates) /\ Truthful(rows, results)
    BY DEF Init, Truthful, Once, AsDecided
  <1> QED BY <1>1, <1>2, <1>3 DEF Init, TellInv, Untold, OneTeller, Telling

LEMMA TellStep == TellInv /\ [Next]_vars => TellInv'
  <1> SUFFICES ASSUME TellInv, [Next]_vars PROVE TellInv'
    OBVIOUS
  <1> USE DEF dbVars, brokerVars, workerVars, redisVars
  <1>t. /\ DeliveryInv /\ DeliveryInv' /\ TypeInv /\ TypeOK
        /\ pc \in [Workers -> Steps]
        /\ cur \in [Workers -> Jobs \cup {NoJob}]
    BY DeliveryStep DEF TellInv, DeliveryInv, TypeInv, TypeOK
  <1>a. ASSUME UNCHANGED <<rows, updates, results, pc, cur>>,
               NEW p \in Partitions, NEW m \in Messages,
               log' = [log EXCEPT ![p] = Append(@, m)]
        PROVE  TellInv'
    <2>1. \A q \in Partitions : \A o \in 1 .. Len(log[q]) : log'[q][o] = log[q][o]
      BY <1>t, <1>a, AppendGrows DEF TypeOK
    <2>2. \A v \in Workers : Telling(v) => Message(v)' = Message(v)
      BY <1>t, <1>a, <2>1 DEF TypeInv, JobsInLog, Jobs, Message, Working, Telling
    <2> QED BY <1>t, <1>a, <2>2, TellGrow
  <1>s. ASSUME NEW a \in Auctions, NEW s \in Statuses, SetStatus(a, s)
        PROVE  TellInv'
    BY <1>s, <1>t, TellGrow DEF SetStatus, Message
  <1>c. ASSUME NEW c \in Clients, NEW a \in Auctions, NEW x \in Amounts,
               SubmitCheck(c, a, x)
        PROVE  TellInv'
    BY <1>c, <1>t, TellGrow DEF SubmitCheck, Message
  <1>p. ASSUME NEW c \in Clients, Publish(c)
        PROVE  TellInv'
    <2>1. /\ PartitionOf[req[c].auction] \in Partitions
          /\ req[c] \in Messages
      BY <1>p, <1>t, KeyAssumption DEF Publish, TypeOK, BidMessages, Messages
    <2> QED BY <1>p, <1>a, <2>1 DEF Publish
  <1>q. ASSUME NEW c \in Clients, PublishFails(c)
        PROVE  TellInv'
    BY <1>q, <1>t, TellGrow DEF PublishFails, Message
  <1>f. ASSUME NEW p \in Partitions, NEW m \in ForeignMessages, PutForeign(p, m)
        PROVE  TellInv'
    BY <1>f, <1>a DEF PutForeign, Messages
  <1>b. ASSUME Recover \/ Rebalance \/ FlushCache PROVE TellInv'
    BY <1>b, <1>t, TellGrow DEF Recover, Rebalance, Assign, FlushCache, Message
  <1>g. ASSUME NEW w \in Workers, Gone(w) PROVE TellInv'
    BY <1>g, <1>t, TellMove DEF Gone, Steps
  <1>r. ASSUME NEW w \in Workers, WillRetry(w), rows \subseteq rows' PROVE TellInv'
    BY <1>r, <1>t, TellMove DEF WillRetry, PassOver, Steps
  <1>w. ASSUME NEW w \in Workers PROVE
               /\ Start(w) => TellInv'
               /\ Sync(w) => TellInv'
               /\ Turn(w) => TellInv'
               /\ Fault(w) => TellInv'
               /\ \A p \in Partitions : Poll(w, p) => TellInv'
    <2>1. ASSUME Start(w) PROVE TellInv'
      BY <1>t, <2>1, TellMove DEF Start, Steps
    <2>2. ASSUME Sync(w) PROVE TellInv'
      BY <1>t, <2>2, TellGrow DEF Sync, SyncAt, Message
    <2>3. ASSUME NEW p \in Partitions, Poll(w, p) PROVE TellInv'
      BY <1>t, <2>3, TellMove DEF Poll, Steps
    <2>4. ASSUME Read(w) PROVE TellInv'
      BY <1>t, <2>4, TellMove DEF Read, Steps
    <2>5. ASSUME Insert(w) PROVE TellInv'
      <3>1. /\ pc[w] = "insert" /\ rows \subseteq rows'
            /\ \E s \in {"cache", "announce"} : pc' = [pc EXCEPT ![w] = s]
            /\ ~Decided(cur[w].partition, cur[w].offset)
            /\ Decidable(Message(w))
            /\ UNCHANGED <<log, cur, updates, results>>
        BY <2>5 DEF Insert, ViolatesIntegrity
      <3>2. /\ Message(w).auction \in Auctions
            /\ PartitionOf[Message(w).auction] = cur[w].partition
        BY <1>t, <3>1, MessageType DEF Decidable, Working
      <3>3. \A s \in {updates[Message(w).auction], results[Message(w).auction]} :
               Silent(s, cur[w].offset)
        <4>1. ASSUME NEW s \in {updates[Message(w).auction], results[Message(w).auction]},
                     NEW i \in 1 .. Len(s), s[i].offset = cur[w].offset
              PROVE  FALSE
          <5>1. PICK r \in rows : r.auction = Message(w).auction /\ r.offset = cur[w].offset
            BY <3>2, <4>1 DEF TellInv, Truthful, AsDecided
          <5>2. r.partition = cur[w].partition
            BY <1>t, <3>2, <5>1 DEF TypeInv, Keyed
          <5> QED BY <3>1, <5>1, <5>2 DEF Decided, DecidedIn
        <4> QED BY <4>1 DEF Silent
      <3>4. \A v \in Workers : v # w => pc'[v] = pc[v]
        BY <1>t, <3>1
      <3>5. pc'[w] \in {"cache", "announce"}
        BY <1>t, <3>1
      <3>6. \A v \in Workers : Message(v)' = Message(v) /\ cur'[v] = cur[v]
        BY <3>1 DEF Message
      <3>7. Untold'
        <4>1. ASSUME NEW v \in Workers, Telling(v)'
              PROVE  /\ pc'[v] \in {"cache", "announce"} =>
                          Silent(updates[Message(v).auction], cur[v].offset)
                     /\ Silent(results[Message(v).auction], cur[v].offset)
          <5>1. CASE v = w
            BY <3>3, <5>1
          <5>2. CASE v # w
            BY <3>4, <4>1, <5>2 DEF TellInv, Untold, Telling
          <5> QED BY <5>1, <5>2
        <4> QED BY <3>1, <3>6, <4>1 DEF Untold, Telling
      <3>8. ASSUME NEW v \in Workers, v # w, Telling(v)',
                   cur[v].partition = cur[w].partition, cur[v].offset = cur[w].offset
            PROVE  FALSE
        BY <1>t, <3>1, <3>4, <3>8
           DEF DeliveryInv, TellsLedger, Recorded, Telling, Decided, DecidedIn
      <3>9. OneTeller'
        BY <3>4, <3>6, <3>8 DEF TellInv, OneTeller, Telling
      <3>10. Truthful(rows, updates)' /\ Truthful(rows, results)'
        BY <3>1, TruthGrows DEF TellInv
      <3> QED BY <1>t, <3>1, <3>7, <3>9, <3>10 DEF TellInv
    <2>6. ASSUME AlreadyProcessed(w) PROVE TellInv'
      BY <1>r, <2>6 DEF AlreadyProcessed
    <2>7. ASSUME Unstorable(w) PROVE TellInv'
      BY <1>r, <2>7 DEF Unstorable
    <2>8. ASSUME UpdateCache(w) PROVE TellInv'
      BY <1>t, <2>8, TellMove DEF UpdateCache, CacheStep, Steps
    <2>d. ASSUME Telling(w), NEW v \in Workers, v # w, Telling(v)
          PROVE  \/ Message(v).auction # Message(w).auction
                 \/ cur[v].offset # cur[w].offset
      <3>1. /\ Message(v).kind = "bid" /\ Message(w).kind = "bid"
            /\ pc[v] \in Working /\ pc[w] \in Working
        BY <1>t, <2>d DEF TypeInv, JobsInLog, Telling, Working
      <3>2. /\ cur[v].partition = PartitionOf[Message(v).auction]
            /\ cur[w].partition = PartitionOf[Message(w).auction]
        BY <1>t, <3>1, MessageType
      <3> QED BY <2>d, <3>2 DEF TellInv, OneTeller
    <2>e. ASSUME NEW v \in Workers, Telling(v) PROVE Message(v).auction \in Auctions
      BY <1>t, <2>e, MessageType DEF TypeInv, JobsInLog, Telling, Working
    <2>9. ASSUME Announce(w) PROVE TellInv'
      <3>1. /\ Telling(w) /\ pc[w] = "announce"
            /\ pc' = [pc EXCEPT ![w] = "publish"]
            /\ updates' = [updates EXCEPT ![Message(w).auction] = Append(@, ResultOf(w))]
            /\ UNCHANGED <<log, rows, cur, results>>
        BY <2>9 DEF Announce, Telling
      <3>2. /\ updates' \in Feeds /\ Truthful(rows, updates')
            /\ \A a \in Auctions : \A o :
                 /\ Silent(updates[a], o)
                 /\ a # Message(w).auction \/ o # cur[w].offset
                 => Silent(updates'[a], o)
        BY <3>1, TellAppend DEF TellInv, Untold
      <3>3. \A v \in Workers : Message(v)' = Message(v) /\ cur'[v] = cur[v]
        BY <3>1 DEF Message
      <3>4. \A v \in Workers : Telling(v)' => Telling(v)
        BY <1>t, <3>1 DEF Telling
      <3>5. ASSUME NEW v \in Workers, Telling(v)'
            PROVE  /\ pc'[v] \in {"cache", "announce"} =>
                         Silent(updates'[Message(v).auction], cur[v].offset)
                   /\ Silent(results[Message(v).auction], cur[v].offset)
        <4>1. Telling(v)
          BY <3>4, <3>5
        <4>2. Silent(results[Message(v).auction], cur[v].offset)
          BY <4>1 DEF TellInv, Untold
        <4>3. ASSUME pc'[v] \in {"cache", "announce"}
              PROVE  v # w /\ pc[v] \in {"cache", "announce"}
          BY <1>t, <3>1, <4>3
        <4>4. ASSUME pc'[v] \in {"cache", "announce"}
              PROVE  Silent(updates'[Message(v).auction], cur[v].offset)
          BY <2>d, <2>e, <3>1, <3>2, <4>1, <4>3, <4>4 DEF TellInv, Untold
        <4> QED BY <4>2, <4>4
      <3>6. Untold'
        BY <3>1, <3>3, <3>5 DEF Untold, Telling
      <3>7. OneTeller'
        BY <3>3, <3>4 DEF TellInv, OneTeller
      <3> QED BY <1>t, <3>1, <3>2, <3>6, <3>7 DEF TellInv
    <2>10. ASSUME PublishResult(w) PROVE TellInv'
      <3>1. /\ Telling(w) /\ pc[w] = "publish"
            /\ pc' = [pc EXCEPT ![w] = "commit"]
            /\ results' = [results EXCEPT ![Message(w).auction] = Append(@, ResultOf(w))]
            /\ UNCHANGED <<log, rows, cur, updates>>
        BY <2>10 DEF PublishResult, Telling
      <3>2. /\ results' \in Feeds /\ Truthful(rows, results')
            /\ \A a \in Auctions : \A o :
                 /\ Silent(results[a], o)
                 /\ a # Message(w).auction \/ o # cur[w].offset
                 => Silent(results'[a], o)
        BY <3>1, TellAppend DEF TellInv, Untold
      <3>3. \A v \in Workers : Message(v)' = Message(v) /\ cur'[v] = cur[v]
        BY <3>1 DEF Message
      <3>4. \A v \in Workers : Telling(v)' => Telling(v) /\ v # w /\ pc'[v] = pc[v]
        BY <1>t, <3>1 DEF Telling
      <3>5. ASSUME NEW v \in Workers, Telling(v)'
            PROVE  /\ pc'[v] \in {"cache", "announce"} =>
                         Silent(updates[Message(v).auction], cur[v].offset)
                   /\ Silent(results'[Message(v).auction], cur[v].offset)
        <4>1. Telling(v) /\ v # w /\ pc'[v] = pc[v]
          BY <3>4, <3>5
        <4>2. /\ Silent(results[Message(v).auction], cur[v].offset)
              /\ pc[v] \in {"cache", "announce"} =>
                   Silent(updates[Message(v).auction], cur[v].offset)
          BY <4>1 DEF TellInv, Untold
        <4> QED BY <2>d, <2>e, <3>1, <3>2, <4>1, <4>2
      <3>6. Untold'
        BY <3>1, <3>3, <3>5 DEF Untold, Telling
      <3>7. OneTeller'
        BY <3>3, <3>4 DEF TellInv, OneTeller
      <3> QED BY <1>t, <3>1, <3>2, <3>6, <3>7 DEF TellInv
    <2>11. ASSUME Commit(w) PROVE TellInv'
      BY <1>t, <2>11, TellMove DEF Commit, Steps
    <2>12. ASSUME CommitFenced(w) \/ Crash(w) \/ PollFails(w) \/ CommitFails(w)
           PROVE  TellInv'
      BY <1>g, <2>12 DEF CommitFenced, Crash, PollFails, CommitFails
    <2>13. ASSUME InsertUnknown(w) \/ CallFails(w) PROVE TellInv'
      BY <1>r, <2>13 DEF InsertUnknown, CallFails
    <2> QED
      BY <2>1, <2>2, <2>3, <2>4, <2>5, <2>6, <2>7, <2>8, <2>9, <2>10, <2>11,
         <2>12, <2>13 DEF Turn, Fault
  <1>u. CASE UNCHANGED vars
    BY <1>t, <1>u, TellGrow DEF vars, Message
  <1> QED
    BY <1>s, <1>c, <1>p, <1>q, <1>f, <1>b, <1>w, <1>u DEF Next

(* Clients and consumers of auction.bid_results are told each decision at  *)
(* most once and as the ledger has it, whatever crashes, moves, repeats or *)
(* fails (services/bid_service.py:166-195).                                *)
THEOREM ToldOnceAsDecided == Spec => []AnnouncedOnceAsDecided
  <1>1. TellInv => AnnouncedOnceAsDecided
    BY DEF TellInv, Truthful, Once, AsDecided, AnnouncedOnceAsDecided
  <1> QED
    BY <1>1, TellInit, TellStep, PTL DEF Spec

---------------------------------------------------------------------------
(* The cached highest bid                                                  *)

(* A bid is outdone, shown by the cache or about to be written there.      *)
Shown(r) ==
    \/ r.verdict # "accepted"
    \/ cache[r.auction] >= r.amount
    \/ \E w \in Workers : /\ pc[w] = "cache"
                          /\ cur[w].partition = r.partition
                          /\ cur[w].offset = r.offset

Undisturbed == Unspent("restart") /\ Unspent("error") /\ Unspent("flush")

Affordable == \A f \in Faults : left[f] <= Budget[f]

CurrentInv ==
    /\ DeliveryInv
    /\ Affordable
    /\ Undisturbed => \A r \in rows : Shown(r)

LEMMA CurrentInit == Init => CurrentInv
  BY DeliveryInit, BoundAssumption DEF Init, CurrentInv, Affordable, Faults

(* A step that writes neither rows nor cache and takes no worker away from *)
(* its update of the cache.                                                *)
LEMMA CurrentFrame ==
    ASSUME CurrentInv, Undisturbed, UNCHANGED <<rows, cache>>,
           \A v \in Workers : pc[v] = "cache" =>
             /\ pc'[v] = "cache"
             /\ cur'[v] = cur[v]
    PROVE  \A r \in rows' : Shown(r)'
  BY DEF CurrentInv, Shown

(* Such a step of worker w.                                                *)
LEMMA CurrentMove ==
    ASSUME CurrentInv, Undisturbed, NEW w \in Workers, pc[w] # "cache",
           UNCHANGED <<rows, cache>>,
           \A v \in Workers \ {w} : pc'[v] = pc[v] /\ cur'[v] = cur[v]
    PROVE  \A r \in rows' : Shown(r)'
  BY CurrentFrame

LEMMA CurrentStep == CurrentInv /\ [Next]_vars => CurrentInv'
  <1> SUFFICES ASSUME CurrentInv, [Next]_vars PROVE CurrentInv'
    OBVIOUS
  <1>t. /\ DeliveryInv /\ DeliveryInv' /\ TypeInv
        /\ pc \in [Workers -> Steps]
        /\ cur \in [Workers -> Jobs \cup {NoJob}]
        /\ cache \in [Auctions -> Amounts \cup {0}]
        /\ rows \subseteq Rows
    BY DeliveryStep DEF CurrentInv, DeliveryInv, TypeInv, TypeOK
  <1>l. /\ left \in [Faults -> Nat] /\ left' \in [Faults -> Nat]
        /\ \A f \in Faults : left'[f] <= left[f] /\ left[f] <= Budget[f]
        /\ Budget \in [Faults -> Nat]
    BY FaultsFall, BoundAssumption DEF CurrentInv, DeliveryInv, Affordable
  <1>a. Affordable'
    BY <1>l DEF Affordable
  <1> SUFFICES ASSUME Undisturbed' PROVE \A r \in rows' : Shown(r)'
    BY <1>t, <1>a DEF CurrentInv
  <1>d. /\ Undisturbed
        /\ \A f \in {"restart", "error", "flush"} : left'[f] = left[f]
    BY <1>l DEF Undisturbed, Unspent, Faults
  <1>n. \A f \in {"restart", "error", "flush"} : ~Spend(f)
    BY <1>d, <1>l DEF Spend, Faults
  <1> USE DEF dbVars, brokerVars, workerVars, redisVars
  <1>f. ASSUME UNCHANGED <<rows, cache, pc, cur>> PROVE \A r \in rows' : Shown(r)'
    BY <1>d, <1>f, CurrentFrame
  <1>g. ASSUME NEW w \in Workers, pc[w] # "cache", Gone(w) PROVE \A r \in rows' : Shown(r)'
    BY <1>d, <1>g, <1>t, CurrentMove DEF Gone
  <1>w. ASSUME NEW w \in Workers PROVE
               /\ Start(w) => \A r \in rows' : Shown(r)'
               /\ Sync(w) => \A r \in rows' : Shown(r)'
               /\ Turn(w) => \A r \in rows' : Shown(r)'
               /\ ~Fault(w)
               /\ \A p \in Partitions : Poll(w, p) => \A r \in rows' : Shown(r)'
    <2>1. ASSUME Start(w) PROVE \A r \in rows' : Shown(r)'
      BY <1>d, <1>t, <2>1, CurrentMove DEF Start
    <2>2. ASSUME Sync(w) PROVE \A r \in rows' : Shown(r)'
      BY <1>f, <2>2 DEF Sync, SyncAt
    <2>3. ASSUME NEW p \in Partitions, Poll(w, p) PROVE \A r \in rows' : Shown(r)'
      BY <1>d, <1>t, <2>3, CurrentMove DEF Poll
    <2>4. ASSUME Read(w) PROVE \A r \in rows' : Shown(r)'
      BY <1>d, <1>t, <2>4, CurrentMove DEF Read
    <2>5. ASSUME Insert(w) PROVE \A r \in rows' : Shown(r)'
      <3>1. /\ pc[w] = "insert"
            /\ pc' = [pc EXCEPT ![w] = IF cur[w].verdict = "accepted"
                                       THEN "cache" ELSE "announce"]
            /\ rows' = rows \cup {RowOf(w)}
            /\ UNCHANGED <<cur, cache>>
        BY <2>5 DEF Insert
      <3>2. \A v \in Workers : pc[v] = "cache" => pc'[v] = "cache"
        BY <1>t, <3>1
      <3>3. \A r \in rows : Shown(r)'
        BY <1>d, <3>1, <3>2 DEF CurrentInv, Shown
      <3>4. ASSUME NEW r, r = RowOf(w) PROVE Shown(r)'
        <4>1. /\ RowOf(w).partition = cur[w].partition
              /\ RowOf(w).offset = cur[w].offset
              /\ RowOf(w).verdict = cur[w].verdict
          BY SMTT(60) DEF RowOf
        <4>2. cur[w].verdict = "accepted" => pc'[w] = "cache"
          BY <1>t, <3>1
        <4>3. \/ r.verdict # "accepted"
              \/ /\ pc'[w] = "cache"
                 /\ cur'[w].partition = r.partition
                 /\ cur'[w].offset = r.offset
          BY <3>1, <3>4, <4>1, <4>2
        <4> QED BY <4>3 DEF Shown
      <3> QED BY <3>1, <3>3, <3>4
    <2>6. ASSUME AlreadyProcessed(w) \/ Unstorable(w) PROVE \A r \in rows' : Shown(r)'
      BY <1>d, <1>t, <2>6, CurrentMove
         DEF AlreadyProcessed, Unstorable, WillRetry, PassOver
    <2>7. ASSUME UpdateCache(w) PROVE \A r \in rows' : Shown(r)'
      <3> DEFINE a == Message(w).auction
                 x == Message(w).amount
      <3>1. /\ pc[w] = "cache"
            /\ cache' = IF x > cache[a] THEN [cache EXCEPT ![a] = x] ELSE cache
            /\ pc' = [pc EXCEPT ![w] = "announce"]
            /\ UNCHANGED <<rows, cur>>
        BY <2>7 DEF UpdateCache, CacheStep, Higher
      <3>2. a \in Auctions /\ x \in Amounts
        BY <1>t, <3>1, MessageType DEF TypeInv, JobsInLog, Working
      <3>3. \A b \in Auctions : cache[b] \in Nat
        <4>1. \A b \in Auctions : cache[b] \in Amounts \cup {0}
          BY <1>t
        <4>2. \A y \in Amounts \cup {0} : y \in Nat
          BY PriceAssumption
        <4> QED BY <4>1, <4>2
      <3>4. cache'[a] \in Nat /\ cache'[a] >= x /\ cache'[a] >= cache[a]
        <4> HIDE DEF a, x
        <4> QED BY <1>t, <3>1, <3>2, <3>3, PriceAssumption
      <3>5. \A b \in Auctions : b # a => cache'[b] = cache[b]
        <4> HIDE DEF a, x
        <4> QED BY <1>t, <3>1
      <3>6. ASSUME NEW r \in rows PROVE Shown(r)'
        <4>1. r.auction \in Auctions /\ r.amount \in Nat
          BY <1>t, PriceAssumption DEF Rows
        <4>2. CASE r.verdict # "accepted"
          BY <4>2 DEF Shown
        <4>3. CASE cache[r.auction] >= r.amount
          <5>1. cache'[r.auction] >= r.amount
            <6> HIDE DEF a, x
            <6> QED BY <3>3, <3>4, <3>5, <4>1, <4>3
          <5> QED BY <5>1 DEF Shown
        <4>4. ASSUME NEW v \in Workers, pc[v] = "cache",
                     cur[v].partition = r.partition, cur[v].offset = r.offset
              PROVE  Shown(r)'
          <5>1. CASE v = w
            <6>1. r.auction = a /\ r.amount = x
              BY <1>t, <3>1, <4>4, <5>1 DEF DeliveryInv, RowsFromLog, Message
            <6> HIDE DEF a, x
            <6> QED BY <3>4, <6>1 DEF Shown
          <5>2. CASE v # w
            <6>1. pc'[v] = "cache" /\ cur'[v] = cur[v]
              BY <1>t, <3>1, <4>4, <5>2
            <6> QED BY <4>4, <6>1 DEF Shown
          <5> QED BY <5>1, <5>2
        <4>5. Shown(r)
          BY <1>d DEF CurrentInv
        <4> QED BY <4>2, <4>3, <4>4, <4>5 DEF Shown
      <3> QED BY <3>1, <3>6
    <2>8. ASSUME Announce(w) \/ PublishResult(w) PROVE \A r \in rows' : Shown(r)'
      BY <1>d, <1>t, <2>8, CurrentMove DEF Announce, PublishResult
    <2>9. ASSUME Commit(w) PROVE \A r \in rows' : Shown(r)'
      BY <1>d, <1>t, <2>9, CurrentMove DEF Commit
    <2>10. ASSUME CommitFenced(w) PROVE \A r \in rows' : Shown(r)'
      BY <1>g, <2>10 DEF CommitFenced
    <2>11. ~Fault(w)
      BY <1>n DEF Fault, Crash, PollFails, InsertUnknown, CallFails, CommitFails
    <2> QED
      BY <2>1, <2>2, <2>3, <2>4, <2>5, <2>6, <2>7, <2>8, <2>9, <2>10, <2>11 DEF Turn
  <1>1. ~FlushCache
    BY <1>n DEF FlushCache
  <1>2. ASSUME Next, ~(\E w \in Workers : \/ Start(w) \/ Sync(w) \/ Turn(w) \/ Fault(w)
                                         \/ \E p \in Partitions : Poll(w, p))
        PROVE  \A r \in rows' : Shown(r)'
    <2>1. UNCHANGED <<rows, cache, pc, cur>>
      BY <1>1, <1>2 DEF Next, SetStatus, SubmitCheck, Publish, PublishFails,
                        PutForeign, Recover, Rebalance, Assign
    <2> QED BY <1>f, <2>1
  <1>3. CASE UNCHANGED vars
    BY <1>f, <1>3 DEF vars
  <1> QED BY <1>w, <1>2, <1>3

(* Until a worker or a call fails or Redis restarts, every accepted bid    *)
(* whose worker has gone on is in the cache or outdone there, although two *)
(* generations of workers may write it in either order                     *)
(* (core/redis.py:22-30).                                                  *)
THEOREM CacheIsCurrent == Spec => []CacheCurrent
  <1>1. CurrentInv => CacheCurrent
    BY DEF CurrentInv, Undisturbed, Shown, CacheCurrent
  <1> QED
    BY <1>1, CurrentInit, CurrentStep, PTL DEF Spec

---------------------------------------------------------------------------
(* The order of the announcements, in a topic of one partition             *)

(* What can be decided is decided before what comes later in the log.      *)
LogOrder ==
    \A r \in rows : \A e \in 1 .. r.offset - 1 :
        Decidable(log[r.partition][e]) => Decided(r.partition, e)

(* A decision that has still to be announced is the latest one.            *)
Newest ==
    \A w \in Workers : pc[w] \in {"cache", "announce"} =>
        \A r \in rows : r.partition = cur[w].partition => r.offset <= cur[w].offset

Rising(s) == \A i, j \in 1 .. Len(s) : i < j => s[i].offset < s[j].offset

OrderInv ==
    /\ LedgerInv /\ TellInv /\ Affordable /\ LogOrder
    /\ Unspent("rebalance") =>
         OwnersWork /\ Newest /\ \A a \in Auctions : Rising(updates[a])

LEMMA OrderInit == Budget["error"] = 0 /\ Init => OrderInv
  <1> SUFFICES ASSUME Budget["error"] = 0, Init PROVE OrderInv
    OBVIOUS
  <1>1. LedgerInv /\ TellInv
    BY LedgerInit, TellInit
  <1>2. Affordable /\ LogOrder /\ OwnersWork /\ Newest
    BY BoundAssumption
       DEF Init, Affordable, Faults, LogOrder, OwnersWork, Newest, Working
  <1>3. \A a \in Auctions : Rising(updates[a])
    BY DEF Init, Rising
  <1> QED BY <1>1, <1>2, <1>3 DEF OrderInv

(* Without errors a row comes from Insert alone.                           *)
LEMMA OrderRows ==
    ASSUME OrderInv, [Next]_vars
    PROVE  \/ rows' = rows
           \/ \E w \in Workers : Insert(w)
  <1>1. left["error"] = 0
    BY DEF OrderInv, LedgerInv, RetriedHarmless
  <1>2. \A w \in Workers : ~InsertUnknown(w)
    BY <1>1 DEF InsertUnknown, Spend
  <1>3. ASSUME NEW w \in Workers, Turn(w), ~Insert(w) PROVE rows' = rows
    BY <1>3 DEF Turn, Read, AlreadyProcessed, Unstorable, UpdateCache, CacheStep,
               Announce, PublishResult, Commit, CommitFenced, Gone, WillRetry,
               PassOver, dbVars
  <1>4. ASSUME NEW w \in Workers, Fault(w) PROVE rows' = rows
    BY <1>2, <1>4 DEF Fault, Crash, PollFails, CallFails, CommitFails, Gone, dbVars
  <1>5. ASSUME NEW w \in Workers, Start(w) \/ Sync(w) PROVE rows' = rows
    BY <1>5 DEF Start, Sync, SyncAt, dbVars
  <1> QED
    BY <1>3, <1>4, <1>5
       DEF Next, vars, dbVars, SetStatus, SubmitCheck, Publish, PublishFails,
           PutForeign, Recover, Rebalance, Assign, FlushCache, Poll

(* A step only adds to the logs.                                           *)
LEMMA LogsKept ==
    ASSUME TypeInv, [Next]_vars
    PROVE  \A p \in Partitions : \A o \in 1 .. Len(log[p]) : log'[p][o] = log[p][o]
  <1> USE DEF dbVars, brokerVars, workerVars, redisVars
  <1>1. log \in [Partitions -> Seq(Messages)]
    BY DEF TypeInv, TypeOK
  <1>2. ASSUME NEW p \in Partitions, NEW m \in Messages,
               log' = [log EXCEPT ![p] = Append(@, m)]
        PROVE  \A q \in Partitions : \A o \in 1 .. Len(log[q]) : log'[q][o] = log[q][o]
    BY <1>1, <1>2, AppendGrows
  <1>3. ASSUME NEW c \in Clients, Publish(c)
        PROVE  \E p \in Partitions, m \in Messages : log' = [log EXCEPT ![p] = Append(@, m)]
    BY <1>3, KeyAssumption DEF Publish, TypeInv, TypeOK, BidMessages, Messages
  <1>4. ASSUME NEW p \in Partitions, NEW m \in ForeignMessages, PutForeign(p, m)
        PROVE  \E q \in Partitions, n \in Messages : log' = [log EXCEPT ![q] = Append(@, n)]
    BY <1>4 DEF PutForeign, Messages
  <1>5. ASSUME NEW w \in Workers, Turn(w) \/ Fault(w) \/ Start(w) \/ Sync(w)
        PROVE  log' = log
    <2>1. Turn(w) => log' = log
      BY DEF Turn, Read, Insert, AlreadyProcessed, Unstorable, UpdateCache, CacheStep,
             Announce, PublishResult, Commit, CommitFenced, Gone, WillRetry, PassOver
    <2>2. Fault(w) => log' = log
      BY DEF Fault, Crash, PollFails, InsertUnknown, CallFails, CommitFails, Gone,
             WillRetry, PassOver
    <2>3. Start(w) \/ Sync(w) => log' = log
      BY DEF Start, Sync, SyncAt
    <2> QED BY <1>5, <2>1, <2>2, <2>3
  <1>6. \/ log' = log
        \/ \E p \in Partitions, m \in Messages : log' = [log EXCEPT ![p] = Append(@, m)]
    BY <1>3, <1>4, <1>5
       DEF Next, vars, SetStatus, SubmitCheck, PublishFails, Recover, Rebalance,
           Assign, FlushCache, Poll
  <1> QED BY <1>2, <1>6

LEMMA LogOrderStep ==
    ASSUME OrderInv, [Next]_vars
    PROVE  LogOrder'
  <1>t. /\ TypeInv /\ rows \subseteq Rows
        /\ \A r \in rows : r.offset \in 1 .. Len(log[r.partition])
    BY DEF OrderInv, TellInv, DeliveryInv, RowsFromLog, TypeInv, TypeOK
  <1>1. rows \subseteq rows'
    BY OrderRows DEF Insert
  <1>2. ASSUME NEW r \in rows, NEW e \in 1 .. r.offset - 1,
               Decidable(log'[r.partition][e])
        PROVE  Decided(r.partition, e)'
    <2>1. /\ r.partition \in Partitions /\ r.offset \in Nat
          /\ Len(log[r.partition]) \in Nat
          /\ r.offset \in 1 .. Len(log[r.partition])
      BY <1>t DEF Rows, TypeInv, TypeOK
    <2>2. e \in 1 .. Len(log[r.partition])
      BY <2>1
    <2>3. log'[r.partition][e] = log[r.partition][e]
      BY <1>t, <2>1, <2>2, LogsKept
    <2> QED BY <1>1, <1>2, <2>3, DecidedGrows DEF OrderInv, LogOrder
  <1>3. ASSUME NEW w \in Workers, Insert(w), NEW r, r = RowOf(w),
               NEW e \in 1 .. r.offset - 1, Decidable(log'[r.partition][e])
        PROVE  Decided(r.partition, e)'
    <2>1. r.partition = cur[w].partition /\ r.offset = cur[w].offset
      BY <1>3, SMTT(60) DEF RowOf
    <2>2. pc[w] = "insert" /\ log' = log
      BY <1>3 DEF Insert, brokerVars
    <2> QED BY <1>1, <1>3, <2>1, <2>2, DecidedGrows DEF OrderInv, LedgerInv, PrefixDecided
  <1>4. ASSUME NEW w \in Workers, Insert(w) PROVE rows' = rows \cup {RowOf(w)}
    BY <1>4 DEF Insert
  <1> QED BY <1>2, <1>3, <1>4, OrderRows DEF LogOrder

(* Only Announce writes to the updates of an auction.                      *)
LEMMA UpdatesKept ==
    ASSUME [Next]_vars
    PROVE  updates' = updates \/ \E w \in Workers : Announce(w)
  <1> USE DEF dbVars, brokerVars, workerVars, redisVars
  <1>1. ASSUME NEW w \in Workers, Turn(w), ~Announce(w) PROVE updates' = updates
    BY <1>1 DEF Turn, Read, Insert, AlreadyProcessed, Unstorable, UpdateCache,
                CacheStep, PublishResult, Commit, CommitFenced, Gone, WillRetry,
                PassOver
  <1>2. ASSUME NEW w \in Workers, Fault(w) PROVE updates' = updates
    BY <1>2 DEF Fault, Crash, PollFails, InsertUnknown, CallFails, CommitFails,
                Gone, WillRetry, PassOver
  <1>3. ASSUME NEW w \in Workers, Start(w) \/ Sync(w) PROVE updates' = updates
    BY <1>3 DEF Start, Sync, SyncAt
  <1> QED
    BY <1>1, <1>2, <1>3
       DEF Next, vars, SetStatus, SubmitCheck, Publish, PublishFails, PutForeign,
           Recover, Rebalance, Assign, FlushCache, Poll

(* A worker about to announce comes there by Insert alone.                 *)
LEMMA NewestKept ==
    ASSUME TypeInv, [Next]_vars, \A w \in Workers : ~Insert(w)
    PROVE  \A v \in Workers : pc'[v] \in {"cache", "announce"} =>
              pc[v] \in {"cache", "announce"} /\ cur'[v] = cur[v]
  <1> USE DEF dbVars, brokerVars, workerVars, redisVars
  <1> DEFINE Kept == \A v \in Workers : pc'[v] \in {"cache", "announce"} =>
                        pc[v] \in {"cache", "announce"} /\ cur'[v] = cur[v]
  <1>t. pc \in [Workers -> Steps] /\ cur \in [Workers -> Jobs \cup {NoJob}]
    BY DEF TypeInv, TypeOK
  <1>m. ASSUME NEW w \in Workers, NEW s, pc' = [pc EXCEPT ![w] = s],
               \A v \in Workers \ {w} : cur'[v] = cur[v],
               s \notin {"cache", "announce"}
        PROVE  Kept
    BY <1>m, <1>t
  <1>g. ASSUME NEW w \in Workers, Gone(w) PROVE Kept
    BY <1>g, <1>m, <1>t DEF Gone
  <1>r. ASSUME NEW w \in Workers, WillRetry(w) PROVE Kept
    BY <1>r, <1>m, <1>t DEF WillRetry, PassOver
  <1>1. ASSUME NEW w \in Workers, Turn(w) PROVE Kept
    <2>1. ASSUME Read(w) PROVE Kept
      BY <1>m, <1>t, <2>1 DEF Read
    <2>2. ASSUME UpdateCache(w) PROVE Kept
      BY <1>t, <2>2 DEF UpdateCache, CacheStep
    <2>3. ASSUME Announce(w) \/ PublishResult(w) PROVE Kept
      BY <1>m, <2>3 DEF Announce, PublishResult
    <2>4. ASSUME Commit(w) PROVE Kept
      BY <1>m, <1>t, <2>4 DEF Commit
    <2>5. ASSUME AlreadyProcessed(w) PROVE Kept
      BY <1>r, <2>5 DEF AlreadyProcessed
    <2>6. ASSUME Unstorable(w) \/ CommitFenced(w) PROVE Kept
      BY <1>g, <1>r, <2>6 DEF Unstorable, CommitFenced
    <2> QED BY <1>1, <2>1, <2>2, <2>3, <2>4, <2>5, <2>6 DEF Turn
  <1>2. ASSUME NEW w \in Workers, Fault(w) PROVE Kept
    BY <1>g, <1>r, <1>2 DEF Fault, Crash, PollFails, InsertUnknown, CallFails, CommitFails
  <1>3. ASSUME NEW w \in Workers, Start(w) PROVE Kept
    BY <1>m, <1>3 DEF Start
  <1>4. ASSUME NEW w \in Workers, NEW p \in Partitions, Poll(w, p) PROVE Kept
    <2>1. PICK s \in {"commit", "read"} : pc' = [pc EXCEPT ![w] = s]
      BY <1>4 DEF Poll
    <2>2. \A v \in Workers \ {w} : cur'[v] = cur[v]
      BY <1>4, <1>t DEF Poll
    <2> QED BY <1>m, <2>1, <2>2
  <1>5. ASSUME UNCHANGED <<pc, cur>> PROVE Kept
    BY <1>5
  <1>6. ASSUME \/ \E a \in Auctions, s \in Statuses : SetStatus(a, s)
               \/ \E c \in Clients, a \in Auctions, x \in Amounts : SubmitCheck(c, a, x)
               \/ \E c \in Clients : Publish(c) \/ PublishFails(c)
               \/ \E p \in Partitions, m \in ForeignMessages : PutForeign(p, m)
               \/ \E w \in Workers : Sync(w)
               \/ Recover \/ Rebalance \/ FlushCache \/ UNCHANGED vars
        PROVE  Kept
    BY <1>5, <1>6
       DEF SetStatus, SubmitCheck, Publish, PublishFails, PutForeign, FlushCache,
           Recover, Rebalance, Assign, Sync, SyncAt, vars
  <1> QED
    BY <1>1, <1>2, <1>3, <1>4, <1>6 DEF Next

LEMMA NewestStep ==
    ASSUME OrderInv, [Next]_vars, OwnersWork, Newest
    PROVE  Newest'
  <1>t. /\ TypeInv /\ DeliveryInv /\ pc \in [Workers -> Steps]
        /\ rows \subseteq Rows
    BY DEF OrderInv, TellInv, DeliveryInv, TypeInv, TypeOK
  <1>1. ASSUME NEW w \in Workers, Insert(w) PROVE Newest'
    <2>1. /\ pc[w] = "insert"
          /\ ~Decided(cur[w].partition, cur[w].offset)
          /\ Decidable(Message(w))
          /\ rows' = rows \cup {RowOf(w)}
          /\ \A v \in Workers : v # w => pc'[v] = pc[v]
          /\ cur' = cur
      BY <1>t, <1>1 DEF Insert, ViolatesIntegrity
    <2>2. /\ cur[w].partition \in Partitions /\ cur[w].offset \in Nat \ {0}
      BY <1>t, <2>1 DEF TypeInv, JobsInLog, Jobs, Working
    <2>3. ASSUME NEW r \in rows, r.partition = cur[w].partition
          PROVE  r.offset <= cur[w].offset
      <3>1. r.offset \in Nat
        BY <1>t DEF Rows
      <3>2. cur[w].offset \notin 1 .. r.offset - 1
        BY <2>1, <2>3 DEF OrderInv, LogOrder, Message
      <3> QED BY <2>2, <3>1, <3>2
    <2>4. ASSUME NEW r, r = RowOf(w) PROVE r.offset <= cur[w].offset
      <3>1. r.offset = cur[w].offset
        BY <2>4, SMTT(60) DEF RowOf
      <3> QED BY <2>2, <3>1
    <2>5. ASSUME NEW v \in Workers, v # w PROVE pc'[v] \notin {"cache", "announce"}
      <3>1. owner[cur[w].partition] = w
        BY <2>1, <2>2 DEF OwnersWork, Working
      <3>2. pc[v] \in Working => owner[cur[w].partition] = v
        BY <2>2 DEF OwnersWork
      <3> QED BY <2>1, <2>5, <3>1, <3>2 DEF Working
    <2> QED BY <2>1, <2>3, <2>4, <2>5 DEF Newest
  <1>2. ASSUME \A w \in Workers : ~Insert(w) PROVE Newest'
    <2>1. rows' = rows
      BY <1>2, OrderRows
    <2>2. \A v \in Workers : pc'[v] \in {"cache", "announce"} =>
             pc[v] \in {"cache", "announce"} /\ cur'[v] = cur[v]
      BY <1>2, <1>t, NewestKept
    <2> QED BY <2>1, <2>2 DEF Newest
  <1> QED BY <1>1, <1>2

LEMMA RisingStep ==
    ASSUME OrderInv, [Next]_vars, Newest, \A a \in Auctions : Rising(updates[a])
    PROVE  \A a \in Auctions : Rising(updates'[a])
  <1>1. ASSUME NEW w \in Workers, Announce(w)
        PROVE  \A a \in Auctions : Rising(updates'[a])
    <2> DEFINE b == Message(w).auction
               e == ResultOf(w)
               old == updates[b]
               n == Len(old)
    <2>1. /\ pc[w] = "announce"
          /\ updates' = [updates EXCEPT ![b] = Append(@, e)]
      BY <1>1 DEF Announce
    <2>2. /\ TypeInv /\ Keyed /\ updates \in Feeds /\ rows \subseteq Rows
      BY DEF OrderInv, TellInv, DeliveryInv, TypeInv, TypeOK
    <2>3. /\ b \in Auctions /\ Message(w).amount \in Amounts
          /\ cur[w] \in Jobs
          /\ PartitionOf[b] = cur[w].partition
      BY <2>1, <2>2, MessageType DEF TypeInv, JobsInLog, Working
    <2>4. e \in Told /\ e.offset = cur[w].offset
      BY <2>3 DEF ResultOf, Told, Jobs
    <2>5. old \in Seq(Told)
      BY <2>2, <2>3 DEF Feeds
    <2>6. /\ n \in Nat /\ Len(updates'[b]) = n + 1
          /\ \A i \in 1 .. n : updates'[b][i] = old[i]
          /\ updates'[b][n + 1] = e
      BY <2>1, <2>2, <2>3, <2>4, <2>5, AppendGrows DEF Feeds
    <2>7. \A a \in Auctions : a # b => updates'[a] = updates[a]
      BY <2>1, <2>2 DEF Feeds
    <2>8. ASSUME NEW i \in 1 .. n PROVE old[i].offset < e.offset
      <3>1. PICK r \in rows : r.auction = b /\ r.offset = old[i].offset
        BY <2>3, <2>8 DEF OrderInv, TellInv, Truthful, AsDecided
      <3>2. r.partition = cur[w].partition
        BY <2>2, <2>3, <3>1 DEF Keyed
      <3>3. r.offset <= cur[w].offset
        BY <2>1, <3>2 DEF Newest
      <3>4. old[i].offset # cur[w].offset
        BY <2>1, <2>8 DEF OrderInv, TellInv, Untold, Silent
      <3>5. r.offset \in Nat /\ cur[w].offset \in Nat
        BY <2>2, <2>3 DEF Rows, Jobs
      <3> HIDE DEF old, e
      <3> QED BY <2>4, <3>1, <3>3, <3>4, <3>5
    <2>9. Rising(updates'[b])
      <3>1. \A i, j \in 1 .. n : i < j => old[i].offset < old[j].offset
        BY <2>3 DEF Rising
      <3> HIDE DEF old, e, n, b
      <3>2. ASSUME NEW i \in 1 .. n + 1, NEW j \in 1 .. n + 1, i < j
            PROVE  updates'[b][i].offset < updates'[b][j].offset
        <4>1. i \in 1 .. n
          BY <2>6, <3>2
        <4>2. CASE j \in 1 .. n
          BY <2>6, <3>1, <3>2, <4>1, <4>2
        <4>3. CASE j = n + 1
          BY <2>6, <2>8, <4>1, <4>3
        <4> QED BY <2>6, <4>2, <4>3
      <3> QED BY <2>6, <3>2 DEF Rising
    <2> HIDE DEF b
    <2> QED BY <2>7, <2>9
  <1> QED BY <1>1, UpdatesKept

LEMMA OrderStep ==
    (\E p : Partitions = {p}) /\ OrderInv /\ [Next]_vars => OrderInv'
  <1> SUFFICES ASSUME NEW part, Partitions = {part}, OrderInv, [Next]_vars
               PROVE  OrderInv'
    OBVIOUS
  <1>t. DeliveryInv /\ TypeInv
    BY DEF OrderInv, TellInv, DeliveryInv
  <1>1. LedgerInv' /\ TellInv' /\ LogOrder'
    BY LedgerStep, TellStep, LogOrderStep DEF OrderInv
  <1>2. /\ left \in [Faults -> Nat] /\ left' \in [Faults -> Nat]
        /\ \A f \in Faults : left'[f] <= left[f] /\ left[f] <= Budget[f]
        /\ Budget \in [Faults -> Nat]
    BY <1>t, FaultsFall, BoundAssumption DEF OrderInv, Affordable
  <1>3. Affordable'
    BY <1>2 DEF Affordable
  <1>4. ASSUME Unspent("rebalance")'
        PROVE  OwnersWork' /\ Newest' /\ (\A a \in Auctions : Rising(updates[a]))'
    <2>1. Unspent("rebalance") /\ left'["rebalance"] = left["rebalance"]
      BY <1>2, <1>4 DEF Unspent, Faults
    <2>2. ~Rebalance
      BY <1>2, <2>1 DEF Rebalance, Spend, Faults
    <2>3. OwnersWork /\ Newest /\ \A a \in Auctions : Rising(updates[a])
      BY <2>1 DEF OrderInv
    <2> QED BY <1>t, <2>2, <2>3, OwnersWorkStep, NewestStep, RisingStep
  <1> QED BY <1>1, <1>3, <1>4 DEF OrderInv

(* In a topic of one partition and while no call of a decision fails,      *)
(* clients see the decisions of an auction in the order of its log         *)
(* (workers/auction_worker.py:9-12), across crashes and replays, until the *)
(* partition moves away from a living worker.                              *)
THEOREM ToldInOrder ==
    (\E p : Partitions = {p}) /\ Budget["error"] = 0 =>
      (Spec => []AnnouncedInOrder)
  <1> SUFFICES ASSUME \E p : Partitions = {p}, Budget["error"] = 0
               PROVE  Spec => []AnnouncedInOrder
    OBVIOUS
  <1>1. Init => OrderInv
    BY OrderInit
  <1>2. OrderInv /\ [Next]_vars => OrderInv'
    BY OrderStep
  <1>3. OrderInv => AnnouncedInOrder
    BY DEF OrderInv, Rising, AnnouncedInOrder
  <1> QED
    BY <1>1, <1>2, <1>3, PTL DEF Spec

============================================================================
