------------------------- MODULE AuctionRoomsProofs -------------------------
(***************************************************************************)
(* Theorems about AuctionRooms, for any number of rooms, sockets, updates  *)
(* and Redis failures.                                                     *)
(***************************************************************************)
EXTENDS AuctionRooms, SequenceTheorems, TLAPS

(* The variables that say which tasks exist and who relays.                *)
RoomTypes ==
    /\ sock \in [Sockets -> SocketStates]
    /\ conns \in [Rooms -> SUBSET Sockets]
    /\ relay \in [Rooms -> Tasks \cup {NoTask}]
    /\ task \in [Tasks -> TaskStates]
    /\ cancelled \subseteq Tasks

(* A task exists only after the connect it is named after.                 *)
TaskAfterConnect == \A t \in Tasks : task[t] # "none" => sock[t] # "idle"

(* A registered task was created for the room it is registered under, and  *)
(* a task that is asked to stop was created.                               *)
Registered ==
    /\ \A a \in Rooms : relay[a] # NoTask =>
         RoomOf[relay[a]] = a /\ task[relay[a]] # "none"
    /\ \A t \in cancelled : task[t] # "none"

RelayInv == RoomTypes /\ TaskAfterConnect /\ Registered /\ OneRelayPerRoom

LEMMA RelayInit == Init => RelayInv
  BY RoomAssumption
     DEF Init, RelayInv, RoomTypes, TaskAfterConnect, Registered,
         OneRelayPerRoom, Relaying, SocketStates, TaskStates, Tasks

(* Leaving a room takes its relay's registration and its right to relay at *)
(* the same time.                                                          *)
LEMMA LeaveKeepsOneRelay ==
    ASSUME RelayInv, NEW a \in Rooms, NEW S, Leave(a, S),
           NEW t \in Tasks, RoomOf[t] = a \/ RoomOf[t] \in Rooms,
           relay[RoomOf[t]] = t, t \notin cancelled'
    PROVE  relay'[RoomOf[t]] = t
  BY DEF RelayInv, RoomTypes, Leave

LEMMA LeaveTypes ==
    ASSUME RelayInv, NEW a \in Rooms, NEW S, Leave(a, S),
           \A t \in Tasks : task[t] # "none" => task'[t] # "none"
    PROVE  /\ conns' \in [Rooms -> SUBSET Sockets]
           /\ relay' \in [Rooms -> Tasks \cup {NoTask}]
           /\ cancelled' \subseteq Tasks
           /\ cancelled \subseteq cancelled'
           /\ Registered'
  BY RoomAssumption DEF RelayInv, RoomTypes, Registered, Leave, Tasks

(* A task that stops relays no more.                                       *)
LEMMA StopKeepsInv ==
    ASSUME RelayInv, NEW t \in Tasks, NEW state \in {"closing", "done"},
           Stop(t, state), task[t] # "none"
    PROVE  RelayInv'
  BY DEF RelayInv, RoomTypes, TaskAfterConnect, Registered, OneRelayPerRoom,
         Relaying, Stop, TaskStates, Tasks

LEMMA RelayStep == RelayInv /\ [Next]_vars => RelayInv'
  <1> SUFFICES ASSUME RelayInv, [Next]_vars PROVE RelayInv'
    OBVIOUS
  <1> USE RoomAssumption DEF Tasks
  <1>p. ASSUME NEW a \in Rooms, PublishUpdate(a) PROVE RelayInv'
    BY <1>p DEF PublishUpdate, Broadcast, RelayInv, RoomTypes, TaskAfterConnect,
                Registered, OneRelayPerRoom, Relaying
  <1>c. ASSUME NEW s \in Sockets, Connect(s) PROVE RelayInv'
    <2>1. /\ task[s] = "none" /\ RoomOf[s] \in Rooms
          /\ sock' = [sock EXCEPT ![s] = "open"]
          /\ conns' \in [Rooms -> SUBSET Sockets]
          /\ cancelled' = cancelled
      BY <1>c DEF Connect, Join, RelayInv, RoomTypes, TaskAfterConnect
    <2>2. CASE relay[RoomOf[s]] = NoTask
      <3>1. /\ relay' = [relay EXCEPT ![RoomOf[s]] = s]
            /\ task' = [task EXCEPT ![s] = "new"]
        BY <1>c, <2>2 DEF Connect, Join
      <3>2. RoomTypes' /\ TaskAfterConnect' /\ Registered'
        BY <2>1, <3>1 DEF RelayInv, RoomTypes, TaskAfterConnect, Registered,
                          SocketStates, TaskStates
      <3>3. OneRelayPerRoom'
        BY <2>1, <2>2, <3>1 DEF RelayInv, RoomTypes, OneRelayPerRoom, Relaying
      <3> QED BY <3>2, <3>3 DEF RelayInv
    <2>3. CASE relay[RoomOf[s]] # NoTask
      BY <1>c, <2>1, <2>3 DEF Connect, Join, RelayInv, RoomTypes, TaskAfterConnect,
                              Registered, OneRelayPerRoom, Relaying, SocketStates
    <2> QED BY <2>2, <2>3
  <1>v. ASSUME NEW s \in Sockets, Vanish(s) PROVE RelayInv'
    BY <1>v DEF Vanish, tasks, RelayInv, RoomTypes, TaskAfterConnect,
                Registered, OneRelayPerRoom, Relaying, SocketStates
  <1>h. ASSUME NEW s \in Sockets, HandlerEnds(s) PROVE RelayInv'
    <2>1. /\ Leave(RoomOf[s], {s}) /\ RoomOf[s] \in Rooms
          /\ sock' = [sock EXCEPT ![s] = "left"] /\ task' = task
      BY <1>h DEF HandlerEnds
    <2>2. RoomTypes' /\ TaskAfterConnect' /\ Registered'
      BY <2>1, LeaveTypes DEF RelayInv, RoomTypes, TaskAfterConnect, SocketStates
    <2>3. OneRelayPerRoom'
      <3>1. ASSUME NEW t \in Tasks, Relaying(t)' PROVE relay'[RoomOf[t]] = t
        <4>1. Relaying(t) /\ t \notin cancelled'
          BY <2>1, <3>1, LeaveTypes DEF Relaying
        <4> QED BY <2>1, <4>1, LeaveKeepsOneRelay DEF RelayInv, OneRelayPerRoom
      <3> QED BY <3>1 DEF OneRelayPerRoom
    <2> QED BY <2>2, <2>3 DEF RelayInv
  <1>t. ASSUME NEW t \in Tasks PROVE
               /\ Relay(t) => RelayInv'
               /\ RedisFails(t) => RelayInv'
    <2>1. ASSUME Begin(t) \/ Subscribe(t) \/ Take(t) PROVE RelayInv'
      <3>1. /\ UNCHANGED <<sock, conns, relay, cancelled>>
            /\ Relaying(t)
            /\ \/ task' = task
               \/ \E st \in {"subscribing", "listening", "sending"} :
                    task' = [task EXCEPT ![t] = st]
        BY <2>1 DEF Begin, Subscribe, Take, Relaying
      <3> QED BY <3>1 DEF RelayInv, RoomTypes, TaskAfterConnect, Registered,
                          OneRelayPerRoom, Relaying, TaskStates
    <2>2. ASSUME NEW s \in Sockets, NEW ok \in BOOLEAN, Send(t, s, ok)
          PROVE  RelayInv'
      <3>1. Relaying(t) /\ sock' = sock /\ RoomOf[t] \in Rooms
        BY <2>2 DEF Send, Served, Relaying
      <3>2. CASE UNCHANGED <<conns, relay, cancelled, task>>
        BY <3>1, <3>2 DEF RelayInv, RoomTypes, TaskAfterConnect, Registered,
                          OneRelayPerRoom, Relaying
      <3>3. ASSUME NEW S, Leave(RoomOf[t], S),
                   task' = [task EXCEPT ![t] = "listening"]
            PROVE  RelayInv'
        <4>1. RoomTypes' /\ TaskAfterConnect' /\ Registered'
          BY <3>1, <3>3, LeaveTypes
             DEF RelayInv, RoomTypes, TaskAfterConnect, TaskStates, Relaying
        <4>2. ASSUME NEW u \in Tasks, Relaying(u)' PROVE relay'[RoomOf[u]] = u
          <5>1. Relaying(u) /\ u \notin cancelled'
            BY <3>1, <3>3, <4>2, LeaveTypes DEF Relaying, RelayInv, RoomTypes
          <5> QED BY <3>1, <3>3, <5>1, LeaveKeepsOneRelay
                  DEF RelayInv, OneRelayPerRoom
        <4> QED BY <4>1, <4>2 DEF RelayInv, OneRelayPerRoom
      <3> QED BY <2>2, <3>2, <3>3 DEF Send, Served
    <2>3. ASSUME Cancelled(t) PROVE RelayInv'
      <3>1. task[t] # "none"
        BY <2>3 DEF Cancelled, RelayInv, Registered
      <3> QED BY <2>3, <3>1, StopKeepsInv DEF Cancelled
    <2>4. ASSUME Close(t) PROVE RelayInv'
      BY <2>4, StopKeepsInv DEF Close
    <2>5. ASSUME RedisFails(t) PROVE RelayInv'
      BY <2>5, StopKeepsInv DEF RedisFails
    <2> QED BY <2>1, <2>2, <2>3, <2>4, <2>5 DEF Relay
  <1>u. CASE UNCHANGED vars
    BY <1>u DEF vars, tasks, RelayInv, RoomTypes, TaskAfterConnect, Registered,
                OneRelayPerRoom, Relaying
  <1> QED
    BY <1>p, <1>c, <1>v, <1>h, <1>t, <1>u DEF Next

(* However clients come and go and Redis fails, a room never has two tasks *)
(* that relay, and the one it has is the one registered                    *)
(* (ws/gateway.py:39-58).                                                  *)
THEOREM OneRelay == Spec => []OneRelayPerRoom
<1>1. RelayInv => OneRelayPerRoom
  BY DEF RelayInv
<1> QED
  BY <1>1, RelayInit, RelayStep, PTL DEF Spec

---------------------------------------------------------------------------
(* The relay of an occupied room                                           *)

(* A room has a registered relay while somebody is in it, and until Redis  *)
(* fails that relay is at work.                                            *)
Occupied(a) ==
    /\ conns[a] # {} <=> relay[a] # NoTask
    /\ conns[a] # {} /\ faults = RedisFaults => Relaying(relay[a])

AliveInv ==
    /\ RelayInv
    /\ faults \in Nat /\ faults <= RedisFaults
    /\ \A a \in Rooms : Occupied(a)

LEMMA AliveInit == Init => AliveInv
  BY RelayInit, RoomAssumption DEF Init, AliveInv, Occupied

(* A room that keeps a member keeps its relay, and so does every other.    *)
LEMMA LeaveKeepsOccupied ==
    ASSUME AliveInv, RelayInv', NEW a \in Rooms, NEW S, Leave(a, S),
           faults' = faults,
           \A t \in Tasks : Relaying(t) => task'[t] \in
               {"new", "subscribing", "listening", "sending"}
    PROVE  \A b \in Rooms : Occupied(b)'
<1> SUFFICES ASSUME NEW b \in Rooms PROVE Occupied(b)'
  OBVIOUS
<1>1. RelayInv /\ Occupied(b)
  BY DEF AliveInv
<1>2. conns'[b] # {} <=> relay'[b] # NoTask
  BY <1>1 DEF Leave, RelayInv, RoomTypes, Occupied
<1>3. ASSUME conns'[b] # {}
      PROVE  /\ conns[b] # {} /\ relay'[b] = relay[b] /\ relay[b] # NoTask
             /\ relay[b] \in Tasks /\ RoomOf[relay[b]] = b
  <2>1. conns[b] # {} /\ relay'[b] = relay[b]
    BY <1>1, <1>3 DEF Leave, RelayInv, RoomTypes
  <2> QED
    BY <1>1, <2>1 DEF Occupied, RelayInv, RoomTypes, Registered
<1>4. ASSUME conns'[b] # {}, relay[b] \in cancelled'
      PROVE  relay[b] \in cancelled
  BY <1>1, <1>3, <1>4 DEF Leave, RelayInv, RoomTypes, Registered
<1> QED
  BY <1>1, <1>2, <1>3, <1>4 DEF Occupied, Relaying

(* A task that ends was asked to, or Redis has failed.                     *)
LEMMA StopKeepsOccupied ==
    ASSUME AliveInv, NEW t \in Tasks, NEW state, Stop(t, state),
           ~Relaying(t) \/ faults' < faults, faults' <= faults, faults' \in Nat
    PROVE  \A a \in Rooms : Occupied(a)'
<1> SUFFICES ASSUME NEW a \in Rooms PROVE Occupied(a)'
  OBVIOUS
<1>1. /\ conns'[a] = conns[a] /\ relay'[a] = relay[a]
      /\ conns[a] # {} <=> relay[a] # NoTask
      /\ conns[a] # {} /\ faults = RedisFaults => Relaying(relay[a])
      /\ relay[a] # NoTask => relay[a] \in Tasks
      /\ faults \in Nat /\ faults <= RedisFaults /\ RedisFaults \in Nat
  BY RoomAssumption DEF AliveInv, Occupied, Stop, RelayInv, RoomTypes
<1>2. ASSUME faults' = RedisFaults, conns[a] # {}
      PROVE  Relaying(relay[a])'
  <2>1. faults = RedisFaults /\ ~Relaying(t) /\ relay[a] # t
    BY <1>1, <1>2
  <2> QED
    BY <1>1, <1>2, <2>1 DEF Stop, Relaying, AliveInv, RelayInv, RoomTypes
<1> QED
  BY <1>1, <1>2 DEF Occupied

LEMMA AliveStep == AliveInv /\ [Next]_vars => AliveInv'
<1> SUFFICES ASSUME AliveInv, [Next]_vars PROVE AliveInv'
  OBVIOUS
<1>0. RelayInv' /\ RelayInv /\ \A a \in Rooms : Occupied(a)
  BY RelayStep DEF AliveInv
<1>2. ASSUME UNCHANGED <<conns, relay, cancelled, faults>>,
             \A t \in Tasks : Relaying(t) => task'[t] \in
               {"new", "subscribing", "listening", "sending"}
      PROVE  \A a \in Rooms : Occupied(a)'
  BY <1>0, <1>2 DEF Occupied, Relaying, RelayInv, RoomTypes
<1>3. ASSUME UNCHANGED vars
      PROVE  \A a \in Rooms : Occupied(a)'
  BY <1>2, <1>3 DEF vars, tasks, Relaying
<1>4. ASSUME NEW a \in Rooms, PublishUpdate(a)
      PROVE  \A b \in Rooms : Occupied(b)'
  BY <1>2, <1>4 DEF PublishUpdate, Broadcast, Relaying
<1>5. ASSUME NEW s \in Sockets, Connect(s)
      PROVE  \A b \in Rooms : Occupied(b)'
  <2> DEFINE a == RoomOf[s]
  <2>1. /\ a \in Rooms /\ task[s] = "none" /\ s \notin cancelled /\ s # NoTask
        /\ conns' = [conns EXCEPT ![a] = @ \cup {s}]
        /\ UNCHANGED <<cancelled, faults>>
    BY <1>0, <1>5, RoomAssumption
       DEF Connect, Join, RelayInv, RoomTypes, TaskAfterConnect, Registered, Tasks
  <2>2. \/ /\ relay[a] = NoTask /\ relay' = [relay EXCEPT ![a] = s]
           /\ task' = [task EXCEPT ![s] = "new"]
        \/ relay[a] # NoTask /\ relay' = relay /\ task' = task
    BY <1>5 DEF Connect, Join
  <2>3. \A b \in Rooms : relay[b] # NoTask => relay[b] # s /\ relay[b] \in Tasks
    BY <1>0, <2>1 DEF RelayInv, RoomTypes, Registered
  <2> HIDE DEF a
  <2> SUFFICES ASSUME NEW b \in Rooms PROVE Occupied(b)'
    OBVIOUS
  <2>4. CASE b # a
    BY <1>0, <2>1, <2>2, <2>3, <2>4 DEF Occupied, Relaying, RelayInv, RoomTypes
  <2>5. CASE b = a /\ relay[a] = NoTask
    BY <1>0, <2>1, <2>2, <2>5
       DEF Occupied, Relaying, RelayInv, RoomTypes, Tasks
  <2>6. CASE b = a /\ relay[a] # NoTask
    BY <1>0, <2>1, <2>2, <2>6 DEF Occupied, Relaying, RelayInv, RoomTypes
  <2> QED
    BY <2>4, <2>5, <2>6
<1>6. ASSUME NEW s \in Sockets, Vanish(s)
      PROVE  \A b \in Rooms : Occupied(b)'
  BY <1>2, <1>6 DEF Vanish, tasks, Relaying
<1>7. ASSUME NEW s \in Sockets, HandlerEnds(s)
      PROVE  \A b \in Rooms : Occupied(b)'
  BY <1>0, <1>7, LeaveKeepsOccupied, RoomAssumption DEF HandlerEnds, Relaying
<1>8. ASSUME NEW t \in Tasks, Begin(t) \/ Subscribe(t) \/ Take(t)
      PROVE  \A b \in Rooms : Occupied(b)'
  BY <1>0, <1>2, <1>8 DEF Begin, Subscribe, Take, Relaying, RelayInv, RoomTypes
<1>9. ASSUME NEW t \in Tasks, NEW s \in Sockets, NEW ok \in BOOLEAN,
             Send(t, s, ok)
      PROVE  \A b \in Rooms : Occupied(b)'
  <2>1. CASE UNCHANGED <<conns, relay, cancelled, task>>
    BY <1>2, <1>9, <2>1 DEF Send, Served, Relaying
  <2>2. ASSUME NEW S, Leave(RoomOf[t], S),
               task' = [task EXCEPT ![t] = "listening"]
        PROVE  \A b \in Rooms : Occupied(b)'
    <3>1. RoomOf[t] \in Rooms /\ faults' = faults
      BY <1>9, RoomAssumption DEF Send, Served, Tasks
    <3> QED
      BY <1>0, <2>2, <3>1, LeaveKeepsOccupied DEF Relaying, RelayInv, RoomTypes
  <2> QED
    BY <1>9, <2>1, <2>2 DEF Send, Served
<1>10. ASSUME NEW t \in Tasks, Cancelled(t) \/ Close(t) \/ RedisFails(t)
       PROVE  \A b \in Rooms : Occupied(b)'
  <2>1. faults \in Nat
    BY DEF AliveInv
  <2>2. CASE Cancelled(t)
    BY <2>1, <2>2, StopKeepsOccupied DEF Cancelled, Relaying
  <2>3. CASE Close(t)
    BY <2>1, <2>3, StopKeepsOccupied DEF Close, Relaying
  <2>4. CASE RedisFails(t)
    BY <2>1, <2>4, StopKeepsOccupied DEF RedisFails
  <2> QED
    BY <1>10, <2>2, <2>3, <2>4
<1>11. \/ faults' = faults
       \/ faults > 0 /\ faults' = faults - 1
  <2>1. ASSUME NEW t \in Tasks, Relay(t)
        PROVE  faults' = faults
    BY <2>1 DEF Relay, Begin, Subscribe, Take, Send, Served, Cancelled, Close
  <2>2. ASSUME NEW s \in Sockets, Connect(s) \/ Vanish(s) \/ HandlerEnds(s)
        PROVE  faults' = faults
    BY <2>2 DEF Connect, Join, Vanish, HandlerEnds
  <2>3. ASSUME NEW a \in Rooms, PublishUpdate(a)
        PROVE  faults' = faults
    BY <2>3 DEF PublishUpdate, Broadcast
  <2>4. ASSUME NEW t \in Tasks, RedisFails(t)
        PROVE  faults > 0 /\ faults' = faults - 1
    BY <2>4 DEF RedisFails
  <2>5. ASSUME UNCHANGED vars
        PROVE  faults' = faults
    BY <2>5 DEF vars
  <2> QED
    BY <2>1, <2>2, <2>3, <2>4, <2>5 DEF Next
<1>12. faults' \in Nat /\ faults' <= RedisFaults
  BY <1>11, RoomAssumption DEF AliveInv
<1>13. \A a \in Rooms : Occupied(a)'
  BY <1>3, <1>4, <1>5, <1>6, <1>7, <1>8, <1>9, <1>10 DEF Next, Relay
<1> QED
  BY <1>0, <1>12, <1>13 DEF AliveInv

(* Until a Redis connection breaks, an occupied room has a registered      *)
(* relay that nobody has cancelled, in whatever order clients join, leave  *)
(* and are found dead (ws/gateway.py:36-58).                               *)
THEOREM RelayLives == Spec => []RelayUnlessFault
<1>1. AliveInv => RelayUnlessFault
  <2> SUFFICES ASSUME AliveInv, faults = RedisFaults, NEW a \in Rooms,
                      conns[a] # {}
               PROVE  relay[a] # NoTask /\ task[relay[a]] # "done"
                      /\ relay[a] \notin cancelled
    BY DEF RelayUnlessFault, RelayWhileOccupied
  <2> QED
    BY DEF AliveInv, Occupied, Relaying
<1> QED
  BY <1>1, AliveInit, AliveStep, PTL DEF Spec

---------------------------------------------------------------------------
(* Types of what is sent and received                                      *)

(* A task that is sending has read the update.                             *)
FeedTypes ==
    /\ AliveInv
    /\ TypeOK
    /\ \A t \in Tasks : task[t] = "sending" => inbox[t] # <<>>

LEMMA FeedTypesInit == Init => FeedTypes
<1> SUFFICES ASSUME Init PROVE FeedTypes
  OBVIOUS
<1>1. AliveInv
  BY AliveInit
<1>2. TypeOK
  BY <1>1, RoomAssumption DEF Init, TypeOK, AliveInv, RelayInv, RoomTypes
<1> QED
  BY <1>1, <1>2 DEF Init, FeedTypes

(* The variables of TypeOK that RoomTypes leaves out.                      *)
Feeds ==
    /\ subscribed \subseteq Tasks
    /\ inbox \in [Tasks -> Seq(1 .. MaxUpdates)]
    /\ todo \in [Tasks -> SUBSET Sockets]
    /\ dead \in [Tasks -> SUBSET Sockets]
    /\ published \in [Rooms -> 0 .. MaxUpdates]
    /\ recv \in [Sockets -> Seq(1 .. MaxUpdates)]
    /\ due \in [Sockets -> SUBSET (1 .. MaxUpdates)]
    /\ \A t \in Tasks : task[t] = "sending" => inbox[t] # <<>>

LEMMA SplitTypes ==
    /\ FeedTypes <=> AliveInv /\ Feeds
    /\ FeedTypes' <=> AliveInv' /\ Feeds'
  BY DEF FeedTypes, Feeds, TypeOK, AliveInv, RelayInv, RoomTypes

LEMMA QueueShape ==
    ASSUME NEW T, NEW queue \in Seq(T)
    PROVE  /\ \A v \in T : Append(queue, v) \in Seq(T) /\ Append(queue, v) # <<>>
           /\ queue # <<>> => Head(queue) \in T /\ Tail(queue) \in Seq(T)
OBVIOUS

LEMMA BroadcastTypes ==
    ASSUME FeedTypes, NEW a \in Rooms, PublishUpdate(a)
    PROVE  Feeds'
<1> DEFINE n == published[a] + 1
<1>1. Feeds /\ published[a] \in 0 .. MaxUpdates /\ MaxUpdates \in Nat
  BY SplitTypes, RoomAssumption DEF Feeds
<1>2. n \in 1 .. MaxUpdates
  BY <1>1 DEF PublishUpdate, Broadcast
<1>3. /\ published' = [published EXCEPT ![a] = n]
      /\ inbox' = [t \in Tasks |->
                     IF t \in subscribed /\ RoomOf[t] = a
                     THEN Append(inbox[t], n) ELSE inbox[t]]
      /\ due' = [s \in Sockets |->
                   IF s \in conns[a] /\ relay[a] \in subscribed
                   THEN due[s] \cup {n} ELSE due[s]]
      /\ UNCHANGED <<task, subscribed, todo, dead, recv>>
  BY DEF PublishUpdate, Broadcast
<1> HIDE DEF n
<1>4. published' \in [Rooms -> 0 .. MaxUpdates]
  <2>1. n \in 0 .. MaxUpdates
    BY <1>1, <1>2
  <2> QED
    BY <1>1, <1>3, <2>1 DEF Feeds
<1>5. ASSUME NEW t \in Tasks
      PROVE  /\ inbox'[t] \in Seq(1 .. MaxUpdates)
             /\ inbox[t] # <<>> => inbox'[t] # <<>>
  <2>1. inbox[t] \in Seq(1 .. MaxUpdates)
    BY <1>1 DEF Feeds
  <2>2. Append(inbox[t], n) \in Seq(1 .. MaxUpdates) /\ Append(inbox[t], n) # <<>>
    BY <1>2, <2>1, QueueShape
  <2> QED
    BY <1>3, <2>1, <2>2
<1>6. due' \in [Sockets -> SUBSET (1 .. MaxUpdates)]
  BY <1>1, <1>2, <1>3 DEF Feeds
<1> QED
  BY <1>1, <1>3, <1>4, <1>5, <1>6 DEF Feeds

(* One send of a broadcast.                                                *)
LEMMA SendTypes ==
    ASSUME FeedTypes, NEW t \in Tasks, NEW s \in Sockets, NEW ok \in BOOLEAN,
           Send(t, s, ok)
    PROVE  Feeds'
<1>1. Feeds /\ task \in [Tasks -> TaskStates]
  BY SplitTypes DEF AliveInv, RelayInv, RoomTypes
<1>2. /\ inbox[t] \in Seq(1 .. MaxUpdates) /\ inbox[t] # <<>>
      /\ todo[t] \subseteq Sockets /\ dead[t] \subseteq Sockets
      /\ recv[s] \in Seq(1 .. MaxUpdates)
  BY <1>1 DEF Feeds, Send, Served
<1>3. /\ Head(inbox[t]) \in 1 .. MaxUpdates
      /\ Tail(inbox[t]) \in Seq(1 .. MaxUpdates)
  BY <1>2, QueueShape
<1>4. Append(recv[s], Head(inbox[t])) \in Seq(1 .. MaxUpdates)
  BY <1>2, <1>3, QueueShape
<1>5. recv' \in [Sockets -> Seq(1 .. MaxUpdates)]
  BY <1>1, <1>4 DEF Feeds, Send, Served
<1>6. todo' \in [Tasks -> SUBSET Sockets]
  <2>1. todo' = [todo EXCEPT ![t] = todo[t] \ {s}]
    BY DEF Send, Served
  <2> QED
    BY <1>1, <1>2, <2>1 DEF Feeds
<1>7. dead' \in [Tasks -> SUBSET Sockets]
  <2>1. \/ dead' = [dead EXCEPT ![t] = IF ok THEN dead[t] ELSE dead[t] \cup {s}]
        \/ dead' = [dead EXCEPT ![t] = {}]
    BY DEF Send, Served
  <2>2. (IF ok THEN dead[t] ELSE dead[t] \cup {s}) \in SUBSET Sockets
    BY <1>2
  <2> QED
    BY <1>1, <2>1, <2>2 DEF Feeds
<1>8. /\ inbox' \in [Tasks -> Seq(1 .. MaxUpdates)]
      /\ \A u \in Tasks : task'[u] = "sending" => inbox'[u] # <<>>
  <2>1. CASE task' = task /\ inbox' = inbox
    BY <1>1, <2>1 DEF Feeds
  <2>2. CASE /\ task' = [task EXCEPT ![t] = "listening"]
             /\ inbox' = [inbox EXCEPT ![t] = Tail(inbox[t])]
    BY <1>1, <1>3, <2>2 DEF Feeds
  <2> QED
    BY <2>1, <2>2 DEF Send, Served
<1>9. UNCHANGED <<subscribed, published, due>>
  BY DEF Send, Served
<1> QED
  BY <1>1, <1>5, <1>6, <1>7, <1>8, <1>9 DEF Feeds

LEMMA FeedTypesStep == FeedTypes /\ [Next]_vars => FeedTypes'
<1> SUFFICES ASSUME FeedTypes, [Next]_vars PROVE Feeds'
  BY SplitTypes, AliveStep
<1>1. Feeds /\ task \in [Tasks -> TaskStates] /\ conns \in [Rooms -> SUBSET Sockets]
  BY SplitTypes DEF AliveInv, RelayInv, RoomTypes
<1>2. ASSUME NEW a \in Rooms, PublishUpdate(a)
      PROVE  Feeds'
  BY <1>2, BroadcastTypes
<1>3. ASSUME NEW s \in Sockets, Connect(s) \/ Vanish(s) \/ HandlerEnds(s)
      PROVE  Feeds'
  <2>1. UNCHANGED <<subscribed, inbox, todo, dead, published, recv, due>>
    BY <1>3 DEF Connect, Join, Vanish, HandlerEnds, tasks
  <2>2. \A t \in Tasks : task'[t] = "sending" => task[t] = "sending"
    BY <1>1, <1>3 DEF Connect, Join, Vanish, HandlerEnds, tasks, Tasks
  <2> QED
    BY <1>1, <2>1, <2>2 DEF Feeds
<1>4. ASSUME NEW t \in Tasks, Begin(t) \/ Subscribe(t)
      PROVE  Feeds'
  BY <1>1, <1>4 DEF Begin, Subscribe, Feeds
<1>5. ASSUME NEW t \in Tasks, Take(t)
      PROVE  Feeds'
  <2>1. /\ inbox[t] \in Seq(1 .. MaxUpdates) /\ inbox[t] # <<>>
        /\ conns[RoomOf[t]] \subseteq Sockets
        /\ UNCHANGED <<subscribed, dead, published, recv, due>>
    BY <1>1, <1>5, RoomAssumption DEF Take, Feeds, Tasks
  <2>2. Tail(inbox[t]) \in Seq(1 .. MaxUpdates)
    BY <2>1, QueueShape
  <2>3. CASE /\ inbox' = [inbox EXCEPT ![t] = Tail(inbox[t])]
             /\ UNCHANGED <<task, todo>>
    BY <1>1, <1>5, <2>1, <2>2, <2>3 DEF Take, Feeds
  <2>4. CASE /\ task' = [task EXCEPT ![t] = "sending"] /\ inbox' = inbox
             /\ todo' = [todo EXCEPT ![t] = conns[RoomOf[t]]]
    BY <1>1, <2>1, <2>4 DEF Feeds
  <2> QED
    BY <1>5, <2>3, <2>4 DEF Take
<1>6. ASSUME NEW t \in Tasks, NEW s \in Sockets, NEW ok \in BOOLEAN,
             Send(t, s, ok)
      PROVE  Feeds'
  BY <1>6, SendTypes
<1>7. ASSUME NEW t \in Tasks, Cancelled(t) \/ Close(t) \/ RedisFails(t)
      PROVE  Feeds'
  <2>1. /\ task' \in {[task EXCEPT ![t] = "closing"], [task EXCEPT ![t] = "done"]}
        /\ todo' = [todo EXCEPT ![t] = {}] /\ dead' = [dead EXCEPT ![t] = {}]
        /\ subscribed' \subseteq subscribed
        /\ inbox' = inbox \/ inbox' = [inbox EXCEPT ![t] = <<>>]
        /\ UNCHANGED <<published, recv, due>>
    BY <1>7 DEF Cancelled, Close, RedisFails, Stop
  <2>2. \A u \in Tasks : task'[u] = "sending" => u # t /\ task[u] = "sending"
    BY <1>1, <2>1
  <2>3. inbox' \in [Tasks -> Seq(1 .. MaxUpdates)]
    <3>1. \A queue \in Seq(1 .. MaxUpdates) :
             [inbox EXCEPT ![t] = queue] \in [Tasks -> Seq(1 .. MaxUpdates)]
      BY <1>1 DEF Feeds
    <3>2. <<>> \in Seq(1 .. MaxUpdates) /\ inbox \in [Tasks -> Seq(1 .. MaxUpdates)]
      BY <1>1 DEF Feeds
    <3> QED
      BY <2>1, <3>1, <3>2
  <2> QED
    BY <1>1, <2>1, <2>2, <2>3 DEF Feeds
<1>8. ASSUME UNCHANGED vars
      PROVE  Feeds'
  BY <1>1, <1>8 DEF vars, tasks, Feeds
<1> QED
  BY <1>2, <1>3, <1>4, <1>5, <1>6, <1>7, <1>8 DEF Next, Relay

(* Rooms, tasks and feeds are well formed; a broadcast always has the      *)
(* update it sends (ws/gateway.py:60-86).                                  *)
THEOREM RoomTypesHold == Spec => []TypeOK
<1>1. FeedTypes => TypeOK
  BY DEF FeedTypes
<1> QED
  BY <1>1, FeedTypesInit, FeedTypesStep, PTL DEF Spec

---------------------------------------------------------------------------
(* Who is in a room, and what a task has still to send                     *)

(* A room has the clients that joined it and have not been found gone, and *)
(* a broadcast serves only them.                                           *)
Members ==
    /\ \A a \in Rooms : \A s \in conns[a] : RoomOf[s] = a /\ sock[s] # "idle"
    /\ \A s \in Sockets : sock[s] = "open" => s \in conns[RoomOf[s]]
    /\ \A s \in Sockets : sock[s] = "idle" => recv[s] = <<>>
    /\ \A t \in Tasks : \A s \in todo[t] :
          s \in Sockets /\ RoomOf[s] = RoomOf[t] /\ sock[s] # "idle"
    /\ \A t \in Tasks : \A s \in dead[t] : sock[s] \in {"gone", "left"}

(* The inbox of a task holds the latest updates, without a gap.            *)
Consecutive(x) == \A i \in 1 .. Len(x) - 1 : x[i + 1] = x[i] + 1

Queued(t) ==
    /\ Consecutive(inbox[t])
    /\ inbox[t] # <<>> =>
         t \in subscribed /\ inbox[t][Len(inbox[t])] = published[RoomOf[t]]
    /\ task[t] \in {"listening", "sending"} => t \in subscribed

QueueInv == FeedTypes /\ Members /\ \A t \in Tasks : Queued(t)

LEMMA QueueInit == Init => QueueInv
  BY FeedTypesInit DEF Init, QueueInv, Members, Queued, Consecutive

(* Whoever leaves a room has gone.                                         *)
LEMMA MembersLeave ==
    ASSUME FeedTypes, Members, NEW a \in Rooms, NEW S, Leave(a, S),
           \A s \in S : sock'[s] \in {"gone", "left"},
           \A s \in Sockets : \/ sock'[s] = sock[s]
                              \/ sock[s] = "gone" /\ sock'[s] = "left",
           \A s \in Sockets : sock[s] = "idle" => recv'[s] = recv[s],
           \A t \in Tasks : todo'[t] \subseteq todo[t],
           \A t \in Tasks : \A s \in dead'[t] :
              s \in Sockets /\ (s \in dead[t] \/ sock[s] \in {"gone", "left"})
    PROVE  Members'
<1>1. /\ conns \in [Rooms -> SUBSET Sockets]
      /\ todo \in [Tasks -> SUBSET Sockets]
      /\ conns' = [conns EXCEPT ![a] = conns[a] \ S]
  BY DEF Leave, FeedTypes, TypeOK
<1>2. \A b \in Rooms : conns'[b] \subseteq conns[b]
  BY <1>1
<1>3. ASSUME NEW s \in Sockets, sock'[s] = "open"
      PROVE  s \in conns'[RoomOf[s]]
  BY <1>1, <1>3, RoomAssumption DEF Members
<1>4. ASSUME NEW b \in Rooms, NEW s \in conns'[b]
      PROVE  RoomOf[s] = b /\ sock'[s] # "idle"
  BY <1>1, <1>2, <1>4 DEF Members
<1>5. ASSUME NEW t \in Tasks, NEW s \in todo'[t]
      PROVE  s \in Sockets /\ RoomOf[s] = RoomOf[t] /\ sock'[s] # "idle"
  BY <1>1, <1>5 DEF Members
<1>6. ASSUME NEW t \in Tasks, NEW s \in dead'[t]
      PROVE  sock'[s] \in {"gone", "left"}
  BY <1>6 DEF Members
<1>7. ASSUME NEW s \in Sockets, sock'[s] = "idle"
      PROVE  recv'[s] = <<>>
  BY <1>7 DEF Members
<1> QED
  BY <1>3, <1>4, <1>5, <1>6, <1>7 DEF Members

LEMMA MembersStep ==
    ASSUME FeedTypes, Members, [Next]_vars
    PROVE  Members'
<1>0. /\ conns \in [Rooms -> SUBSET Sockets] /\ sock \in [Sockets -> SocketStates]
      /\ todo \in [Tasks -> SUBSET Sockets] /\ dead \in [Tasks -> SUBSET Sockets]
      /\ recv \in [Sockets -> Seq(1 .. MaxUpdates)]
  BY DEF FeedTypes, TypeOK
<1>1. ASSUME UNCHANGED <<sock, conns, recv>>,
             \A t \in Tasks : todo'[t] \subseteq todo[t] /\ dead'[t] \subseteq dead[t]
      PROVE  Members'
  BY <1>1 DEF Members
<1>2. ASSUME NEW a \in Rooms, PublishUpdate(a)
      PROVE  Members'
  BY <1>1, <1>2 DEF PublishUpdate, Broadcast
<1>3. ASSUME NEW s \in Sockets, Connect(s)
      PROVE  Members'
  <2>1. /\ sock[s] = "idle" /\ sock' = [sock EXCEPT ![s] = "open"]
        /\ conns' = [conns EXCEPT ![RoomOf[s]] = @ \cup {s}]
        /\ RoomOf[s] \in Rooms /\ UNCHANGED <<todo, dead, recv>>
    BY <1>3, RoomAssumption DEF Connect, Join
  <2> QED
    BY <1>0, <2>1, RoomAssumption DEF Members
<1>4. ASSUME NEW s \in Sockets, Vanish(s)
      PROVE  Members'
  BY <1>0, <1>4 DEF Vanish, tasks, Members
<1>5. ASSUME NEW s \in Sockets, HandlerEnds(s)
      PROVE  Members'
  <2>1. /\ sock[s] = "gone" /\ sock' = [sock EXCEPT ![s] = "left"]
        /\ Leave(RoomOf[s], {s}) /\ RoomOf[s] \in Rooms
        /\ UNCHANGED <<todo, dead, recv>>
    BY <1>5, RoomAssumption DEF HandlerEnds
  <2> QED
    BY <1>0, <2>1, MembersLeave
<1>6. ASSUME NEW t \in Tasks, Begin(t) \/ Subscribe(t)
      PROVE  Members'
  BY <1>1, <1>6 DEF Begin, Subscribe
<1>7. ASSUME NEW t \in Tasks, Take(t)
      PROVE  Members'
  <2>1. /\ todo' = todo \/ todo' = [todo EXCEPT ![t] = conns[RoomOf[t]]]
        /\ RoomOf[t] \in Rooms /\ UNCHANGED <<sock, conns, dead, recv>>
    BY <1>7, RoomAssumption DEF Take, Tasks
  <2> QED
    BY <1>0, <2>1 DEF Members
<1>8. ASSUME NEW t \in Tasks, NEW s \in Sockets, NEW ok \in BOOLEAN,
             Send(t, s, ok)
      PROVE  Members'
  <2> DEFINE failed == IF ok THEN dead[t] ELSE dead[t] \cup {s}
  <2>1. /\ s \in todo[t] /\ sock[s] # "idle"
        /\ sock[s] = "open" => ok
        /\ sock' = sock /\ todo' = [todo EXCEPT ![t] = todo[t] \ {s}]
        /\ recv' = recv \/ \E x : recv' = [recv EXCEPT ![s] = x]
    BY <1>8 DEF Send, Served, Members
  <2>2. \A x \in failed : x \in Sockets /\ sock[x] \in {"gone", "left"}
    BY <1>0, <2>1 DEF Members, SocketStates
  <2>3. \A x \in Sockets : sock[x] = "idle" => recv'[x] = recv[x]
    BY <1>0, <2>1 DEF Members
  <2>4. \A u \in Tasks : todo'[u] \subseteq todo[u]
    BY <1>0, <2>1
  <2>5. RoomOf[t] \in Rooms
    BY RoomAssumption DEF Tasks
  <2>6. \/ dead' = [dead EXCEPT ![t] = failed] /\ conns' = conns
        \/ dead' = [dead EXCEPT ![t] = {}] /\ Leave(RoomOf[t], failed)
    BY <1>8 DEF Send, Served
  <2> HIDE DEF failed
  <2>7. \A u \in Tasks : \A x \in dead'[u] :
           x \in Sockets /\ (x \in dead[u] \/ sock[x] \in {"gone", "left"})
    BY <1>0, <2>2, <2>6
  <2>8. CASE Leave(RoomOf[t], failed)
    BY <2>1, <2>2, <2>3, <2>4, <2>5, <2>7, <2>8, MembersLeave
  <2>9. CASE conns' = conns
    BY <2>1, <2>3, <2>4, <2>7, <2>9 DEF Members
  <2> QED
    BY <2>6, <2>8, <2>9
<1>9. ASSUME NEW t \in Tasks, Cancelled(t) \/ Close(t) \/ RedisFails(t)
      PROVE  Members'
  BY <1>0, <1>1, <1>9 DEF Cancelled, Close, RedisFails, Stop
<1>10. ASSUME UNCHANGED vars
       PROVE  Members'
  BY <1>1, <1>10 DEF vars, tasks
<1> QED
  BY <1>2, <1>3, <1>4, <1>5, <1>6, <1>7, <1>8, <1>9, <1>10 DEF Next, Relay

LEMMA ConsecutiveAppend ==
    ASSUME NEW x \in Seq(Nat), NEW v \in Nat, Consecutive(x),
           x # <<>> => v = x[Len(x)] + 1
    PROVE  LET y == Append(x, v) IN
           /\ Consecutive(y) /\ y # <<>> /\ y[Len(y)] = v
           /\ y[1] = IF x = <<>> THEN v ELSE x[1]
<1> DEFINE y == Append(x, v)
<1>1. /\ Len(y) = Len(x) + 1 /\ Len(x) \in Nat /\ y[Len(x) + 1] = v /\ y # <<>>
      /\ \A i \in 1 .. Len(x) : y[i] = x[i]
      /\ x = <<>> <=> Len(x) = 0
  BY AppendProperties, EmptySeq, LenProperties
<1> HIDE DEF y
<1>2. ASSUME NEW i \in 1 .. Len(y) - 1
      PROVE  y[i + 1] = y[i] + 1
  <2>1. CASE i = Len(x)
    BY <1>1, <2>1
  <2>2. CASE i # Len(x)
    BY <1>1, <2>2 DEF Consecutive
  <2> QED
    BY <2>1, <2>2
<1> QED
  BY <1>1, <1>2 DEF Consecutive, y

LEMMA ConsecutiveTail ==
    ASSUME NEW x \in Seq(Nat), x # <<>>, Consecutive(x)
    PROVE  /\ Consecutive(Tail(x))
           /\ Tail(x) = <<>> => x[1] = x[Len(x)]
           /\ Tail(x) # <<>> =>
                Tail(x)[1] = x[1] + 1 /\ Tail(x)[Len(Tail(x))] = x[Len(x)]
<1> DEFINE y == Tail(x)
<1>1. /\ Len(y) = Len(x) - 1 /\ Len(x) \in Nat /\ Len(x) > 0
      /\ \A i \in 1 .. Len(x) - 1 : y[i] = x[i + 1]
      /\ y = <<>> <=> Len(y) = 0
  <2>1. /\ y \in Seq(Nat) /\ Len(y) = Len(x) - 1
        /\ \A i \in 1 .. Len(y) : y[i] = x[i + 1]
    BY HeadTailProperties
  <2>2. Len(x) \in Nat /\ Len(x) > 0
    BY EmptySeq
  <2> HIDE DEF y
  <2>3. y = <<>> <=> Len(y) = 0
    BY <2>1, EmptySeq
  <2> QED
    BY <2>1, <2>2, <2>3
<1> HIDE DEF y
<1> QED
  BY <1>1 DEF Consecutive, y

LEMMA Numbers ==
    ASSUME FeedTypes
    PROVE  /\ \A t \in Tasks : inbox[t] \in Seq(Nat)
           /\ \A s \in Sockets : recv[s] \in Seq(Nat)
           /\ \A a \in Rooms : published[a] \in Nat
<1>1. MaxUpdates \in Nat /\ 1 .. MaxUpdates \subseteq Nat
  BY RoomAssumption
<1>2. \A x \in Seq(1 .. MaxUpdates) : x \in Seq(Nat)
  BY <1>1
<1> QED
  BY <1>1, <1>2 DEF FeedTypes, TypeOK

(* What the publication of an update does to an inbox.                     *)
LEMMA BroadcastEffect ==
    ASSUME QueueInv, NEW a \in Rooms, PublishUpdate(a), NEW t \in Tasks
    PROVE  /\ Queued(t)'
           /\ published' = [published EXCEPT ![a] = published[a] + 1]
           /\ inbox'[t] = IF t \in subscribed /\ RoomOf[t] = a
                          THEN Append(inbox[t], published[a] + 1) ELSE inbox[t]
           /\ UNCHANGED <<sock, conns, relay, task, cancelled, subscribed, todo,
                          dead, recv>>
<1>1. /\ Queued(t) /\ inbox[t] \in Seq(Nat) /\ published[a] \in Nat
      /\ RoomOf[t] \in Rooms /\ published \in [Rooms -> 0 .. MaxUpdates]
  BY Numbers, RoomAssumption DEF QueueInv, Tasks, FeedTypes, TypeOK
<1>2. /\ published' = [published EXCEPT ![a] = published[a] + 1]
      /\ inbox'[t] = IF t \in subscribed /\ RoomOf[t] = a
                     THEN Append(inbox[t], published[a] + 1) ELSE inbox[t]
      /\ UNCHANGED <<sock, conns, relay, task, cancelled, subscribed, todo,
                     dead, recv>>
  BY DEF PublishUpdate, Broadcast
<1>3. CASE t \in subscribed /\ RoomOf[t] = a
  <2>1. published'[a] = published[a] + 1
    BY <1>1, <1>2
  <2>2. /\ Consecutive(inbox'[t])
        /\ inbox'[t][Len(inbox'[t])] = published[a] + 1
    BY <1>1, <1>2, <1>3, ConsecutiveAppend DEF Queued
  <2> QED
    BY <1>2, <1>3, <2>1, <2>2 DEF Queued
<1>4. CASE ~(t \in subscribed /\ RoomOf[t] = a)
  <2>1. inbox'[t] = inbox[t] /\ (inbox[t] # <<>> => RoomOf[t] # a)
    BY <1>1, <1>2, <1>4 DEF Queued
  <2> QED
    BY <1>1, <1>2, <1>4, <2>1 DEF Queued
<1> QED
  BY <1>2, <1>3, <1>4

LEMMA QueuedStep ==
    ASSUME QueueInv, [Next]_vars, NEW t \in Tasks
    PROVE  Queued(t)'
<1>0. /\ Queued(t) /\ inbox[t] \in Seq(Nat) /\ FeedTypes
      /\ task \in [Tasks -> TaskStates]
      /\ inbox \in [Tasks -> Seq(1 .. MaxUpdates)]
  BY Numbers DEF QueueInv, FeedTypes, TypeOK
<1>1. ASSUME \/ inbox'[t] = inbox[t] \/ inbox'[t] = <<>>
             \/ inbox[t] # <<>> /\ inbox'[t] = Tail(inbox[t]),
             published' = published,
             t \in subscribed => t \in subscribed' \/ inbox'[t] = <<>>,
             task'[t] \in {"listening", "sending"} => t \in subscribed'
      PROVE  Queued(t)'
  <2>1. Consecutive(<<>>)
    BY DEF Consecutive
  <2>2. inbox[t] # <<>> =>
          /\ Consecutive(Tail(inbox[t]))
          /\ Tail(inbox[t]) # <<>> => Tail(inbox[t])[Len(Tail(inbox[t]))]
                                        = inbox[t][Len(inbox[t])]
    BY <1>0, ConsecutiveTail DEF Queued
  <2> QED
    BY <1>0, <1>1, <2>1, <2>2 DEF Queued
<1>2. ASSUME NEW a \in Rooms, PublishUpdate(a)
      PROVE  Queued(t)'
  BY <1>2, BroadcastEffect
<1>3. ASSUME NEW s \in Sockets, Connect(s) \/ Vanish(s) \/ HandlerEnds(s)
      PROVE  Queued(t)'
  <2>1. UNCHANGED <<inbox, published, subscribed>>
    BY <1>3 DEF Connect, Join, Vanish, HandlerEnds, tasks
  <2>2. task'[t] \in {"listening", "sending"} => task[t] \in {"listening", "sending"}
    BY <1>0, <1>3 DEF Connect, Join, Vanish, HandlerEnds, tasks, Tasks
  <2> QED
    BY <1>0, <1>1, <2>1, <2>2 DEF Queued
<1>4. ASSUME NEW u \in Tasks, Begin(u) \/ Subscribe(u)
      PROVE  Queued(t)'
  <2>1. UNCHANGED <<inbox, published>> /\ subscribed \subseteq subscribed'
    BY <1>4 DEF Begin, Subscribe
  <2>2. task'[t] \in {"listening", "sending"} => t \in subscribed'
    BY <1>0, <1>4 DEF Begin, Subscribe, Queued
  <2> QED
    BY <1>1, <2>1, <2>2
<1>5. ASSUME NEW u \in Tasks, Take(u)
      PROVE  Queued(t)'
  <2>1. /\ UNCHANGED <<published, subscribed>>
        /\ inbox' = inbox \/ inbox' = [inbox EXCEPT ![u] = Tail(inbox[u])]
        /\ inbox[u] # <<>> /\ task[u] = "listening"
        /\ task' = task \/ task' = [task EXCEPT ![u] = "sending"]
    BY <1>5 DEF Take
  <2>2. inbox'[t] = inbox[t] \/ (inbox[t] # <<>> /\ inbox'[t] = Tail(inbox[t]))
    BY <1>0, <2>1
  <2>3. task'[t] \in {"listening", "sending"} => task[t] \in {"listening", "sending"}
    BY <1>0, <2>1
  <2> QED
    BY <1>0, <1>1, <2>1, <2>2, <2>3 DEF Queued
<1>6. ASSUME NEW u \in Tasks, NEW s \in Sockets, NEW ok \in BOOLEAN,
             Send(u, s, ok)
      PROVE  Queued(t)'
  <2>1. /\ UNCHANGED <<published, subscribed>>
        /\ inbox' = inbox \/ inbox' = [inbox EXCEPT ![u] = Tail(inbox[u])]
        /\ task[u] = "sending"
        /\ task' = task \/ task' = [task EXCEPT ![u] = "listening"]
    BY <1>6 DEF Send, Served
  <2>2. inbox[u] # <<>>
    BY <1>0, <2>1 DEF FeedTypes
  <2>3. inbox'[t] = inbox[t] \/ (inbox[t] # <<>> /\ inbox'[t] = Tail(inbox[t]))
    BY <1>0, <2>1, <2>2
  <2>4. task'[t] \in {"listening", "sending"} => task[t] \in {"listening", "sending"}
    BY <1>0, <2>1
  <2> QED
    BY <1>0, <1>1, <2>1, <2>3, <2>4 DEF Queued
<1>7. ASSUME NEW u \in Tasks, Cancelled(u) \/ Close(u) \/ RedisFails(u)
      PROVE  Queued(t)'
  <2>1. /\ published' = published
        /\ task' = [task EXCEPT ![u] = "closing"] \/ task' = [task EXCEPT ![u] = "done"]
        /\ \/ UNCHANGED <<inbox, subscribed>>
           \/ /\ inbox' = [inbox EXCEPT ![u] = <<>>]
              /\ subscribed' = subscribed \ {u}
    BY <1>7 DEF Cancelled, Close, RedisFails, Stop
  <2>2. /\ inbox'[t] = inbox[t] \/ inbox'[t] = <<>>
        /\ t \in subscribed => t \in subscribed' \/ inbox'[t] = <<>>
    BY <1>0, <2>1
  <2>3. task'[t] \in {"listening", "sending"} => t \in subscribed'
    BY <1>0, <2>1 DEF Queued
  <2> QED
    BY <1>1, <2>1, <2>2, <2>3
<1>8. ASSUME UNCHANGED vars
      PROVE  Queued(t)'
  BY <1>0, <1>1, <1>8 DEF vars, tasks, Queued
<1> QED
  BY <1>2, <1>3, <1>4, <1>5, <1>6, <1>7, <1>8 DEF Next, Relay

LEMMA QueueStep == QueueInv /\ [Next]_vars => QueueInv'
  BY FeedTypesStep, MembersStep, QueuedStep DEF QueueInv

---------------------------------------------------------------------------
(* What clients receive                                                    *)

AtWork(t) == task[t] \in {"listening", "sending"}

(* The update that t sends to s next.                                      *)
Awaited(s, t) ==
    IF inbox[t] = <<>> THEN published[RoomOf[t]] + 1
    ELSE IF task[t] = "sending" /\ s \notin todo[t] THEN inbox[t][1] + 1
    ELSE inbox[t][1]

(* A client that has received something gets the update after it next.     *)
Fed(s, t) ==
    /\ sock[s] = "open" /\ recv[s] # <<>>
    /\ Relaying(t) /\ RoomOf[t] = RoomOf[s]
    => AtWork(t) /\ recv[s][Len(recv[s])] + 1 = Awaited(s, t)

FeedInv ==
    /\ QueueInv
    /\ \A s \in Sockets : Consecutive(recv[s])
    /\ \A s \in Sockets, t \in Tasks : Fed(s, t)

LEMMA FeedInit == Init => FeedInv
  BY QueueInit DEF Init, FeedInv, Fed, Consecutive

(* The client and the task go on as they were.                             *)
LEMMA FedFrame ==
    ASSUME FeedInv, NEW s \in Sockets, NEW t \in Tasks, recv'[s] = recv[s],
           /\ sock'[s] = "open" /\ recv[s] # <<>>
           /\ Relaying(t)' /\ RoomOf[t] = RoomOf[s]
           => /\ sock[s] = "open" /\ Relaying(t)
              /\ AtWork(t) => AtWork(t)' /\ Awaited(s, t)' = Awaited(s, t)
    PROVE  Fed(s, t)'
<1>1. Fed(s, t)
  BY DEF FeedInv
<1> QED
  BY <1>1 DEF Fed

(* What the rest of a broadcast is for a client.                           *)
LEMMA AwaitedAfterSend ==
    ASSUME QueueInv, NEW t \in Tasks, NEW x \in Sockets, NEW ok \in BOOLEAN,
           Send(t, x, ok), NEW s \in Sockets
    PROVE  /\ AtWork(t)'
           /\ inbox[t] # <<>> /\ inbox[t] \in Seq(Nat) /\ Head(inbox[t]) \in Nat
           /\ Head(inbox[t]) = inbox[t][1] /\ Awaited(x, t) = inbox[t][1]
           /\ Awaited(s, t)' = IF s = x THEN inbox[t][1] + 1 ELSE Awaited(s, t)
<1>1. /\ task[t] = "sending" /\ x \in todo[t] /\ RoomOf[t] \in Rooms
      /\ todo' = [todo EXCEPT ![t] = todo[t] \ {x}]
      /\ published' = published
      /\ task \in [Tasks -> TaskStates] /\ todo \in [Tasks -> SUBSET Sockets]
      /\ inbox \in [Tasks -> Seq(1 .. MaxUpdates)]
  BY RoomAssumption DEF Send, Served, QueueInv, FeedTypes, TypeOK, Tasks
<1>2. /\ inbox[t] # <<>> /\ inbox[t] \in Seq(Nat) /\ Consecutive(inbox[t])
      /\ inbox[t][Len(inbox[t])] = published[RoomOf[t]]
  BY <1>1, Numbers DEF QueueInv, Queued, FeedTypes
<1>3. Head(inbox[t]) \in Nat /\ Head(inbox[t]) = inbox[t][1]
  BY <1>2
<1>4. Awaited(x, t) = inbox[t][1]
  BY <1>1, <1>2 DEF Awaited
<1>5. CASE todo[t] \ {x} # {}
  <2>1. task' = task /\ inbox' = inbox
    BY <1>5 DEF Send, Served
  <2> QED
    BY <1>1, <1>2, <1>3, <1>4, <2>1 DEF Awaited, AtWork
<1>6. CASE todo[t] \ {x} = {}
  <2>1. /\ task' = [task EXCEPT ![t] = "listening"]
        /\ inbox' = [inbox EXCEPT ![t] = Tail(inbox[t])]
    BY <1>6 DEF Send, Served
  <2>2. task'[t] = "listening" /\ inbox'[t] = Tail(inbox[t])
    BY <1>1, <2>1
  <2>3. Awaited(s, t)' = inbox[t][1] + 1
    BY <1>1, <1>2, <2>2, ConsecutiveTail DEF Awaited
  <2>4. s # x => Awaited(s, t) = inbox[t][1] + 1
    BY <1>1, <1>2, <1>6 DEF Awaited
  <2> QED
    BY <1>2, <1>3, <1>4, <2>2, <2>3, <2>4 DEF AtWork
<1> QED
  BY <1>5, <1>6

LEMMA FedBySend ==
    ASSUME FeedInv, NEW u \in Tasks, NEW x \in Sockets, NEW ok \in BOOLEAN,
           Send(u, x, ok)
    PROVE  /\ \A s \in Sockets : Consecutive(recv'[s])
           /\ \A s \in Sockets, t \in Tasks : Fed(s, t)'
<1>0. QueueInv /\ FeedTypes
  BY DEF FeedInv, QueueInv
<1>1. /\ Relaying(u) /\ RoomOf[x] = RoomOf[u] /\ x \in todo[u]
      /\ recv \in [Sockets -> Seq(1 .. MaxUpdates)]
      /\ task \in [Tasks -> TaskStates]
      /\ inbox \in [Tasks -> Seq(1 .. MaxUpdates)]
      /\ todo \in [Tasks -> SUBSET Sockets]
  BY <1>0 DEF Send, Served, Relaying, QueueInv, Members, FeedTypes, TypeOK
<1>2. /\ recv' = IF sock[x] = "open"
                 THEN [recv EXCEPT ![x] = Append(recv[x], Head(inbox[u]))] ELSE recv
      /\ sock' = sock /\ published' = published
      /\ cancelled \subseteq cancelled'
      /\ task' = task \/ task' = [task EXCEPT ![u] = "listening"]
      /\ inbox' = inbox \/ inbox' = [inbox EXCEPT ![u] = Tail(inbox[u])]
      /\ todo' = [todo EXCEPT ![u] = todo[u] \ {x}]
  BY DEF Send, Served, Leave
<1>3. /\ \A s \in Sockets : s # x => recv'[s] = recv[s]
      /\ sock[x] = "open" => recv'[x] = Append(recv[x], Head(inbox[u]))
      /\ sock[x] # "open" => recv'[x] = recv[x]
  BY <1>1, <1>2
<1>4. /\ inbox[u] # <<>> /\ Head(inbox[u]) \in Nat /\ recv[x] \in Seq(Nat)
      /\ Awaited(x, u) = Head(inbox[u])
      /\ Consecutive(recv[x]) /\ Fed(x, u)
  BY <1>0, AwaitedAfterSend, Numbers DEF FeedInv
<1>5. ASSUME sock[x] = "open"
      PROVE  Consecutive(recv'[x]) /\ recv'[x][Len(recv'[x])] = Head(inbox[u])
  <2>1. recv[x] # <<>> => Head(inbox[u]) = recv[x][Len(recv[x])] + 1
    BY <1>1, <1>4, <1>5 DEF Fed
  <2>2. \A v \in Nat : v = Head(inbox[u]) =>
          /\ Consecutive(Append(recv[x], v))
          /\ Append(recv[x], v)[Len(Append(recv[x], v))] = v
    BY <1>4, <2>1, ConsecutiveAppend
  <2> QED
    BY <1>3, <1>4, <1>5, <2>2
<1>6. \A s \in Sockets : Consecutive(recv'[s])
  BY <1>3, <1>5 DEF FeedInv
<1>7. ASSUME NEW s \in Sockets, NEW t \in Tasks
      PROVE  Fed(s, t)'
  <2>1. CASE t # u
    <3>1. Relaying(t)' => Relaying(t)
      BY <1>1, <1>2, <2>1 DEF Relaying
    <3>2. Relaying(t) /\ RoomOf[t] = RoomOf[s] => s # x
      BY <1>0, <1>1, <2>1
         DEF FeedTypes, AliveInv, RelayInv, OneRelayPerRoom
    <3>3. Awaited(s, t)' = Awaited(s, t) /\ AtWork(t)' = AtWork(t)
      BY <1>1, <1>2, <2>1 DEF Awaited, AtWork
    <3>4. CASE s = x
      BY <3>1, <3>2, <3>4 DEF Fed
    <3>5. CASE s # x
      BY <1>2, <1>3, <3>1, <3>3, <3>5, FedFrame
    <3> QED
      BY <3>4, <3>5
  <2>2. CASE t = u /\ s = x
    BY <1>0, <1>2, <1>5, <2>2, AwaitedAfterSend DEF Fed
  <2>3. CASE t = u /\ s # x
    BY <1>0, <1>1, <1>2, <1>3, <2>3, AwaitedAfterSend, FedFrame
  <2> QED
    BY <2>1, <2>2, <2>3
<1> QED
  BY <1>6, <1>7

LEMMA FeedStep == FeedInv /\ [Next]_vars => FeedInv'
<1> SUFFICES ASSUME FeedInv, [Next]_vars PROVE FeedInv'
  OBVIOUS
<1>0. QueueInv /\ FeedTypes /\ QueueInv'
  BY QueueStep DEF FeedInv, QueueInv
<1>1. /\ task \in [Tasks -> TaskStates] /\ conns \in [Rooms -> SUBSET Sockets]
      /\ sock \in [Sockets -> SocketStates] /\ RoomOf \in [Sockets -> Rooms]
      /\ inbox \in [Tasks -> Seq(1 .. MaxUpdates)]
      /\ todo \in [Tasks -> SUBSET Sockets]
      /\ published \in [Rooms -> 0 .. MaxUpdates]
  BY <1>0, RoomAssumption DEF FeedTypes, TypeOK
<1>2. ASSUME recv' = recv,
             \A s \in Sockets, t \in Tasks :
                /\ sock'[s] = "open" /\ recv[s] # <<>>
                /\ Relaying(t)' /\ RoomOf[t] = RoomOf[s]
                => /\ sock[s] = "open" /\ Relaying(t)
                   /\ AtWork(t) => AtWork(t)' /\ Awaited(s, t)' = Awaited(s, t)
      PROVE  FeedInv'
  <2>1. \A s \in Sockets, t \in Tasks : Fed(s, t)'
    BY <1>2, FedFrame
  <2> QED
    BY <1>0, <1>2, <2>1 DEF FeedInv
<1>3. ASSUME NEW a \in Rooms, PublishUpdate(a)
      PROVE  FeedInv'
  <2>1. UNCHANGED <<sock, task, cancelled, recv, todo>>
    BY <1>3 DEF PublishUpdate, Broadcast
  <2>2. ASSUME NEW s \in Sockets, NEW t \in Tasks, AtWork(t)
        PROVE  Awaited(s, t)' = Awaited(s, t)
    <3>1. /\ published' = [published EXCEPT ![a] = published[a] + 1]
          /\ inbox'[t] = IF t \in subscribed /\ RoomOf[t] = a
                         THEN Append(inbox[t], published[a] + 1) ELSE inbox[t]
      BY <1>0, <1>3, BroadcastEffect
    <3>2. /\ inbox[t] \in Seq(Nat) /\ published[a] \in Nat
          /\ t \in subscribed /\ Consecutive(inbox[t]) /\ RoomOf[t] \in Rooms
          /\ inbox[t] # <<>> => inbox[t][Len(inbox[t])] = published[RoomOf[t]]
          /\ task[t] = "sending" => inbox[t] # <<>>
      BY <1>0, <1>1, <2>2, Numbers DEF QueueInv, Queued, AtWork, FeedTypes, Tasks
    <3>3. CASE RoomOf[t] # a
      BY <1>1, <2>1, <3>1, <3>2, <3>3 DEF Awaited
    <3>4. CASE RoomOf[t] = a
      <4>1. /\ inbox'[t] # <<>>
            /\ inbox'[t][1] = IF inbox[t] = <<>> THEN published[a] + 1
                              ELSE inbox[t][1]
        BY <3>1, <3>2, <3>4, ConsecutiveAppend
      <4> QED
        BY <2>1, <3>2, <3>4, <4>1 DEF Awaited
    <3> QED
      BY <3>3, <3>4
  <2>3. \A t \in Tasks : (Relaying(t)' <=> Relaying(t)) /\ (AtWork(t)' <=> AtWork(t))
    BY <2>1 DEF Relaying, AtWork
  <2> QED
    BY <1>2, <2>1, <2>2, <2>3
<1>4. ASSUME NEW x \in Sockets, Connect(x)
      PROVE  FeedInv'
  <2>1. /\ UNCHANGED <<cancelled, recv, inbox, todo, published>>
        /\ sock[x] = "idle" /\ sock' = [sock EXCEPT ![x] = "open"]
        /\ \/ task' = task
           \/ relay[RoomOf[x]] = NoTask /\ task' = [task EXCEPT ![x] = "new"]
    BY <1>4 DEF Connect, Join
  <2>2. ASSUME NEW s \in Sockets, NEW t \in Tasks, sock'[s] = "open",
               recv[s] # <<>>, Relaying(t)', RoomOf[t] = RoomOf[s]
        PROVE  /\ sock[s] = "open" /\ Relaying(t)
               /\ AtWork(t)' <=> AtWork(t)
               /\ Awaited(s, t)' = Awaited(s, t)
    <3>1. sock[s] = "open" /\ s \in conns[RoomOf[s]] /\ RoomOf[s] \in Rooms
      BY <1>0, <1>1, <2>1, <2>2 DEF QueueInv, Members
    <3>2. relay[RoomOf[s]] # NoTask
      BY <1>0, <3>1 DEF FeedTypes, AliveInv, Occupied
    <3>3. task'[t] = task[t]
      BY <1>1, <2>1, <2>2, <3>2 DEF Tasks
    <3> QED
      BY <2>1, <2>2, <3>1, <3>3 DEF Relaying, AtWork, Awaited
  <2> QED
    BY <1>2, <2>1, <2>2
<1>5. ASSUME NEW x \in Sockets, Vanish(x) \/ HandlerEnds(x)
      PROVE  FeedInv'
  <2>1. /\ UNCHANGED <<task, recv, inbox, todo, published>>
        /\ cancelled \subseteq cancelled'
        /\ \A s \in Sockets : sock'[s] = "open" => sock[s] = "open"
    BY <1>1, <1>5 DEF Vanish, HandlerEnds, Leave, tasks
  <2>2. \A s \in Sockets, t \in Tasks :
          /\ Relaying(t)' => Relaying(t)
          /\ AtWork(t)' <=> AtWork(t)
          /\ Awaited(s, t)' = Awaited(s, t)
    BY <2>1 DEF Relaying, AtWork, Awaited
  <2> QED
    BY <1>2, <2>1, <2>2
<1>6. ASSUME NEW u \in Tasks, Begin(u) \/ Subscribe(u)
      PROVE  FeedInv'
  <2>1. /\ UNCHANGED <<sock, cancelled, recv, inbox, todo, published>>
        /\ Relaying(u) /\ ~AtWork(u) /\ \A t \in Tasks : t # u => task'[t] = task[t]
    BY <1>1, <1>6 DEF Begin, Subscribe, Relaying, AtWork
  <2>2. \A s \in Sockets, t \in Tasks :
          /\ Relaying(t)' => Relaying(t)
          /\ AtWork(t) => AtWork(t)' /\ Awaited(s, t)' = Awaited(s, t)
    BY <2>1 DEF Relaying, AtWork, Awaited
  <2> QED
    BY <1>2, <2>1, <2>2
<1>7. ASSUME NEW u \in Tasks, Take(u)
      PROVE  FeedInv'
  <2>1. /\ UNCHANGED <<sock, cancelled, recv, published>>
        /\ task[u] = "listening" /\ u \notin cancelled /\ inbox[u] # <<>>
        /\ \/ /\ conns[RoomOf[u]] = {} /\ UNCHANGED <<task, todo>>
              /\ inbox' = [inbox EXCEPT ![u] = Tail(inbox[u])]
           \/ /\ task' = [task EXCEPT ![u] = "sending"] /\ inbox' = inbox
              /\ todo' = [todo EXCEPT ![u] = conns[RoomOf[u]]]
    BY <1>7 DEF Take
  <2>2. ASSUME NEW s \in Sockets, NEW t \in Tasks, sock[s] = "open",
               Relaying(t)', RoomOf[t] = RoomOf[s]
        PROVE  /\ Relaying(t)
               /\ AtWork(t) => AtWork(t)' /\ Awaited(s, t)' = Awaited(s, t)
    <3>1. s \in conns[RoomOf[t]]
      BY <1>0, <2>2 DEF QueueInv, Members
    <3>2. CASE t # u
      BY <1>1, <2>1, <2>2, <3>2 DEF Relaying, AtWork, Awaited
    <3>3. CASE t = u
      BY <1>1, <2>1, <3>1, <3>3 DEF Relaying, AtWork, Awaited
    <3> QED
      BY <3>2, <3>3
  <2> QED
    BY <1>2, <2>1, <2>2
<1>8. ASSUME NEW u \in Tasks, NEW x \in Sockets, NEW ok \in BOOLEAN,
             Send(u, x, ok)
      PROVE  FeedInv'
  BY <1>0, <1>8, FedBySend DEF FeedInv
<1>9. ASSUME NEW u \in Tasks, Cancelled(u) \/ Close(u) \/ RedisFails(u)
      PROVE  FeedInv'
  <2>1. /\ UNCHANGED <<sock, recv, published>>
        /\ cancelled' = cancelled \ {u}
        /\ task' = [task EXCEPT ![u] = "closing"] \/ task' = [task EXCEPT ![u] = "done"]
        /\ todo' = [todo EXCEPT ![u] = {}]
        /\ inbox' = inbox \/ inbox' = [inbox EXCEPT ![u] = <<>>]
    BY <1>9 DEF Cancelled, Close, RedisFails, Stop
  <2>2. ASSUME NEW s \in Sockets, NEW t \in Tasks, Relaying(t)'
        PROVE  /\ Relaying(t)
               /\ AtWork(t) => AtWork(t)' /\ Awaited(s, t)' = Awaited(s, t)
    <3>1. t # u
      BY <1>1, <2>1, <2>2 DEF Relaying
    <3> QED
      BY <1>1, <2>1, <2>2, <3>1 DEF Relaying, AtWork, Awaited
  <2> QED
    BY <1>2, <2>1, <2>2
<1>10. ASSUME UNCHANGED vars
       PROVE  FeedInv'
  <2>1. UNCHANGED <<sock, task, cancelled, recv, inbox, todo, published>>
    BY <1>10 DEF vars, tasks
  <2> QED
    BY <1>2, <2>1 DEF Relaying, AtWork, Awaited
<1> QED
  BY <1>3, <1>4, <1>5, <1>6, <1>7, <1>8, <1>9, <1>10 DEF Next, Relay

(* A client sees each update once, in order and without a gap, whatever    *)
(* joins, leaves and breaks meanwhile: the queue of the one relay of its   *)
(* room is without a gap, and no client gets a second relay                *)
(* (ws/gateway.py:60-86).                                                  *)
THEOREM FeedsAreContiguous == Spec => []FeedContiguous
<1>1. FeedInv => FeedContiguous
  BY DEF FeedInv, FeedContiguous, Consecutive
<1> QED
  BY <1>1, FeedInit, FeedStep, PTL DEF Spec

============================================================================
