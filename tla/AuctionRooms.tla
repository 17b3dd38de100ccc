---------------------------- MODULE AuctionRooms ----------------------------
(***************************************************************************)
(* The WebSocket gateway of one pod (ws/gateway.py): rooms of sockets, one *)
(* relay task per room, and the Redis channels the tasks listen to.        *)
(*                                                                         *)
(* The gateway is one event loop.  A step is what happens between two      *)
(* suspensions: the bodies under AuctionRoomManager._lock contain none, so *)
(* connect and disconnect are atomic.  A cancelled task does nothing but   *)
(* receive CancelledError at the await it is suspended in.                 *)
(*                                                                         *)
(* A relay task is known by the socket whose connect created it, and the   *)
(* n-th update of an auction by n.                                         *)
(***************************************************************************)
EXTENDS Naturals, Sequences, FiniteSets

CONSTANTS
    Rooms,       \* auction ids
    Sockets,     \* WebSocket connections, each made once
    RoomOf,      \* the auction in a socket's path
    NoTask,      \* _relay_tasks has no entry
    MaxUpdates,  \* bound: updates published per auction
    RedisFaults  \* bound: Redis connections that break

ASSUME RoomAssumption ==
    /\ RoomOf \in [Sockets -> Rooms]
    /\ NoTask \notin Sockets
    /\ MaxUpdates \in Nat
    /\ RedisFaults \in Nat

VARIABLES
    sock,        \* sock[s]: the client of s and the handler auction_room
    conns,       \* _connections
    relay,       \* _relay_tasks
    task,        \* task[t]: where the relay task t is suspended
    cancelled,   \* tasks asked to stop that have not noticed
    subscribed,  \* tasks whose channel subscription Redis serves
    inbox,       \* inbox[t]: updates sent to t's subscription, not yet read
    todo,        \* todo[t]: sockets the current broadcast has still to serve
    dead,        \* dead[t]: sockets the current broadcast failed to serve
    published,   \* published[a]: number of updates on auction:{a}:updates
    recv,        \* recv[s]: the updates s has received
    due,         \* history: updates published while s was in a served room
    faults       \* Redis connections that may still break

tasks == <<task, cancelled, subscribed, inbox, todo, dead>>
vars == <<sock, conns, relay, tasks, published, recv, due, faults>>

Tasks == Sockets

(* An open client vanishes ("gone") before its handler notices ("left").   *)
SocketStates == {"idle", "open", "gone", "left"}

TaskStates == {"none", "new", "subscribing", "listening", "sending",
               "closing", "done"}

(* Tasks that relay or are about to.                                       *)
Relaying(t) == /\ task[t] \in {"new", "subscribing", "listening", "sending"}
               /\ t \notin cancelled

Received(s) == {recv[s][i] : i \in 1 .. Len(recv[s])}

---------------------------------------------------------------------------

Init ==
    /\ sock = [s \in Sockets |-> "idle"]
    /\ conns = [a \in Rooms |-> {}]
    /\ relay = [a \in Rooms |-> NoTask]
    /\ task = [t \in Tasks |-> "none"]
    /\ cancelled = {}
    /\ subscribed = {}
    /\ inbox = [t \in Tasks |-> <<>>]
    /\ todo = [t \in Tasks |-> {}]
    /\ dead = [t \in Tasks |-> {}]
    /\ published = [a \in Rooms |-> 0]
    /\ recv = [s \in Sockets |-> <<>>]
    /\ due = [s \in Sockets |-> {}]
    /\ faults = RedisFaults

(* Update n of auction a is sent to the present subscribers.               *)
Broadcast(a, n) ==
    /\ published[a] < MaxUpdates
    /\ published' = [published EXCEPT ![a] = @ + 1]
    /\ inbox' = [t \in Tasks |->
                   IF t \in subscribed /\ RoomOf[t] = a
                   THEN Append(inbox[t], n) ELSE inbox[t]]
    /\ due' = [s \in Sockets |->
                 IF s \in conns[a] /\ relay[a] \in subscribed
                 THEN due[s] \cup {published[a] + 1} ELSE due[s]]
    /\ UNCHANGED <<sock, conns, relay, task, cancelled, subscribed, todo, dead,
                   recv, faults>>

(* Faulty: the update before is sent.                                      *)
PublishUpdate_Previous(a) == Broadcast(a, published[a])

(* The worker publishes a decision.  Redis keeps nothing for subscribers   *)
(* that come later.                                                        *)
PublishUpdate(a) == Broadcast(a, published[a] + 1)

---------------------------------------------------------------------------
(* Sockets                                                                 *)

(* s joins its room, and its handler starts a relay if needed holds.       *)
Join(s, needed) ==
    LET a == RoomOf[s] IN
    /\ sock[s] = "idle"
    /\ sock' = [sock EXCEPT ![s] = "open"]
    /\ conns' = [conns EXCEPT ![a] = @ \cup {s}]
    /\ IF needed
       THEN /\ relay' = [relay EXCEPT ![a] = s]
            /\ task' = [task EXCEPT ![s] = "new"]
       ELSE UNCHANGED <<relay, task>>
    /\ UNCHANGED <<cancelled, subscribed, inbox, todo, dead, published, recv,
                   due, faults>>

(* Faulty: a relay per socket.                                             *)
Connect_AlwaysStarts(s) == Join(s, TRUE)

(* connect: join the room, and start its relay if it has none.             *)
Connect(s) == Join(s, relay[RoomOf[s]] = NoTask)

(* The client closes the connection or disappears.                         *)
Vanish(s) ==
    /\ sock[s] = "open"
    /\ sock' = [sock EXCEPT ![s] = "gone"]
    /\ UNCHANGED <<conns, relay, tasks, published, recv, due, faults>>

(* Faulty: the relay is forgotten and not cancelled.                       *)
Leave_NotCancelled(a, S) ==
    /\ conns' = [conns EXCEPT ![a] = @ \ S]
    /\ relay' = IF S # {} /\ conns[a] \subseteq S THEN [relay EXCEPT ![a] = NoTask]
                                                 ELSE relay
    /\ UNCHANGED cancelled

(* Faulty: whoever leaves ends the room.                                   *)
Leave_AnySocket(a, S) ==
    /\ conns' = [conns EXCEPT ![a] = @ \ S]
    /\ IF S # {} /\ relay[a] # NoTask
       THEN /\ relay' = [relay EXCEPT ![a] = NoTask]
            /\ cancelled' = cancelled \cup {relay[a]}
       ELSE UNCHANGED <<relay, cancelled>>

(* disconnect, for each socket of S in turn: the last one to leave ends    *)
(* the room and cancels its relay.                                         *)
Leave(a, S) ==
    LET left == conns[a] \ S IN
    /\ conns' = [conns EXCEPT ![a] = left]
    /\ IF S # {} /\ left = {} /\ relay[a] # NoTask
       THEN /\ relay' = [relay EXCEPT ![a] = NoTask]
            /\ cancelled' = cancelled \cup {relay[a]}
       ELSE UNCHANGED <<relay, cancelled>>

(* auction_room: receive_text raises, and the handler disconnects.         *)
HandlerEnds(s) ==
    /\ sock[s] = "gone"
    /\ sock' = [sock EXCEPT ![s] = "left"]
    /\ Leave(RoomOf[s], {s})
    /\ UNCHANGED <<task, subscribed, inbox, todo, dead, published, recv, due,
                   faults>>

---------------------------------------------------------------------------
(* Relay tasks                                                             *)

(* The task runs for the first time and asks Redis for the channel.        *)
Begin(t) ==
    /\ task[t] = "new"
    /\ t \notin cancelled
    /\ task' = [task EXCEPT ![t] = "subscribing"]
    /\ UNCHANGED <<sock, conns, relay, cancelled, subscribed, inbox, todo,
                   dead, published, recv, due, faults>>

Subscribe(t) ==
    /\ task[t] = "subscribing"
    /\ t \notin cancelled
    /\ task' = [task EXCEPT ![t] = "listening"]
    /\ subscribed' = subscribed \cup {t}
    /\ UNCHANGED <<sock, conns, relay, cancelled, inbox, todo, dead, published,
                   recv, due, faults>>

(* listen yields an update; the broadcast takes a snapshot of the room.    *)
(* With nobody in the room the broadcast is over at once.                  *)
Take(t) ==
    /\ task[t] = "listening"
    /\ t \notin cancelled
    /\ inbox[t] # <<>>
    /\ IF conns[RoomOf[t]] = {}
       THEN inbox' = [inbox EXCEPT ![t] = Tail(@)] /\ UNCHANGED <<task, todo>>
       ELSE /\ task' = [task EXCEPT ![t] = "sending"]
            /\ todo' = [todo EXCEPT ![t] = conns[RoomOf[t]]]
            /\ UNCHANGED inbox
    /\ UNCHANGED <<sock, conns, relay, cancelled, subscribed, dead, published,
                   recv, due, faults>>

(* The send_text of t to s ends, and the sockets of rest are still to be   *)
(* served.  After the last one the broadcast disconnects the dead and the  *)
(* task listens again.                                                     *)
Served(t, s, ok, rest) ==
    /\ task[t] = "sending"
    /\ t \notin cancelled
    /\ s \in todo[t]
    /\ sock[s] = "open" => ok
    /\ recv' = IF sock[s] = "open" THEN [recv EXCEPT ![s] = Append(@, Head(inbox[t]))]
                                   ELSE recv
    /\ LET failed == IF ok THEN dead[t] ELSE dead[t] \cup {s}
       IN  /\ todo' = [todo EXCEPT ![t] = rest]
           /\ IF rest # {}
              THEN /\ dead' = [dead EXCEPT ![t] = failed]
                   /\ UNCHANGED <<conns, relay, cancelled, task, inbox>>
              ELSE /\ Leave(RoomOf[t], failed)
                   /\ dead' = [dead EXCEPT ![t] = {}]
                   /\ task' = [task EXCEPT ![t] = "listening"]
                   /\ inbox' = [inbox EXCEPT ![t] = Tail(@)]
    /\ UNCHANGED <<sock, subscribed, published, due, faults>>

(* Faulty: a failed send ends the broadcast.                               *)
Send_StopsAtFailure(t, s, ok) == Served(t, s, ok, IF ok THEN todo[t] \ {s} ELSE {})

(* One send_text of the broadcast.  It reaches an open client; for one     *)
(* that has gone it may raise or may seem to succeed.                      *)
Send(t, s, ok) == Served(t, s, ok, todo[t] \ {s})

(* The end of a task: it reads and writes nothing any more.                *)
Stop(t, state) ==
    /\ task' = [task EXCEPT ![t] = state]
    /\ cancelled' = cancelled \ {t}
    /\ todo' = [todo EXCEPT ![t] = {}]
    /\ dead' = [dead EXCEPT ![t] = {}]
    /\ UNCHANGED <<sock, conns, relay, published, recv, due>>

(* Faulty: the task ends without its finally block.                        *)
Cancelled_NoCleanup(t) ==
    /\ t \in cancelled
    /\ Stop(t, "done")
    /\ UNCHANGED <<subscribed, inbox, faults>>

(* CancelledError where the task is suspended.  In listen or send_text it  *)
(* leads to the finally block; before that nothing is there to clean up.   *)
Cancelled(t) ==
    /\ t \in cancelled
    /\ Stop(t, IF task[t] \in {"listening", "sending"} THEN "closing" ELSE "done")
    /\ UNCHANGED <<subscribed, inbox, faults>>

(* The finally block: unsubscribe and release the connection.              *)
Close(t) ==
    /\ task[t] = "closing"
    /\ Stop(t, "done")
    /\ subscribed' = subscribed \ {t}
    /\ inbox' = [inbox EXCEPT ![t] = <<>>]
    /\ UNCHANGED faults

(* Redis closes the connection: subscribe or listen raises, the exception  *)
(* ends the task, and _relay_tasks keeps it.                               *)
RedisFails(t) ==
    /\ task[t] \in {"subscribing", "listening"}
    /\ t \notin cancelled
    /\ faults > 0
    /\ faults' = faults - 1
    /\ Stop(t, "done")
    /\ subscribed' = subscribed \ {t}
    /\ inbox' = [inbox EXCEPT ![t] = <<>>]

---------------------------------------------------------------------------

Relay(t) ==
    \/ Begin(t) \/ Subscribe(t) \/ Take(t)
    \/ \E s \in Sockets, ok \in BOOLEAN : Send(t, s, ok)
    \/ Cancelled(t) \/ Close(t)

Next ==
    \/ \E a \in Rooms : PublishUpdate(a)
    \/ \E s \in Sockets : Connect(s) \/ Vanish(s) \/ HandlerEnds(s)
    \/ \E t \in Tasks : Relay(t) \/ RedisFails(t)

Spec == Init /\ [][Next]_vars

(* The event loop runs every task that can go on, a send to a client ends  *)
(* one way or the other, and the handler of a vanished client notices.     *)
(* Nothing is assumed of clients, updates and faults.                      *)
Fairness == /\ \A t \in Tasks : WF_vars(Relay(t))
            /\ \A s \in Sockets : WF_vars(HandlerEnds(s))

FairSpec == Spec /\ Fairness

---------------------------------------------------------------------------
(* Properties                                                              *)

TypeOK ==
    /\ sock \in [Sockets -> SocketStates]
    /\ conns \in [Rooms -> SUBSET Sockets]
    /\ relay \in [Rooms -> Tasks \cup {NoTask}]
    /\ task \in [Tasks -> TaskStates]
    /\ cancelled \subseteq Tasks
    /\ subscribed \subseteq Tasks
    /\ inbox \in [Tasks -> Seq(1 .. MaxUpdates)]
    /\ todo \in [Tasks -> SUBSET Sockets]
    /\ dead \in [Tasks -> SUBSET Sockets]
    /\ published \in [Rooms -> 0 .. MaxUpdates]
    /\ recv \in [Sockets -> Seq(1 .. MaxUpdates)]
    /\ due \in [Sockets -> SUBSET (1 .. MaxUpdates)]
    /\ faults \in Nat

(* A room has at most one task that relays, and it is the one registered   *)
(* in _relay_tasks; an abandoned task relays nothing (ws/gateway.py:39-58, *)
(* "one subscription per auction").                                        *)
OneRelayPerRoom ==
    \A t \in Tasks : Relaying(t) => relay[RoomOf[t]] = t

(* A client sees each update once, in order and without a gap between the  *)
(* first and the last it sees, whatever joins, leaves and breaks meanwhile *)
(* (ws/gateway.py:60-86).                                                  *)
FeedContiguous ==
    \A s \in Sockets : \A i \in 1 .. Len(recv[s]) - 1 :
        recv[s][i + 1] = recv[s][i] + 1

(* While somebody is in the room its relay is alive: it "runs until the    *)
(* last client in the room disconnects" (ws/gateway.py:61-62).             *)
RelayWhileOccupied ==
    \A a \in Rooms : conns[a] # {} =>
        relay[a] # NoTask /\ task[relay[a]] # "done" /\ relay[a] \notin cancelled

(* The same, up to the first Redis connection that breaks: no order of     *)
(* joining, leaving and broadcasting kills or orphans the relay            *)
(* (ws/gateway.py:36-58).                                                  *)
RelayUnlessFault == faults = RedisFaults => RelayWhileOccupied

(* An update published while a client's room is served reaches the client, *)
(* unless the client leaves or a Redis connection breaks                   *)
(* (ws/gateway.py:68-86).                                                  *)
EventuallyDelivered ==
    \A s \in Sockets : \A n \in 1 .. MaxUpdates :
        n \in due[s] ~> ( \/ n \in Received(s)
                         \/ sock[s] # "open"
                         \/ faults < RedisFaults )

(* A room that stays empty gives its Redis subscription back               *)
(* (ws/gateway.py:53-57,74-76).                                            *)
EventuallyUnsubscribed ==
    \A a \in Rooms :
        (conns[a] = {}) ~>
            (conns[a] # {} \/ \A t \in subscribed : RoomOf[t] # a)

============================================================================
