------------------------------ MODULE Redstone ------------------------------
(***************************************************************************)
(* The life of the Redstone gateway and of its device servers.             *)
(*                                                                         *)
(* One RedstoneServer task owns one DeviceServer task per device.  It      *)
(* forwards properties to them, pings them when it has had nothing else to *)
(* do for PingPeriod, and at shutdown finishes and joins them one after    *)
(* the other.  A device server queries its device over HTTP, connects a    *)
(* websocket, serves it until something ends it, and starts again after    *)
(* RetryDelay if that was an error.                                        *)
(*                                                                         *)
(* What its device tells it, it passes on to the tree and to the update    *)
(* server, and it reads neither its mailbox nor its device until they have *)
(* taken it.  They are left out but for how long that takes: it may take   *)
(* any time, and for ever once the gateway, which they wait for, is itself *)
(* kept waiting.                                                           *)
(*                                                                         *)
(* Time is counted in steps of the shortest delay of the code and every    *)
(* clock is cut off where nothing reads it any further.  The values that   *)
(* travel are left out: EventFlow has them; where they go is in Things.    *)
(***************************************************************************)
EXTENDS Things

CONSTANTS
  Device,       \* the addresses of the devices that the tree names
  Houses,       \* what trees may say of them: sets of things
  Capacity,     \* room in the mailbox of a device server: 16 in the code
  PingPeriod,   \* idle time of the gateway before a ping: 15 s
  SeenLimit,    \* silence after which a device has timed out: 45 s
  RetryDelay,   \* wait before a new connection: 5 s
  MaxSets,      \* bound: properties set in a behaviour
  LinksFail,    \* whether requests fail and connections end by themselves:
                \* one of these holds throughout a behaviour
  PeersVanish,  \* whether a device may fall silent without closing anything
  CloseMayFail, \* whether closing a websocket may report an error
  AnswersStop,  \* whether a device may fall silent in the middle of an answer, or
                \* the bridge, which keeps those waiting who have an event to tell
  Overflows,    \* whether a number of a device may make its server panic
  NoDevice      \* nobody

ASSUME DeviceAssumption ==
  /\ NoDevice \notin Device /\ IsFiniteSet(Device)
  /\ \A things \in Houses : {Url(t) : t \in things} = Device
\* Nodes have paths of names, and a path leads to one node.
ASSUME HouseAssumption ==
  \A house \in Houses :
    /\ \A t \in house :
         /\ t.base \in Seq(STRING)
         /\ \A node \in t.nodes : node.kind \in {"source", "sink"}
    /\ \A t1, t2 \in house : t1.base = t2.base => t1 = t2
ASSUME TimeAssumption ==
  Capacity \in Nat \ {0} /\ MaxSets \in Nat
    /\ {PingPeriod, SeenLimit, RetryDelay} \subseteq Nat \ {0}
ASSUME FaultAssumption ==
  LinksFail \subseteq BOOLEAN /\
       {PeersVanish, CloseMayFail, AnswersStop, Overflows} \subseteq BOOLEAN

VARIABLES
  server,    \* the gateway: running, finishing, stopped, or failed
  sending,   \* what it is sending: a property or a ping
  todo,      \* the devices it has still to send it to
  joining,   \* the device server it awaits
  pingLeft,  \* what is left of its idle time
  sets,      \* history: properties set
  phase,     \* where each device server is in its loop
  box,       \* its mailbox
  retryLeft, \* what is left of its wait for a new connection
  age,       \* time since last_seen
  lost,      \* history: the devices that have fallen silent, or whose server has had
             \* to begin anew
  held,      \* history: of the others, time since last_seen in which the server was not
             \* reading, or the gateway was kept from sending
  uptime,    \* time since last_seen was first set, when the device was built
  alive,     \* whether the device is there to answer
  pong,      \* whether it has a ping to answer
  linksFail, \* whether connections fail in this behaviour
  things,    \* what the tree says
  devices    \* what the gateway made of it when it started

gatewayVars == <<server, sending, todo, joining, pingLeft, sets>>
deviceVars == <<phase, box, retryLeft, age, lost, held>>
fixedVars == <<linksFail, things, devices>>
peerVars == <<alive, pong, fixedVars>>
vars == <<gatewayVars, deviceVars, uptime, peerVars>>

Elapsed == 0..(SeenLimit + 1)
Later(t) == IF t > SeenLimit THEN t ELSE t + 1
Sooner(t) == IF t = 0 THEN 0 ELSE t - 1

TypeOK ==
  /\ server \in {"running", "finishing", "stopped", "failed"}
  /\ sending \in {"set", "ping"}
  /\ todo \in SUBSET Device
  /\ joining \in Device \cup {NoDevice}
  /\ pingLeft \in 0..PingPeriod
  /\ sets \in 0..MaxSets
  /\ phase \in [Device -> {"query", "report", "connect", "stream", "tell", "hung",
                          "retry", "exited", "panicked"}]
  /\ box \in [Device -> Seq({"set", "ping", "finish"})]
  /\ \A d \in Device : Len(box[d]) <= Capacity
  /\ retryLeft \in [Device -> 0..RetryDelay]
  /\ age \in [Device -> Elapsed]
  /\ lost \in SUBSET Device
  /\ held \in [Device -> Elapsed]
  /\ uptime \in Elapsed
  /\ alive \in [Device -> BOOLEAN]
  /\ pong \in [Device -> BOOLEAN]
  /\ linksFail \in LinksFail
  /\ things \in Houses /\ devices \in Devices(things)

Init ==
  /\ server = "running"
  /\ sending = "ping"
  /\ todo = {}
  /\ joining = NoDevice
  /\ pingLeft = PingPeriod
  /\ sets = 0
  /\ phase = [d \in Device |-> "query"]
  /\ box = [d \in Device |-> <<>>]
  /\ retryLeft = [d \in Device |-> 0]
  /\ age = [d \in Device |-> 0]
  /\ lost = {}
  /\ held = [d \in Device |-> 0]
  /\ uptime = 0
  /\ alive = [d \in Device |-> TRUE]
  /\ pong = [d \in Device |-> FALSE]
  /\ linksFail \in LinksFail
  /\ things \in Houses /\ devices \in Devices(things)

-----------------------------------------------------------------------------
\* The gateway: every turn of its loop starts a new delay, and a delay that is
\* over is seen before a message.
Waiting == server = "running" /\ todo = {}

GatewaySetProperty(path) ==
  /\ Waiting /\ pingLeft > 0
  /\ sets < MaxSets
  /\ sets' = sets + 1
  /\ sending' = "set"
  /\ todo' = Route(devices, path)
  /\ pingLeft' = IF todo' = {} THEN PingPeriod ELSE pingLeft
  /\ UNCHANGED <<server, joining, deviceVars, uptime, peerVars>>

GatewayPing ==
  /\ Waiting
  /\ pingLeft = 0
  /\ sending' = "ping"
  /\ todo' = Device
  /\ UNCHANGED <<server, joining, pingLeft, sets, deviceVars, uptime, peerVars>>

GatewayFinish ==
  /\ Waiting /\ pingLeft > 0
  /\ server' = "finishing"
  /\ todo' = Device
  /\ UNCHANGED <<sending, joining, pingLeft, sets, deviceVars, uptime, peerVars>>

\* A task that has ended has dropped its end of the mailbox.
Gone(d) == phase[d] \in {"exited", "panicked"}

\* Mutant of Put: no backpressure.
PutUnbounded(d, m) ==
  /\ ~Gone(d)
  /\ box' = [box EXCEPT ![d] = Append(@, m)]

\* Sending to a mailbox that is open and has room.
Put(d, m) ==
  /\ ~Gone(d)
  /\ Len(box[d]) < Capacity
  /\ box' = [box EXCEPT ![d] = Append(@, m)]

GatewaySend(d) ==
  /\ server = "running"
  /\ d \in todo
  /\ Put(d, sending)
  /\ todo' = todo \ {d}
  /\ pingLeft' = IF todo' = {} THEN PingPeriod ELSE pingLeft
  /\ UNCHANGED <<server, sending, joining, sets, phase, retryLeft, age, lost, held,
                 uptime, peerVars>>

GatewaySendFinish(d) ==
  /\ server = "finishing"
  /\ joining = NoDevice
  /\ d \in todo
  /\ Put(d, "finish")
  /\ todo' = todo \ {d}
  /\ joining' = d
  /\ UNCHANGED <<server, sending, pingLeft, sets, phase, retryLeft, age, lost, held,
                 uptime, peerVars>>

\* Mutant of GatewayJoin: the device server is told to finish and not awaited.
GatewayJoinNot ==
  /\ server = "finishing"
  /\ joining # NoDevice
  /\ joining' = NoDevice
  /\ UNCHANGED <<server, sending, todo, pingLeft, sets, deviceVars, uptime, peerVars>>

GatewayJoin ==
  /\ server = "finishing"
  /\ joining # NoDevice
  /\ phase[joining] = "exited"
  /\ joining' = NoDevice
  /\ UNCHANGED <<server, sending, todo, pingLeft, sets, deviceVars, uptime, peerVars>>

\* Joining a task that panicked is an error.
GatewayJoinFails ==
  /\ server = "finishing"
  /\ joining # NoDevice
  /\ phase[joining] = "panicked"
  /\ server' = "failed"
  /\ todo' = {}
  /\ joining' = NoDevice
  /\ UNCHANGED <<sending, pingLeft, sets, deviceVars, uptime, peerVars>>

GatewayStop ==
  /\ server = "finishing"
  /\ joining = NoDevice /\ todo = {}
  /\ server' = "stopped"
  /\ UNCHANGED <<sending, todo, joining, pingLeft, sets, deviceVars, uptime, peerVars>>

\* The mailbox of a device server that has exited refuses whatever is sent: the
\* error ends the gateway, which drops the mailboxes of all the others.
GatewayFail(d) ==
  /\ server \in {"running", "finishing"}
  /\ joining = NoDevice
  /\ d \in todo
  /\ Gone(d)
  /\ server' = "failed"
  /\ todo' = {}
  /\ UNCHANGED <<sending, joining, pingLeft, sets, deviceVars, uptime, peerVars>>

-----------------------------------------------------------------------------
\* The device servers.

\* On the way to a connection, or connected; telling what the device told.
Connected(d) == phase[d] \in {"stream", "tell"}
Underway(d) == Connected(d) \/ phase[d] \in {"query", "report", "connect"}
Telling(d) == phase[d] \in {"report", "tell"}

\* Going to another place in the loop; rest is what is left in the mailbox.  A
\* new connection works on a copy of the device as it was built, last_seen
\* included.
Enter(d, p, rest) ==
  /\ phase' = [phase EXCEPT ![d] = p]
  /\ box' = [box EXCEPT ![d] = IF Gone(d)' THEN <<>> ELSE rest]
  /\ retryLeft' = [retryLeft EXCEPT ![d] = IF p = "retry" THEN RetryDelay ELSE 0]
  /\ age' = [age EXCEPT ![d] = IF p = "stream" THEN uptime ELSE 0]
  /\ lost' = IF p = "retry" THEN lost \cup {d} ELSE lost
  /\ held' = [held EXCEPT ![d] = IF Underway(d)' THEN @ ELSE 0]
  /\ pong' = [pong EXCEPT ![d] = FALSE]
  /\ UNCHANGED <<gatewayVars, uptime, alive, fixedVars>>

\* The orderly end of a connection: the server returns, unless the close fails.
Close(d, rest) ==
  Enter(d, "exited", rest) \/ (CloseMayFail /\ Enter(d, "retry", rest))

Orphaned(d) == server \in {"stopped", "failed"} /\ box[d] = <<>>

\* A request to the device: over HTTP when there are values to ask for, at its host,
\* and to open the websocket.  The first value that is asked for is told before the next
\* one is: from then on the device server is at "report" until it has told the last.
NothingToAsk(d) == phase[d] = "query" /\ devices[d].sources = {}
Requesting(d) ==
  \/ phase[d] \in {"query", "connect"} /\ ~NothingToAsk(d)
  \/ phase[d] = "report" /\ Cardinality(devices[d].sources) > 1
Asked(d) == IF phase[d] = "connect" THEN d ELSE QueriedAt(d)
Reached(d) == Asked(d) \in Device /\ alive[Asked(d)]
Known(d) == devices[d].sources \cap Exposed(things, QueriedAt(d))
AllKnown(d) == devices[d].sources \subseteq Known(d)

RequestOk(d) ==
  \/ NothingToAsk(d) /\ Enter(d, "connect", box[d])
  \/ phase[d] = "query" /\ Reached(d) /\ Known(d) # {} /\ Enter(d, "report", box[d])
  \/ phase[d] = "connect" /\ Reached(d) /\ Enter(d, "stream", box[d])

RequestFails(d) ==
  /\ Requesting(d)
  /\ linksFail \/ ~Reached(d) \/ (phase[d] # "connect" /\ ~AllKnown(d))
  /\ Enter(d, "retry", box[d])

\* A device that falls silent in the middle of its answer: nothing limits the time
\* to read a body or to open a websocket, and meanwhile nobody reads the mailbox.
RequestHangs(d) ==
  /\ AnswersStop
  /\ Requesting(d) /\ Reached(d)
  /\ phase' = [phase EXCEPT ![d] = "hung"]
  /\ alive' = [alive EXCEPT ![Asked(d)] = FALSE]
  /\ pong' = [pong EXCEPT ![Asked(d)] = FALSE]
  /\ lost' = lost \cup {Asked(d)}
  /\ UNCHANGED <<gatewayVars, box, retryLeft, age, held, uptime, fixedVars>>

\* A value that is a negative number, in a build that checks for overflow: its sign
\* is taken off in a width that has no room for it, which ends the task.
ValuePanics(d) ==
  /\ Overflows /\ linksFail
  /\ phase[d] \in {"query", "stream", "tell"} /\ devices[d].sources # {} /\ Reached(d)
  /\ Enter(d, "panicked", <<>>)

\* The values that the device was asked for are events for the tree, and what these
\* change is for the update server.
Reported(d) ==
  /\ phase[d] = "report" /\ AllKnown(d)
  /\ Enter(d, "connect", box[d])

\* Mutant of Hear: a pong does not touch the device.
HearUntouched(d) ==
  /\ phase[d] = "stream" /\ alive[d]
  /\ pong' = [pong EXCEPT ![d] = FALSE]
  /\ UNCHANGED <<gatewayVars, deviceVars, uptime, alive, fixedVars>>

\* A ping, a pong or a text that says nothing of a source: the device has been seen.
Hear(d) ==
  /\ phase[d] = "stream" /\ alive[d]
  /\ age' = [age EXCEPT ![d] = 0]
  /\ held' = [held EXCEPT ![d] = 0]
  /\ pong' = [pong EXCEPT ![d] = FALSE]
  /\ UNCHANGED <<gatewayVars, phase, box, retryLeft, lost, uptime, alive, fixedVars>>

\* A text with properties, each of which is an event to be told.
HearText(d) ==
  /\ phase[d] = "stream" /\ alive[d] /\ devices[d].sources # {}
  /\ phase' = [phase EXCEPT ![d] = "tell"]
  /\ age' = [age EXCEPT ![d] = 0]
  /\ held' = [held EXCEPT ![d] = 0]
  /\ UNCHANGED <<gatewayVars, box, retryLeft, lost, uptime, peerVars>>

TextTold(d) ==
  /\ phase[d] = "tell"
  /\ phase' = [phase EXCEPT ![d] = "stream"]
  /\ UNCHANGED <<gatewayVars, box, retryLeft, age, lost, held, uptime, peerVars>>

\* An event that the tree cannot compute with, or for a server that has ended.
EventRefused(d) ==
  /\ Telling(d)
  /\ Enter(d, "retry", box[d])

\* The bridge does not answer, and so neither do those who wait for it.
EventHangs(d) ==
  /\ AnswersStop /\ Telling(d)
  /\ Enter(d, "hung", box[d])

\* A text that is not understood, or a message that cannot be sent.
StreamError(d) ==
  /\ Connected(d) /\ linksFail
  /\ Enter(d, "retry", box[d])

\* The device closes the connection, or receiving fails.
PeerCloses(d) ==
  /\ phase[d] = "stream" /\ linksFail
  /\ Close(d, box[d])

Next1(d, m) == box[d] # <<>> /\ Head(box[d]) = m

\* Mutant of StreamTakesSet: a property that cannot be sent finishes the server.
StreamTakesSetFinishes(d) ==
  /\ phase[d] = "stream" /\ Next1(d, "set")
  /\ Close(d, Tail(box[d]))

StreamTakesSet(d) ==
  /\ phase[d] = "stream" /\ Next1(d, "set")
  /\ box' = [box EXCEPT ![d] = Tail(@)]
  /\ UNCHANGED <<gatewayVars, phase, retryLeft, age, lost, held, uptime, peerVars>>

\* Mutant of StreamPings: last_seen is not looked at.
StreamPingsAlways(d) ==
  /\ phase[d] = "stream" /\ Next1(d, "ping")
  /\ box' = [box EXCEPT ![d] = Tail(@)]
  /\ pong' = [pong EXCEPT ![d] = alive[d]]
  /\ UNCHANGED <<gatewayVars, phase, retryLeft, age, lost, held, uptime, alive,
                 fixedVars>>

StreamPings(d) ==
  /\ phase[d] = "stream" /\ Next1(d, "ping")
  /\ age[d] <= SeenLimit
  /\ box' = [box EXCEPT ![d] = Tail(@)]
  /\ pong' = [pong EXCEPT ![d] = alive[d]]
  /\ UNCHANGED <<gatewayVars, phase, retryLeft, age, lost, held, uptime, alive,
                 fixedVars>>

StreamTimesOut(d) ==
  /\ phase[d] = "stream" /\ Next1(d, "ping")
  /\ age[d] > SeenLimit
  /\ Enter(d, "retry", Tail(box[d]))

StreamFinishes(d) ==
  /\ phase[d] = "stream"
  /\ \/ Next1(d, "finish") /\ Close(d, Tail(box[d]))
     \/ Orphaned(d) /\ Close(d, <<>>)

\* Mutant of RetryDrops: the message stays in the mailbox.
RetryDropsKeeps(d) ==
  /\ phase[d] = "retry" /\ retryLeft[d] > 0
  /\ Next1(d, "set") \/ Next1(d, "ping")
  /\ Enter(d, "retry", box[d])

\* Waiting to connect again: every message starts the delay anew.
RetryDrops(d) ==
  /\ phase[d] = "retry" /\ retryLeft[d] > 0
  /\ Next1(d, "set") \/ Next1(d, "ping")
  /\ Enter(d, "retry", Tail(box[d]))

\* Mutant of RetryFinishes: a finish is left for the next connection to take.
RetryFinishesLater(d) ==
  /\ phase[d] = "retry" /\ retryLeft[d] > 0
  /\ Orphaned(d) /\ Enter(d, "exited", <<>>)

\* Mutant of RetryFinishes: a closed mailbox ends the wait and not the server.
RetryFinishesOrphanStays(d) ==
  /\ phase[d] = "retry" /\ retryLeft[d] > 0
  /\ \/ Next1(d, "finish") /\ Enter(d, "exited", <<>>)
     \/ Orphaned(d) /\ Enter(d, "query", <<>>)

RetryFinishes(d) ==
  /\ phase[d] = "retry" /\ retryLeft[d] > 0
  /\ Next1(d, "finish") \/ Orphaned(d)
  /\ Enter(d, "exited", <<>>)

RetryExpires(d) ==
  /\ phase[d] = "retry" /\ retryLeft[d] = 0
  /\ Enter(d, "query", box[d])

-----------------------------------------------------------------------------
\* The devices: one falls silent, and comes back.
Vanish(d) ==
  /\ PeersVanish /\ alive[d]
  /\ alive' = [alive EXCEPT ![d] = FALSE]
  /\ pong' = [pong EXCEPT ![d] = FALSE]
  /\ lost' = lost \cup {d}
  /\ UNCHANGED <<gatewayVars, phase, box, retryLeft, age, held, uptime, fixedVars>>

Return(d) ==
  /\ ~alive[d]
  /\ alive' = [alive EXCEPT ![d] = TRUE]
  /\ UNCHANGED <<gatewayVars, deviceVars, uptime, pong, fixedVars>>

\* Time passes when nothing is due: delays that are over, messages that can be
\* sent or handled, and the answers of the devices that are there.  An event may take
\* any time.
Sendable(d) ==
  d \in todo /\ joining = NoDevice /\ (Gone(d) \/ Len(box[d]) < Capacity)

Due ==
  \/ Waiting /\ pingLeft = 0
  \/ \E d \in Device :
       \/ Sendable(d)
       \/ phase[d] = "retry" /\ retryLeft[d] = 0
       \/ phase[d] \in {"retry", "stream"} /\ (box[d] # <<>> \/ Orphaned(d))
       \/ phase[d] = "stream" /\ pong[d]
       \/ phase[d] \in {"query", "connect"} /\ (NothingToAsk(d) \/ Reached(d))

Tick ==
  /\ ~Due
  /\ pingLeft' = IF Waiting THEN Sooner(pingLeft) ELSE pingLeft
  /\ retryLeft' = [d \in Device |-> Sooner(retryLeft[d])]
  /\ age' = [d \in Device |-> IF Connected(d) THEN Later(age[d]) ELSE 0]
  /\ held' = [d \in Device |-> IF Underway(d) /\ d \notin lost /\ (phase[d] # "stream" \/ todo # {})
                               THEN Later(held[d]) ELSE held[d]]
  /\ uptime' = Later(uptime)
  /\ UNCHANGED <<server, sending, todo, joining, sets, phase, box, lost, peerVars>>

-----------------------------------------------------------------------------
\* What the gateway does of itself, one thing at a time.
GatewayRuns ==
  \/ GatewayPing \/ GatewayJoin \/ GatewayJoinFails \/ GatewayStop
  \/ \E d \in Device : GatewaySend(d) \/ GatewaySendFinish(d) \/ GatewayFail(d)

GatewayNext ==
  \/ GatewayRuns \/ GatewayFinish
  \/ \E path \in SinkPaths(things) : GatewaySetProperty(path)

\* What a device server does without anything from its device.
ServerStep(d) ==
  \/ StreamTakesSet(d) \/ StreamPings(d) \/ StreamTimesOut(d) \/ StreamFinishes(d)
  \/ RetryDrops(d) \/ RetryFinishes(d) \/ RetryExpires(d)

\* How the telling of an event ends.
EventEnds(d) == Reported(d) \/ TextTold(d) \/ EventRefused(d) \/ EventHangs(d)

DeviceNext(d) ==
  \/ ServerStep(d) \/ EventEnds(d)
  \/ RequestOk(d) \/ RequestFails(d) \/ RequestHangs(d) \/ ValuePanics(d)
  \/ Hear(d) \/ HearText(d) \/ StreamError(d) \/ PeerCloses(d)
  \/ Vanish(d) \/ Return(d)

Next == GatewayNext \/ Tick \/ \E d \in Device : DeviceNext(d)

\* The update server waits for the gateway, which reads its mailbox while it waits, and
\* has none any more once it has ended.
GatewayReads == Waiting \/ server \in {"stopped", "failed"}

\* What a device server waits for: an event is taken, or refused, if the gateway reads its
\* mailbox again and again, a request that does not hang is answered or refused, and a
\* device that is there answers a ping.
Answered(d) ==
  \/ GatewayReads /\ EventEnds(d)
  \/ RequestOk(d) \/ (~Telling(d) /\ RequestFails(d))
  \/ pong[d] /\ Hear(d)

\* The tasks run and time passes.  A device server takes what it is sent between two
\* messages of its device, which is not talking all the time.  Nobody has to set a
\* property or to ask for shutdown, and devices need not come back.
Fairness ==
  /\ SF_vars(Tick)
  /\ SF_vars(GatewayRuns)
  /\ \A d \in Device : SF_vars(ServerStep(d)) /\ SF_vars(Answered(d))

Spec == Init /\ [][Next]_vars
FairSpec == Spec /\ Fairness

-----------------------------------------------------------------------------
\* A gateway that stopped has seen every device server exit, and one that is
\* shutting down waits for one at a time: those it has not come to are not told
\* to finish yet.
ShutdownInTurn ==
  /\ server = "stopped" => \A d \in Device : phase[d] = "exited"
  /\ \A d \in Device :
       d \in todo \/ server = "running"
         => \A i \in 1..Len(box[d]) : box[d][i] # "finish"

\* The gateway does not fail of itself: without failing connections its device
\* servers are all there to be pinged, set and finished.
GatewaySurvives == server = "failed" => linksFail

\* The names in the tree that the code is right about: one thing at an address, and no
\* property renamed.
WellNamed ==
  /\ \A t1, t2 \in things : Url(t1) = Url(t2) => t1 = t2
  /\ \A t \in things : \A node \in t.nodes : node.property = {}

\* A property that is set goes to the device of the thing it is below, or to none;
\* with such names it gets there, under the name that the device knows, and what the
\* device tells of a property, and is asked for, is an event of its node in the tree.
Addressed ==
  \A t \in things : \A node \in t.nodes :
    LET url == Url(t)  path == Path(t, node)
    IN  \/ /\ node.kind = "sink"
           /\ Route(devices, path) \subseteq {url}
           /\ WellNamed => Route(devices, path) = {url} /\ Told(path) = Property(node)
        \/ /\ node.kind = "source"
           /\ Property(node) \in devices[url].sources /\ QueriedAt(url) = url
           /\ WellNamed => EventPath(devices, url, Property(node)) = path

\* A device server runs until it is told to finish: the loop around the
\* connection is there to connect again.
ExitOnlyWhenAsked ==
  \A d \in Device : phase[d] = "exited" => server # "running"

\* A device that is there and answers every ping is not timed out.
NoFalseAlarm == [][\A d \in Device : StreamTimesOut(d) => ~alive[d]]_vars

\* Each property that is set puts the next ping off, by less than a period, and so does
\* the time in which the gateway is kept from its pings or the device server from what
\* its device answers: taken together it may be too long.
Starved(d) == (1 + sets) * PingPeriod + held[d] > SeenLimit

\* At least it is not on its first connection, unless it is starved.
FirstConnectionHolds ==
  [][\A d \in Device : StreamTimesOut(d) => d \in lost \/ Starved(d)]_vars

\* A device server is in the way of the gateway when that awaits it, or would send to
\* its full mailbox, and it reads nothing: it hangs, or it tells an event to servers
\* that may be waiting for the gateway.
HoldsUp(d) ==
  /\ phase[d] = "hung" \/ Telling(d)
  /\ joining = d \/ (d \in todo /\ Len(box[d]) = Capacity)
HeldUp == \E d \in Device : HoldsUp(d)

\* A device server whose connection could not be closed has taken its finish and does
\* not know any more.
Forgets(d) ==
  joining = d /\ ~Gone(d) /\ \A i \in 1..Len(box[d]) : box[d][i] # "finish"

\* What keeps the gateway waiting for ever: a device server that holds it up, or one that
\* has forgotten to finish.
KeptWaiting == []HeldUp \/ [](\E d \in Device : Forgets(d))

\* The server of a device that has fallen silent notices, unless the gateway is kept
\* waiting for ever: then there are no more pings, or it is that server which waits.
SilenceNoticed ==
  \A d \in Device :
    (Connected(d) /\ ~alive[d]) ~> (~Connected(d) \/ alive[d] \/ KeptWaiting)

\* A device server that lost its connection tries again or exits, whatever
\* messages keep coming while it waits.
RetryEnds ==
  \A d \in Device : phase[d] = "retry" ~> (phase[d] = "query" \/ Gone(d))

\* A gateway that is told to finish ends, unless it is kept waiting for ever.
ShutdownEnds == server = "finishing" ~> (server \in {"stopped", "failed"} \/ KeptWaiting)

\* A property or a ping gets to the device servers it is meant for, whatever their
\* connections are doing, unless the gateway is held up for ever.
SendsEnd ==
  (server = "running" /\ todo # {}) ~> (todo = {} \/ []HeldUp)

\* When the gateway has failed no device server stays behind, but those that hang.
OrphansExit ==
  server = "failed" ~> \A d \in Device : Gone(d) \/ phase[d] = "hung"
=============================================================================
