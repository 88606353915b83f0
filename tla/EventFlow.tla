----------------------------- MODULE EventFlow ------------------------------
(***************************************************************************)
(* How an event becomes light: the tasks of the daemon and the bounded     *)
(* mailboxes between them.                                                 *)
(*                                                                         *)
(*   source task --HandleEvent--> TreeServer --reply--> source task        *)
(*   source task --ApplyUpdates--> UpdateServer --ValuesUpdated--> HueServer *)
(*                                      \--SetProperty--> RedstoneServer   *)
(*                              --SetProperty, PingTimeout--> DeviceServer *)
(*                                                                         *)
(* A source task is a DeviceServer (a Redstone device may hold sources and *)
(* sinks), the ClockServer or a connection of the LegacyMcu server.  Each  *)
(* of them handles one event at a time: it asks the tree, awaits the reply *)
(* and awaits the send of that reply to the update server.                 *)
(*                                                                         *)
(* Values are abstracted to the event that caused them.  The launch of the *)
(* servers is here as far as it decides which updates have somewhere to    *)
(* go; shutdown and the life of a device's connection are not.             *)
(***************************************************************************)
EXTENDS Integers, Sequences, FiniteSets, Functions

CONSTANTS
  Task,       \* tasks that raise events
  Device,     \* those of them that are device servers
  Source,     \* source nodes of the tree
  SourcesOf,  \* [Task -> SUBSET Source]: what a task raises events for
  Light,      \* hue sinks
  Property,   \* redstone sinks
  DeviceOf,   \* [Property -> Device, or NoTask if no device server has it]
  PingOrder,  \* the devices in the order of the gateway's hash map
  Observers,  \* [Source -> SUBSET Sink]: the sinks that depend on a source
  Capacity,   \* room in a mailbox: 16 in the code
  Faulty,     \* whether computing or applying a value may fail
  MaxEvents,  \* bound: events raised in a behaviour
  NoTask      \* nobody

Sink == Light \cup Property

ASSUME TaskAssumption == Device \subseteq Task /\ NoTask \notin Task
ASSUME SinkAssumption == Light \cap Property = {}
ASSUME WiringAssumption ==
  /\ SourcesOf \in [Task -> SUBSET Source]
  /\ DeviceOf \in [Property -> Device \cup {NoTask}]
  /\ Observers \in [Source -> SUBSET Sink]
ASSUME OrderAssumption ==
  PingOrder \in Seq(Device) /\ Range(PingOrder) = Device
ASSUME BoundAssumption ==
  Capacity \in Nat \ {0} /\ MaxEvents \in Nat /\ Faulty \in BOOLEAN

VARIABLES
  generation,   \* Tree::generation
  stage,        \* where a task is in handling an event
  event,        \* the source of the event a task is handling
  reply,        \* what the tree replied to a task
  treeBox,      \* mailbox of the tree server: the tasks that ask
  mainPc,       \* how far main has come in wiring the servers
  updateBox,    \* mailbox of the update server
  hueSet,       \* maybe_hue is Some
  redstoneSet,  \* maybe_redstone is Some
  applying,     \* what the update server has still to pass on
  hueBox,       \* mailbox of the hue server
  hueWork,      \* the batch the hue server is applying
  redstoneBox,  \* mailbox of the redstone server
  forwarding,   \* the property the redstone server is sending to a device
  pinging,      \* the devices the redstone server has still to ping
  deviceBox,    \* mailbox of each device server
  computed,     \* history: newest event whose value the tree computed
  shown,        \* history: newest event shown, per sink and task
  owner         \* the task whose value a sink shows now

treeVars == <<generation, treeBox, computed>>
taskVars == <<stage, event, reply>>
updateVars == <<updateBox, hueSet, redstoneSet, applying>>
hueVars == <<hueBox, hueWork>>
redstoneVars == <<redstoneBox, forwarding, pinging, deviceBox>>
sinkVars == <<shown, owner>>
vars == <<treeVars, taskVars, mainPc, updateVars, hueVars, redstoneVars, sinkVars>>

-----------------------------------------------------------------------------
\* The values that one event gives to some sinks.
Batch == {b \in [task : Task \cup {NoTask}, gen : Nat, sinks : SUBSET Sink] :
            b.sinks # {} => b.task \in Task /\ b.gen > 0}
NoBatch == [task |-> NoTask, gen |-> 0, sinks |-> {}]

\* A value for one redstone sink.
Item == [sink : Property, task : Task, gen : Nat \ {0}]

\* What the gateway sends a device server: values and pings.
PingTimeout == [sink |-> NoTask, task |-> NoTask, gen |-> 0]
DeviceMessage == Item \cup {PingTimeout}

ItemsOf(b) == [sink : b.sinks, task : {b.task}, gen : {b.gen}]

SetHue == [kind |-> "set_hue", batch |-> NoBatch]
SetRedstone == [kind |-> "set_redstone", batch |-> NoBatch]
Apply(b) == [kind |-> "apply", batch |-> b]
UpdateMessage ==
  [kind : {"set_hue", "set_redstone", "apply"}, batch : Batch]

\* Mutant of HasRoom: one message too many.
HasRoomOffByOne(box) == Len(box) <= Capacity

HasRoom(box) == Len(box) < Capacity
Minus(b, S) == [b EXCEPT !.sinks = @ \ S]

TypeOK ==
  /\ generation \in Nat
  /\ stage \in [Task -> {"idle", "asking", "waiting", "sending"}]
  /\ event \in [Task -> Source \cup {NoTask}]
  /\ reply \in [Task -> Batch]
  /\ treeBox \in Seq(Task) /\ Len(treeBox) <= Capacity
  /\ mainPc \in {"set_redstone", "set_hue", "launched"}
  /\ updateBox \in Seq(UpdateMessage) /\ Len(updateBox) <= Capacity
  /\ hueSet \in BOOLEAN /\ redstoneSet \in BOOLEAN
  /\ applying \in Batch
  /\ hueBox \in Seq(Batch) /\ Len(hueBox) <= Capacity /\ hueWork \in Batch
  /\ redstoneBox \in Seq(Item) /\ Len(redstoneBox) <= Capacity
  /\ forwarding \in SUBSET {x \in Item : DeviceOf[x.sink] # NoTask}
  /\ pinging \in Seq(Device)
  /\ deviceBox \in [Device -> Seq(DeviceMessage)]
  /\ \A d \in Device : Len(deviceBox[d]) <= Capacity
  /\ computed \in [Sink -> [Task -> Nat]]
  /\ shown \in [Sink -> [Task -> Nat]]
  /\ owner \in [Sink -> Task \cup {NoTask}]

Init ==
  /\ generation = 0
  /\ stage = [t \in Task |-> "idle"]
  /\ event = [t \in Task |-> NoTask]
  /\ reply = [t \in Task |-> NoBatch]
  /\ treeBox = <<>>
  /\ mainPc = "set_redstone"
  /\ updateBox = <<>>
  /\ hueSet = FALSE /\ redstoneSet = FALSE
  /\ applying = NoBatch
  /\ hueBox = <<>> /\ hueWork = NoBatch
  /\ redstoneBox = <<>> /\ forwarding = {} /\ pinging = <<>>
  /\ deviceBox = [d \in Device |-> <<>>]
  /\ computed = [s \in Sink |-> [t \in Task |-> 0]]
  /\ shown = [s \in Sink |-> [t \in Task |-> 0]]
  /\ owner = [s \in Sink |-> NoTask]

-----------------------------------------------------------------------------
\* main wires the update server, once the device servers are running and before
\* the clock and the legacy MCU server are launched.
MainSetRedstone ==
  /\ mainPc = "set_redstone"
  /\ HasRoom(updateBox)
  /\ updateBox' = Append(updateBox, SetRedstone)
  /\ mainPc' = "set_hue"
  /\ UNCHANGED <<treeVars, taskVars, hueSet, redstoneSet, applying, hueVars,
                 redstoneVars, sinkVars>>

MainSetHue ==
  /\ mainPc = "set_hue"
  /\ HasRoom(updateBox)
  /\ updateBox' = Append(updateBox, SetHue)
  /\ mainPc' = "launched"
  /\ UNCHANGED <<treeVars, taskVars, hueSet, redstoneSet, applying, hueVars,
                 redstoneVars, sinkVars>>

-----------------------------------------------------------------------------
\* A source task: tree.handle_event(..).await, then update.apply_updates(..).await.

InTree(t) == stage[t] \in {"asking", "waiting"}
Raised == generation + Cardinality({t \in Task : InTree(t)})

\* Mutant of RaiseEvent: the clock and the MCU server do not wait for main.
RaiseEventEarly(t, src) ==
  /\ stage[t] = "idle"
  /\ src \in SourcesOf[t]
  /\ Raised < MaxEvents
  /\ stage' = [stage EXCEPT ![t] = "asking"]
  /\ event' = [event EXCEPT ![t] = src]
  /\ UNCHANGED <<treeVars, reply, mainPc, updateVars, hueVars, redstoneVars,
                 sinkVars>>

RaiseEvent(t, src) ==
  /\ stage[t] = "idle"
  /\ src \in SourcesOf[t]
  /\ t \in Device \/ mainPc = "launched"
  /\ Raised < MaxEvents
  /\ stage' = [stage EXCEPT ![t] = "asking"]
  /\ event' = [event EXCEPT ![t] = src]
  /\ UNCHANGED <<treeVars, reply, mainPc, updateVars, hueVars, redstoneVars,
                 sinkVars>>

AskTree(t) ==
  /\ stage[t] = "asking"
  /\ HasRoom(treeBox)
  /\ treeBox' = Append(treeBox, t)
  /\ stage' = [stage EXCEPT ![t] = "waiting"]
  /\ UNCHANGED <<generation, computed, event, reply, mainPc, updateVars, hueVars,
                 redstoneVars, sinkVars>>

SendUpdates(t) ==
  /\ stage[t] = "sending"
  /\ HasRoom(updateBox)
  /\ updateBox' = Append(updateBox, Apply(reply[t]))
  /\ stage' = [stage EXCEPT ![t] = "idle"]
  /\ reply' = [reply EXCEPT ![t] = NoBatch]
  /\ UNCHANGED <<treeVars, event, mainPc, hueSet, redstoneSet, applying, hueVars,
                 redstoneVars, sinkVars>>

-----------------------------------------------------------------------------
\* The tree server handles one message at a time and never blocks: the reply
\* travels in a oneshot channel.

\* Either every observing sink is computed or, if one of them cannot be, the
\* reply is empty.
Computed(src) ==
  IF Faulty THEN {Observers[src], {}} ELSE {Observers[src]}

\* Mutant of TreeHandleEvent: the value is stamped before the generation advances.
TreeHandleEventStampFirst ==
  /\ treeBox # <<>>
  /\ LET t == Head(treeBox)
     IN \E S \in Computed(event[t]) :
          /\ generation' = generation + 1
          /\ reply' = [reply EXCEPT
                         ![t] = [task |-> t, gen |-> generation, sinks |-> S]]
          /\ stage' = [stage EXCEPT ![t] = "sending"]
          /\ event' = [event EXCEPT ![t] = NoTask]
          /\ UNCHANGED computed
  /\ treeBox' = Tail(treeBox)
  /\ UNCHANGED <<mainPc, updateVars, hueVars, redstoneVars, sinkVars>>

TreeHandleEvent ==
  /\ treeBox # <<>>
  /\ LET t == Head(treeBox)
         gen == generation + 1
     IN \E S \in Computed(event[t]) :
          /\ generation' = gen
          /\ reply' = [reply EXCEPT
                         ![t] = [task |-> t, gen |-> gen, sinks |-> S]]
          /\ stage' = [stage EXCEPT ![t] = "sending"]
          /\ event' = [event EXCEPT ![t] = NoTask]
          /\ computed' = [s \in Sink |->
                            IF s \in S THEN [computed[s] EXCEPT ![t] = gen]
                                       ELSE computed[s]]
  /\ treeBox' = Tail(treeBox)
  /\ UNCHANGED <<mainPc, updateVars, hueVars, redstoneVars, sinkVars>>

-----------------------------------------------------------------------------
\* The update server: it takes the next message only when everything of the one
\* before has been sent on.

\* Mutant of Wired: redstone only if there is nothing for hue.
WiredElse(S) ==
  IF hueSet /\ S \cap Light # {} THEN S \cap Light
  ELSE IF redstoneSet THEN S \cap Property ELSE {}

\* The sinks of a batch that have somewhere to go.
Wired(S) == (IF hueSet THEN S \cap Light ELSE {})
              \cup (IF redstoneSet THEN S \cap Property ELSE {})

UpdateTakeSetHue ==
  /\ applying.sinks = {}
  /\ updateBox # <<>>
  /\ Head(updateBox).kind = "set_hue"
  /\ hueSet' = TRUE
  /\ updateBox' = Tail(updateBox)
  /\ UNCHANGED <<treeVars, taskVars, mainPc, redstoneSet, applying, hueVars,
                 redstoneVars, sinkVars>>

UpdateTakeSetRedstone ==
  /\ applying.sinks = {}
  /\ updateBox # <<>>
  /\ Head(updateBox).kind = "set_redstone"
  /\ redstoneSet' = TRUE
  /\ updateBox' = Tail(updateBox)
  /\ UNCHANGED <<treeVars, taskVars, mainPc, hueSet, applying, hueVars,
                 redstoneVars, sinkVars>>

\* Values for a subsystem that is not wired yet are dropped without a word.
UpdateTakeApply ==
  /\ applying.sinks = {}
  /\ updateBox # <<>>
  /\ Head(updateBox).kind = "apply"
  /\ LET b == Head(updateBox).batch
     IN applying' = [b EXCEPT !.sinks = Wired(@)]
  /\ updateBox' = Tail(updateBox)
  /\ UNCHANGED <<treeVars, taskVars, mainPc, hueSet, redstoneSet, hueVars,
                 redstoneVars, sinkVars>>

\* Mutant of UpdateToHue: the values sent are not taken off the batch.
UpdateToHueAgain ==
  LET lights == applying.sinks \cap Light
  IN /\ lights # {}
     /\ HasRoom(hueBox)
     /\ hueBox' = Append(hueBox, [applying EXCEPT !.sinks = lights])
     /\ UNCHANGED <<treeVars, taskVars, mainPc, updateVars, hueWork,
                    redstoneVars, sinkVars>>

\* First all the hue values in one message,
UpdateToHue ==
  LET lights == applying.sinks \cap Light
  IN /\ lights # {}
     /\ HasRoom(hueBox)
     /\ hueBox' = Append(hueBox, [applying EXCEPT !.sinks = lights])
     /\ applying' = Minus(applying, lights)
     /\ UNCHANGED <<treeVars, taskVars, mainPc, updateBox, hueSet, redstoneSet,
                    hueWork, redstoneVars, sinkVars>>

\* then the redstone properties one by one, in the order of a hash map.
UpdateToRedstone(p) ==
  /\ applying.sinks \cap Light = {}
  /\ p \in applying.sinks
  /\ HasRoom(redstoneBox)
  /\ redstoneBox' = Append(redstoneBox,
        [sink |-> p, task |-> applying.task, gen |-> applying.gen])
  /\ applying' = Minus(applying, {p})
  /\ UNCHANGED <<treeVars, taskVars, mainPc, updateBox, hueSet, redstoneSet,
                 hueVars, forwarding, pinging, deviceBox, sinkVars>>

-----------------------------------------------------------------------------
\* The hue server applies a batch in groups of lights that get the same value,
\* one request to the bridge after the other.

Display(S, t, g) ==
  /\ shown' = [s \in Sink |->
                 IF s \in S THEN [shown[s] EXCEPT ![t] = g] ELSE shown[s]]
  /\ owner' = [s \in Sink |-> IF s \in S THEN t ELSE owner[s]]

\* Mutant of HueTake: a batch stays in the mailbox and is applied again.
HueTakeTwice ==
  /\ hueWork.sinks = {}
  /\ hueBox # <<>>
  /\ hueWork' = Head(hueBox)
  /\ UNCHANGED <<treeVars, taskVars, mainPc, updateVars, hueBox, redstoneVars,
                 sinkVars>>

HueTake ==
  /\ hueWork.sinks = {}
  /\ hueBox # <<>>
  /\ hueWork' = Head(hueBox)
  /\ hueBox' = Tail(hueBox)
  /\ UNCHANGED <<treeVars, taskVars, mainPc, updateVars, redstoneVars, sinkVars>>

HueApply(group) ==
  /\ group # {} /\ group \subseteq hueWork.sinks
  /\ Display(group, hueWork.task, hueWork.gen)
  /\ hueWork' = Minus(hueWork, group)
  /\ UNCHANGED <<treeVars, taskVars, mainPc, updateVars, hueBox, redstoneVars>>

\* A failed PUT is logged and the next group is tried (group is one of them); a
\* value that is no string or no color, and a group that cannot be made, abandon
\* the rest of the batch (group is all of it).
HueFail(group) ==
  /\ Faulty
  /\ group # {} /\ group \subseteq hueWork.sinks
  /\ hueWork' = Minus(hueWork, group)
  /\ UNCHANGED <<treeVars, taskVars, mainPc, updateVars, hueBox, redstoneVars,
                 sinkVars>>

-----------------------------------------------------------------------------
\* Mutant of RedstoneTake: a property with a device server is dropped too.
RedstoneTakeDrops ==
  /\ forwarding = {} /\ pinging = <<>>
  /\ redstoneBox # <<>>
  /\ forwarding' = {}
  /\ redstoneBox' = Tail(redstoneBox)
  /\ UNCHANGED <<treeVars, taskVars, mainPc, updateVars, hueVars, pinging,
                 deviceBox, sinkVars>>

\* The redstone server hands a property to its device server, if there is one.
RedstoneTake ==
  /\ forwarding = {} /\ pinging = <<>>
  /\ redstoneBox # <<>>
  /\ forwarding' = {x \in {Head(redstoneBox)} : DeviceOf[x.sink] # NoTask}
  /\ redstoneBox' = Tail(redstoneBox)
  /\ UNCHANGED <<treeVars, taskVars, mainPc, updateVars, hueVars, pinging,
                 deviceBox, sinkVars>>

RedstoneForward ==
  \E x \in forwarding :
    LET d == DeviceOf[x.sink]
    IN /\ HasRoom(deviceBox[d])
       /\ deviceBox' = [deviceBox EXCEPT ![d] = Append(@, x)]
       /\ forwarding' = {}
       /\ UNCHANGED <<treeVars, taskVars, mainPc, updateVars, hueVars,
                      redstoneBox, pinging, sinkVars>>

\* When 15 s have passed in which it took no message (select looks at the delay
\* first, so one may have come), it pings all device servers in turn, those
\* without sinks too.
RedstonePing ==
  /\ forwarding = {} /\ pinging = <<>>
  /\ pinging' = PingOrder
  /\ UNCHANGED <<treeVars, taskVars, mainPc, updateVars, hueVars, redstoneBox,
                 forwarding, deviceBox, sinkVars>>

RedstonePingNext ==
  /\ pinging # <<>>
  /\ HasRoom(deviceBox[Head(pinging)])
  /\ deviceBox' = [deviceBox EXCEPT ![Head(pinging)] = Append(@, PingTimeout)]
  /\ pinging' = Tail(pinging)
  /\ UNCHANGED <<treeVars, taskVars, mainPc, updateVars, hueVars, redstoneBox,
                 forwarding, sinkVars>>

\* A device server looks at its mailbox only between two events of its own.
DeviceSet(d) ==
  /\ stage[d] = "idle"
  /\ deviceBox[d] # <<>> /\ Head(deviceBox[d]) # PingTimeout
  /\ LET x == Head(deviceBox[d])
     IN \/ Display({x.sink}, x.task, x.gen)
        \/ Faulty /\ UNCHANGED sinkVars
  /\ deviceBox' = [deviceBox EXCEPT ![d] = Tail(@)]
  /\ UNCHANGED <<treeVars, taskVars, mainPc, updateVars, hueVars, redstoneBox,
                 forwarding, pinging>>

\* What a ping does to the connection is told by Redstone.
DevicePing(d) ==
  /\ stage[d] = "idle"
  /\ deviceBox[d] # <<>> /\ Head(deviceBox[d]) = PingTimeout
  /\ deviceBox' = [deviceBox EXCEPT ![d] = Tail(@)]
  /\ UNCHANGED <<treeVars, taskVars, mainPc, updateVars, hueVars, redstoneBox,
                 forwarding, pinging, sinkVars>>

-----------------------------------------------------------------------------
Quiescent ==
  /\ \A t \in Task : stage[t] = "idle"
  /\ mainPc = "launched"
  /\ updateBox = <<>> /\ applying.sinks = {}
  /\ hueBox = <<>> /\ hueWork.sinks = {}
  /\ redstoneBox = <<>> /\ forwarding = {} /\ pinging = <<>>
  /\ \A d \in Device : deviceBox[d] = <<>>

\* The device the redstone server waits for: it has a property or a ping for it.
WaitsFor(d) ==
  /\ (\E x \in forwarding : DeviceOf[x.sink] = d) \/ (pinging # <<>> /\ Head(pinging) = d)
  /\ ~HasRoom(deviceBox[d])

\* A device server waits for room at the update server, which waits for room at the
\* redstone server, which waits for room at the device server.
Circle ==
  \E d \in Device :
    /\ WaitsFor(d)
    /\ stage[d] = "sending" /\ ~HasRoom(updateBox)
    /\ applying.sinks \cap Property # {} /\ ~HasRoom(redstoneBox)

\* The daemon waits for events, and with MaxEvents none may come; or it stands still
\* in the circle.
Idle == (Quiescent \/ Circle) /\ UNCHANGED vars

HueStep == \E group \in SUBSET Light : HueApply(group) \/ HueFail(group)
UpdateStep ==
  \/ UpdateTakeSetHue \/ UpdateTakeSetRedstone \/ UpdateTakeApply
  \/ UpdateToHue
  \/ \E p \in Property : UpdateToRedstone(p)
RedstoneStep ==
  RedstoneTake \/ RedstoneForward \/ RedstonePing \/ RedstonePingNext
DeviceStep(d) == DeviceSet(d) \/ DevicePing(d)

Next ==
  \/ MainSetRedstone \/ MainSetHue
  \/ \E t \in Task, src \in Source : RaiseEvent(t, src)
  \/ \E t \in Task : AskTree(t) \/ SendUpdates(t)
  \/ TreeHandleEvent
  \/ UpdateStep
  \/ HueTake \/ HueStep
  \/ RedstoneStep
  \/ \E d \in Device : DeviceStep(d)
  \/ Idle

\* Every task runs when it can; a send that waits for room gets it in turn, as
\* the channel's semaphore is fair.  The redstone server's delay starts anew each
\* turn, so that a message that waits is taken in spite of the pings.  Nothing
\* says that events are raised, or that 15 s pass without a message.
Fairness ==
  /\ SF_vars(MainSetRedstone \/ MainSetHue)
  /\ \A t \in Task : SF_vars(AskTree(t) \/ SendUpdates(t))
  /\ WF_vars(TreeHandleEvent)
  /\ WF_vars(UpdateStep)
  /\ WF_vars(HueTake \/ HueStep)
  /\ SF_vars(RedstoneTake)
  /\ WF_vars(RedstoneForward \/ RedstonePingNext)
  /\ \A d \in Device : WF_vars(DeviceStep(d))

Spec == Init /\ [][Next]_vars
FairSpec == Spec /\ Fairness

-----------------------------------------------------------------------------
\* Everything the tree has computed and no sink has shown yet.
BoxItems(box) == UNION {ItemsOf(b) : b \in Range(box)}

InFlight ==
  (UNION {ItemsOf(reply[t]) : t \in Task})
    \cup (UNION {ItemsOf(m.batch) : m \in Range(updateBox)})
    \cup ItemsOf(applying)
    \cup BoxItems(hueBox) \cup ItemsOf(hueWork)
    \cup Range(redstoneBox) \cup forwarding
    \cup ((UNION {Range(deviceBox[d]) : d \in Device}) \ {PingTimeout})

Feed == INSTANCE SinkFeed WITH pending <- InFlight

\* The tasks and mailboxes of the daemon do what SinkFeed promises: every value
\* that reaches a sink was computed for it, is newer than the values of its task
\* that the sink has shown, and nothing appears twice.
ImplementsSinkFeed == Feed!Spec

\* Whatever is under way to a sink is newer than the values of the same task the
\* sink has shown.
NotOvertaken == Feed!NotOvertaken

\* The clock and the MCU connections are launched after the update server was
\* told where its values go, so their values always have somewhere to go.
WiredBeforeUse ==
  updateBox # <<>> /\ Head(updateBox).kind = "apply"
      /\ Head(updateBox).batch.task \in Task \ Device
    => hueSet /\ redstoneSet

\* The sinks that somebody serves.
Served == Light \cup {p \in Property : DeviceOf[p] # NoTask}

\* Without failures, once everything is quiet each sink has shown the newest
\* value that each task launched after the wiring obtained for it.
Delivered ==
  Quiescent /\ ~Faulty =>
    \A s \in Served, t \in Task \ Device : shown[s][t] = computed[s][t]

\* Once everything is quiet, each sink shows the value of the newest event that
\* it depends on, whichever task raised it.
LatestShown ==
  Quiescent => \A s \in Sink, t \in Task :
    owner[s] # NoTask => computed[s][t] <= shown[s][owner[s]]

\* A task that has raised an event gets through the tree and the update server, unless
\* the circle closes: then neither it nor any later event does.
EventsComplete ==
  \A t \in Task : stage[t] = "asking" ~> (stage[t] = "idle" \/ Circle)

\* Without failures a value that the tree computed for a task launched after the
\* wiring is shown, or a newer one of that task, unless the circle closes.
EventuallyShown ==
  \A s \in Served, t \in Task \ Device, g \in 1..MaxEvents :
    computed[s][t] = g ~> (shown[s][t] >= g \/ Circle)
=============================================================================
