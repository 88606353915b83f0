-------------------------- MODULE EventFlowProofs ---------------------------
(***************************************************************************)
(* Facts about the event flow, proved for any tasks, devices, sources,     *)
(* sinks, wiring and mailbox capacity.                                     *)
(***************************************************************************)
EXTENDS EventFlow, TLAPS

\* What a receive leaves behind is a mailbox no longer than before.
LEMMA TakenBox ==
  ASSUME NEW M, NEW box \in Seq(M), Len(box) <= Capacity, box # <<>>
  PROVE  Head(box) \in M /\ Tail(box) \in Seq(M) /\ Len(Tail(box)) <= Capacity
BY BoundAssumption

\* A send that found room keeps the mailbox within its capacity.
LEMMA SentBox ==
  ASSUME NEW M, NEW box \in Seq(M), NEW m \in M, HasRoom(box)
  PROVE  Append(box, m) \in Seq(M) /\ Len(Append(box, m)) <= Capacity
BY BoundAssumption DEF HasRoom

LEMMA BatchFacts ==
  /\ NoBatch \in Batch
  /\ \A b \in Batch : \A S : Minus(b, S) \in Batch
  /\ \A b \in Batch : \A S \in SUBSET b.sinks : [b EXCEPT !.sinks = S] \in Batch
  /\ \A b \in Batch : Apply(b) \in UpdateMessage
  /\ SetHue \in UpdateMessage /\ SetRedstone \in UpdateMessage
<1>1. NoBatch \in Batch
  BY DEF NoBatch, Batch
<1>2. \A b \in Batch : \A S : Minus(b, S) \in Batch
  BY DEF Batch, Minus
<1>3. \A b \in Batch : \A S \in SUBSET b.sinks : [b EXCEPT !.sinks = S] \in Batch
  BY DEF Batch
<1>4. \A b \in Batch : Apply(b) \in UpdateMessage
  BY DEF Apply, UpdateMessage
<1>5. SetHue \in UpdateMessage /\ SetRedstone \in UpdateMessage
  BY <1>1 DEF UpdateMessage, SetHue, SetRedstone
<1> QED BY <1>1, <1>2, <1>3, <1>4, <1>5

\* A task that waits for the tree is in its mailbox once, with its event.
AsksInv ==
  /\ \A t \in Task : InTree(t) => event[t] \in Source
  /\ \A i \in 1..Len(treeBox) : stage[treeBox[i]] = "waiting"
  /\ \A i, j \in 1..Len(treeBox) : treeBox[i] = treeBox[j] => i = j

LEMMA InitTypeOK == Init => TypeOK
<1> SUFFICES ASSUME Init PROVE TypeOK
  OBVIOUS
<1>1. /\ treeBox = <<>> /\ updateBox = <<>> /\ hueBox = <<>> /\ redstoneBox = <<>>
      /\ \A d \in Device : deviceBox[d] = <<>>
      /\ Len(<<>>) <= Capacity
  BY BoundAssumption DEF Init
<1>2. reply \in [Task -> Batch] /\ applying \in Batch /\ hueWork \in Batch
  BY BatchFacts DEF Init
<1>3. /\ computed \in [Sink -> [Task -> Nat]]
      /\ shown \in [Sink -> [Task -> Nat]]
      /\ owner \in [Sink -> Task \cup {NoTask}]
  BY DEF Init
<1>4. pinging \in Seq(Device) /\ deviceBox \in [Device -> Seq(DeviceMessage)]
  BY DEF Init
<1>5. stage \in [Task -> {"idle", "asking", "waiting", "sending"}]
  BY DEF Init
<1>6. event \in [Task -> Source \cup {NoTask}]
  BY DEF Init
<1>7. /\ generation = 0 /\ mainPc = "set_redstone" /\ forwarding = {}
      /\ hueSet \in BOOLEAN /\ redstoneSet \in BOOLEAN
  BY DEF Init
<1> QED BY <1>1, <1>2, <1>3, <1>4, <1>5, <1>6, <1>7 DEF TypeOK

LEMMA InitAsksInv == Init => AsksInv
BY DEF Init, AsksInv, InTree

LEMMA DisplayTypes ==
  ASSUME TypeOK, NEW S, NEW t \in Task, NEW g \in Nat, Display(S, t, g)
  PROVE  /\ shown' \in [Sink -> [Task -> Nat]]
         /\ owner' \in [Sink -> Task \cup {NoTask}]
BY DEF TypeOK, Display

\* What the tree does with the event at the head of its mailbox.
LEMMA TreeStep ==
  ASSUME TypeOK, AsksInv, TreeHandleEvent
  PROVE  /\ Head(treeBox) \in Task
         /\ treeBox' \in Seq(Task) /\ Len(treeBox') <= Capacity
         /\ stage[Head(treeBox)] = "waiting"
         /\ \E S \in SUBSET Sink :
              /\ reply' = [reply EXCEPT ![Head(treeBox)] =
                   [task |-> Head(treeBox), gen |-> generation + 1, sinks |-> S]]
              /\ computed' = [s \in Sink |->
                   IF s \in S
                   THEN [computed[s] EXCEPT ![Head(treeBox)] = generation + 1]
                   ELSE computed[s]]
<1>1. treeBox \in Seq(Task) /\ treeBox # <<>> /\ Len(treeBox) <= Capacity
  BY DEF TreeHandleEvent, TypeOK
<1>2. Head(treeBox) \in Task /\ Tail(treeBox) \in Seq(Task)
        /\ Len(Tail(treeBox)) <= Capacity
  BY <1>1, TakenBox
<1>3. stage[Head(treeBox)] = "waiting"
  BY <1>1 DEF AsksInv
<1>4. event[Head(treeBox)] \in Source
  BY <1>2, <1>3 DEF AsksInv, InTree
<1>5. Computed(event[Head(treeBox)]) \subseteq SUBSET Sink
  BY <1>4, WiringAssumption DEF Computed
<1> QED BY <1>2, <1>3, <1>5 DEF TreeHandleEvent

\* What a device server takes leaves the mailboxes as they should be.
LEMMA TakenFrom ==
  ASSUME TypeOK, NEW d \in Device, deviceBox[d] # <<>>,
         deviceBox' = [deviceBox EXCEPT ![d] = Tail(@)]
  PROVE  /\ deviceBox' \in [Device -> Seq(DeviceMessage)]
         /\ \A e \in Device : Len(deviceBox'[e]) <= Capacity
<1>1. Tail(deviceBox[d]) \in Seq(DeviceMessage) /\ Len(Tail(deviceBox[d])) <= Capacity
  BY TakenBox DEF TypeOK
<1> QED BY <1>1 DEF TypeOK

LEMMA StepTypeOK == TypeOK /\ AsksInv /\ [Next]_vars => TypeOK'
<1> SUFFICES ASSUME TypeOK, AsksInv, [Next]_vars PROVE TypeOK'
  OBVIOUS
<1> USE DEF treeVars, taskVars, updateVars, hueVars, redstoneVars, sinkVars
<1>1. CASE MainSetRedstone
  BY <1>1, SentBox, BatchFacts DEF MainSetRedstone, TypeOK
<1>2. CASE MainSetHue
  BY <1>2, SentBox, BatchFacts DEF MainSetHue, TypeOK
<1>3. ASSUME NEW t \in Task, NEW src \in Source, RaiseEvent(t, src)
      PROVE  TypeOK'
  BY <1>3 DEF RaiseEvent, TypeOK
<1>4. ASSUME NEW t \in Task, AskTree(t) PROVE TypeOK'
  BY <1>4, SentBox DEF AskTree, TypeOK
<1>5. ASSUME NEW t \in Task, SendUpdates(t) PROVE TypeOK'
  <2>1. Apply(reply[t]) \in UpdateMessage
    BY BatchFacts DEF TypeOK
  <2>2. updateBox' \in Seq(UpdateMessage) /\ Len(updateBox') <= Capacity
    BY <1>5, <2>1, SentBox DEF SendUpdates, TypeOK
  <2> QED BY <1>5, <2>2, BatchFacts DEF SendUpdates, TypeOK
<1>6. CASE TreeHandleEvent
  <2> DEFINE t == Head(treeBox)
             gen == generation + 1
  <2>1. PICK S \in SUBSET Sink :
          /\ reply' = [reply EXCEPT ![t] = [task |-> t, gen |-> gen, sinks |-> S]]
          /\ computed' = [s \in Sink |->
               IF s \in S THEN [computed[s] EXCEPT ![t] = gen] ELSE computed[s]]
    BY <1>6, TreeStep
  <2>2. t \in Task /\ gen \in Nat \ {0}
    BY <1>6, TreeStep DEF TypeOK
  <2>3. [task |-> t, gen |-> gen, sinks |-> S] \in Batch
    BY <2>2 DEF Batch
  <2>4. reply' \in [Task -> Batch] /\ computed' \in [Sink -> [Task -> Nat]]
    BY <2>1, <2>2, <2>3 DEF TypeOK
  <2>5. /\ generation' = gen
        /\ stage' = [stage EXCEPT ![t] = "sending"]
        /\ event' = [event EXCEPT ![t] = NoTask]
    BY <1>6 DEF TreeHandleEvent
  <2>6. treeBox' \in Seq(Task) /\ Len(treeBox') <= Capacity
    BY <1>6, TreeStep
  <2>7. /\ UNCHANGED <<mainPc, updateBox, hueSet, redstoneSet, applying, hueBox>>
        /\ UNCHANGED <<hueWork, redstoneBox, forwarding, pinging, deviceBox, shown, owner>>
    BY <1>6 DEF TreeHandleEvent
  <2> HIDE DEF t, gen
  <2> QED BY <2>2, <2>4, <2>5, <2>6, <2>7 DEF TypeOK
<1>7. CASE UpdateTakeSetHue \/ UpdateTakeSetRedstone
  <2>0. updateBox # <<>> /\ updateBox' = Tail(updateBox)
    BY <1>7 DEF UpdateTakeSetHue, UpdateTakeSetRedstone
  <2>1. updateBox' \in Seq(UpdateMessage) /\ Len(updateBox') <= Capacity
    BY <2>0, TakenBox DEF TypeOK
  <2>2. hueSet' \in BOOLEAN /\ redstoneSet' \in BOOLEAN
    BY <1>7 DEF UpdateTakeSetHue, UpdateTakeSetRedstone, TypeOK
  <2> QED BY <1>7, <2>1, <2>2
          DEF UpdateTakeSetHue, UpdateTakeSetRedstone, TypeOK
<1>8. CASE UpdateTakeApply
  <2>1. /\ Head(updateBox) \in UpdateMessage
        /\ updateBox' \in Seq(UpdateMessage) /\ Len(updateBox') <= Capacity
    BY <1>8, TakenBox DEF UpdateTakeApply, TypeOK
  <2> DEFINE b == Head(updateBox).batch
  <2>2. b \in Batch /\ Wired(b.sinks) \in SUBSET b.sinks
    BY <2>1 DEF UpdateMessage, Wired
  <2>3. applying' \in Batch
    BY <1>8, <2>2, BatchFacts DEF UpdateTakeApply
  <2> QED BY <1>8, <2>1, <2>3 DEF UpdateTakeApply, TypeOK
<1>9. CASE UpdateToHue
  <2> DEFINE lights == applying.sinks \cap Light
             b == [applying EXCEPT !.sinks = lights]
  <2>1. b \in Batch /\ Minus(applying, lights) \in Batch
    BY BatchFacts DEF TypeOK
  <2>2. hueBox' \in Seq(Batch) /\ Len(hueBox') <= Capacity
    BY <1>9, <2>1, SentBox DEF UpdateToHue, TypeOK
  <2> QED BY <1>9, <2>1, <2>2 DEF UpdateToHue, TypeOK
<1>10. ASSUME NEW p \in Property, UpdateToRedstone(p) PROVE TypeOK'
  <2> DEFINE x == [sink |-> p, task |-> applying.task, gen |-> applying.gen]
  <2>1. x \in Item
    BY <1>10 DEF UpdateToRedstone, TypeOK, Batch, Item
  <2>2. redstoneBox' \in Seq(Item) /\ Len(redstoneBox') <= Capacity
    BY <1>10, <2>1, SentBox DEF UpdateToRedstone, TypeOK
  <2> QED BY <1>10, <2>2, BatchFacts DEF UpdateToRedstone, TypeOK
<1>11. CASE HueTake
  BY <1>11, TakenBox DEF HueTake, TypeOK
<1>12. ASSUME NEW group \in SUBSET Light, HueApply(group) PROVE TypeOK'
  <2>1. hueWork.task \in Task /\ hueWork.gen \in Nat
    BY <1>12 DEF HueApply, TypeOK, Batch
  <2>2. /\ shown' \in [Sink -> [Task -> Nat]]
        /\ owner' \in [Sink -> Task \cup {NoTask}]
    BY <1>12, <2>1, DisplayTypes DEF HueApply
  <2> QED BY <1>12, <2>2, BatchFacts DEF HueApply, TypeOK
<1>13. ASSUME NEW group \in SUBSET Light, HueFail(group) PROVE TypeOK'
  BY <1>13, BatchFacts DEF HueFail, TypeOK
<1>14. CASE RedstoneTake
  <2>1. /\ Head(redstoneBox) \in Item
        /\ redstoneBox' \in Seq(Item) /\ Len(redstoneBox') <= Capacity
    BY <1>14, TakenBox DEF RedstoneTake, TypeOK
  <2> QED BY <1>14, <2>1 DEF RedstoneTake, TypeOK
<1>15. CASE RedstoneForward
  <2>1. PICK x \in forwarding :
          /\ HasRoom(deviceBox[DeviceOf[x.sink]])
          /\ deviceBox' = [deviceBox EXCEPT ![DeviceOf[x.sink]] = Append(@, x)]
    BY <1>15 DEF RedstoneForward
  <2>2. x \in DeviceMessage /\ DeviceOf[x.sink] \in Device
    BY WiringAssumption DEF TypeOK, Item, DeviceMessage
  <2>3. Append(deviceBox[DeviceOf[x.sink]], x) \in Seq(DeviceMessage)
          /\ Len(Append(deviceBox[DeviceOf[x.sink]], x)) <= Capacity
    BY <2>1, <2>2, SentBox DEF TypeOK
  <2>4. /\ deviceBox' \in [Device -> Seq(DeviceMessage)]
        /\ \A d \in Device : Len(deviceBox'[d]) <= Capacity
    BY <2>1, <2>2, <2>3 DEF TypeOK
  <2> QED BY <1>15, <2>4 DEF RedstoneForward, TypeOK
<1>16. ASSUME NEW d \in Device, DeviceSet(d) PROVE TypeOK'
  <2> DEFINE x == Head(deviceBox[d])
  <2>1. x \in Item /\ deviceBox' = [deviceBox EXCEPT ![d] = Tail(@)]
          /\ deviceBox[d] # <<>>
    BY <1>16, TakenBox DEF DeviceSet, TypeOK, DeviceMessage
  <2>2. /\ shown' \in [Sink -> [Task -> Nat]]
        /\ owner' \in [Sink -> Task \cup {NoTask}]
    BY <1>16, <2>1, DisplayTypes DEF DeviceSet, TypeOK, Item
  <2>3. /\ deviceBox' \in [Device -> Seq(DeviceMessage)]
        /\ \A e \in Device : Len(deviceBox'[e]) <= Capacity
    BY <2>1, TakenFrom
  <2> QED BY <1>16, <2>2, <2>3 DEF DeviceSet, TypeOK
<1>17. ASSUME NEW d \in Device, DevicePing(d) PROVE TypeOK'
  <2>1. /\ deviceBox' \in [Device -> Seq(DeviceMessage)]
        /\ \A e \in Device : Len(deviceBox'[e]) <= Capacity
    BY <1>17, TakenFrom DEF DevicePing
  <2> QED BY <1>17, <2>1 DEF DevicePing, TypeOK
<1>18. CASE RedstonePing
  BY <1>18, OrderAssumption DEF RedstonePing, TypeOK
<1>19. CASE RedstonePingNext
  <2>1. Head(pinging) \in Device /\ Tail(pinging) \in Seq(Device)
    BY <1>19 DEF RedstonePingNext, TypeOK
  <2>2. /\ Append(deviceBox[Head(pinging)], PingTimeout) \in Seq(DeviceMessage)
        /\ Len(Append(deviceBox[Head(pinging)], PingTimeout)) <= Capacity
    BY <1>19, <2>1, SentBox DEF RedstonePingNext, TypeOK, DeviceMessage
  <2>3. /\ deviceBox' \in [Device -> Seq(DeviceMessage)]
        /\ \A d \in Device : Len(deviceBox'[d]) <= Capacity
    BY <1>19, <2>1, <2>2 DEF RedstonePingNext, TypeOK
  <2> QED BY <1>19, <2>1, <2>3 DEF RedstonePingNext, TypeOK
<1>20. CASE UNCHANGED vars
  BY <1>20 DEF vars, TypeOK
<1> QED BY <1>1, <1>2, <1>3, <1>4, <1>5, <1>6, <1>7, <1>8, <1>9, <1>10, <1>11,
           <1>12, <1>13, <1>14, <1>15, <1>16, <1>17, <1>18, <1>19, <1>20
        DEF Next, UpdateStep, HueStep, RedstoneStep, DeviceStep, Idle

\* What the redstone server and the device servers do with values and pings leaves the
\* rest of the pipeline alone.
RedstoneSide == RedstoneStep \/ \E d \in Device : DeviceStep(d)

LEMMA RedstoneSideKeeps ==
  RedstoneSide
    => /\ UNCHANGED <<generation, treeBox, computed, stage, event, reply, mainPc>>
       /\ UNCHANGED <<updateBox, hueSet, redstoneSet, applying, hueBox, hueWork>>
BY DEF RedstoneSide, RedstoneStep, DeviceStep, RedstoneTake, RedstoneForward, RedstonePing,
   RedstonePingNext, DeviceSet, DevicePing, treeVars, taskVars, updateVars, hueVars

\* Only four kinds of steps touch the tasks and the mailbox of the tree.
LEMMA StepAsksInv == TypeOK /\ AsksInv /\ [Next]_vars => AsksInv'
<1> SUFFICES ASSUME TypeOK, AsksInv, [Next]_vars PROVE AsksInv'
  OBVIOUS
<1>1. CASE UNCHANGED <<stage, event, treeBox>>
  BY <1>1 DEF AsksInv, InTree
<1>2. ASSUME NEW t \in Task, NEW src \in Source, RaiseEvent(t, src)
      PROVE  AsksInv'
  <2>1. /\ stage' = [stage EXCEPT ![t] = "asking"] /\ stage[t] = "idle"
        /\ event' = [event EXCEPT ![t] = src] /\ treeBox' = treeBox
    BY <1>2 DEF RaiseEvent, treeVars
  <2>2. \A u \in Task : InTree(u)' => event'[u] \in Source
    BY <2>1 DEF AsksInv, InTree, TypeOK
  <2>3. \A i \in 1..Len(treeBox) : treeBox[i] \in Task
    BY DEF TypeOK
  <2>4. \A i \in 1..Len(treeBox') : stage'[treeBox'[i]] = "waiting"
    BY <2>1, <2>3 DEF AsksInv, TypeOK
  <2> QED BY <2>1, <2>2, <2>4 DEF AsksInv
<1>3. ASSUME NEW t \in Task, AskTree(t) PROVE AsksInv'
  <2>1. \A i \in 1..Len(treeBox) : treeBox[i] # t
    BY <1>3 DEF AskTree, AsksInv
  <2>2. /\ Len(treeBox') = Len(treeBox) + 1
        /\ treeBox'[Len(treeBox) + 1] = t
        /\ \A i \in 1..Len(treeBox) : treeBox'[i] = treeBox[i]
    BY <1>3 DEF AskTree, TypeOK
  <2>3. \A i \in 1..Len(treeBox) : treeBox[i] \in Task
    BY DEF TypeOK
  <2>4. Len(treeBox) \in Nat
    BY DEF TypeOK
  <2>5. \A u \in Task : InTree(u)' => event'[u] \in Source
    BY <1>3 DEF AskTree, AsksInv, InTree, TypeOK
  <2>6. stage'[t] = "waiting" /\ \A u \in Task : u # t => stage'[u] = stage[u]
    BY <1>3 DEF AskTree, TypeOK
  <2>7. \A i \in 1..Len(treeBox') : stage'[treeBox'[i]] = "waiting"
    BY <2>1, <2>2, <2>3, <2>4, <2>6 DEF AsksInv
  <2>8. \A i, j \in 1..Len(treeBox') : treeBox'[i] = treeBox'[j] => i = j
    BY <2>1, <2>2, <2>4 DEF AsksInv
  <2> QED BY <2>5, <2>7, <2>8 DEF AsksInv
<1>4. ASSUME NEW t \in Task, SendUpdates(t) PROVE AsksInv'
  <2>1. \A i \in 1..Len(treeBox) : treeBox[i] # t
    BY <1>4 DEF SendUpdates, AsksInv
  <2> QED BY <1>4, <2>1 DEF SendUpdates, AsksInv, InTree, TypeOK, treeVars
<1>5. CASE TreeHandleEvent
  <2>1. /\ treeBox # <<>> /\ treeBox' = Tail(treeBox)
        /\ stage' = [stage EXCEPT ![Head(treeBox)] = "sending"]
        /\ event' = [event EXCEPT ![Head(treeBox)] = NoTask]
    BY <1>5 DEF TreeHandleEvent
  <2>2. /\ Len(treeBox') = Len(treeBox) - 1
        /\ \A i \in 1..Len(treeBox') : treeBox'[i] = treeBox[i + 1]
        /\ Len(treeBox) \in Nat \ {0}
        /\ \A i \in 1..Len(treeBox) : treeBox[i] \in Task
        /\ Head(treeBox) = treeBox[1]
    BY <2>1 DEF TypeOK
  <2>3. \A i \in 1..Len(treeBox') : treeBox'[i] # Head(treeBox)
    BY <2>2 DEF AsksInv
  <2> QED BY <2>1, <2>2, <2>3 DEF AsksInv, InTree, TypeOK
<1>6. CASE MainSetRedstone \/ MainSetHue \/ UpdateStep \/ HueTake \/ HueStep
             \/ RedstoneSide \/ UNCHANGED vars
  <2>1. UNCHANGED <<stage, event, treeBox>>
    BY <1>6, RedstoneSideKeeps DEF MainSetRedstone, MainSetHue, UpdateStep, UpdateTakeSetHue,
       UpdateTakeSetRedstone, UpdateTakeApply, UpdateToHue, UpdateToRedstone,
       HueTake, HueStep, HueApply, HueFail, vars, treeVars, taskVars
  <2> QED BY <1>1, <2>1
<1> QED BY <1>2, <1>3, <1>4, <1>5, <1>6 DEF Next, Idle, RedstoneSide

\* Every state has the declared types; no mailbox holds more than its capacity.
THEOREM TypeCorrect == Spec => []TypeOK
<1>1. Init => TypeOK /\ AsksInv
  BY InitTypeOK, InitAsksInv
<1>2. TypeOK /\ AsksInv /\ [Next]_vars => (TypeOK /\ AsksInv)'
  BY StepTypeOK, StepAsksInv
<1> QED BY <1>1, <1>2, PTL DEF Spec

-----------------------------------------------------------------------------
\* The update server has been told of a subsystem, or is told by a message that
\* stands before position i of its mailbox.
Told(set, kind, i) ==
  set \/ \E j \in 1..Len(updateBox) : j < i /\ updateBox[j].kind = kind
ToldBoth(i) == Told(redstoneSet, "set_redstone", i) /\ Told(hueSet, "set_hue", i)

\* main tells the update server of both before it launches the clock and the MCU
\* server, so both messages stand before all their updates.
WiringInv ==
  /\ \A t \in Task \ Device : stage[t] # "idle" => mainPc = "launched"
  /\ \A t \in Task : stage[t] = "sending" => reply[t].task = t
  /\ mainPc # "set_redstone"
       => Told(redstoneSet, "set_redstone", Len(updateBox) + 1)
  /\ mainPc = "launched" => Told(hueSet, "set_hue", Len(updateBox) + 1)
  /\ \A i \in 1..Len(updateBox) :
       updateBox[i].kind = "apply" /\ updateBox[i].batch.task \in Task \ Device
         => ToldBoth(i)

LEMMA InitWiringInv == Init => WiringInv
BY DEF Init, WiringInv

\* A send leaves every message in its place and adds one behind them.
LEMMA SendKeeps ==
  ASSUME TypeOK, NEW m, updateBox' = Append(updateBox, m)
  PROVE  /\ Len(updateBox) \in Nat /\ Len(updateBox') = Len(updateBox) + 1
         /\ updateBox'[Len(updateBox) + 1] = m
         /\ \A i \in 1..Len(updateBox) : updateBox'[i] = updateBox[i]
BY DEF TypeOK

\* A receive moves every message but the first one place forward.
LEMMA TakeShifts ==
  ASSUME TypeOK, updateBox # <<>>, updateBox' = Tail(updateBox)
  PROVE  /\ Len(updateBox) \in Nat \ {0} /\ Len(updateBox') = Len(updateBox) - 1
         /\ Head(updateBox) = updateBox[1]
         /\ \A i \in 1..Len(updateBox') : updateBox'[i] = updateBox[i + 1]
BY DEF TypeOK

\* A message that tells of a subsystem still does so after a step that sends to
\* the update server.
LEMMA ToldAfterSend ==
  ASSUME TypeOK, NEW m, updateBox' = Append(updateBox, m),
         UNCHANGED <<hueSet, redstoneSet>>,
         NEW i \in 1..(Len(updateBox) + 1)
  PROVE  /\ Told(redstoneSet, "set_redstone", i)
              => Told(redstoneSet, "set_redstone", i)'
         /\ Told(hueSet, "set_hue", i) => Told(hueSet, "set_hue", i)'
BY SendKeeps DEF Told

\* The same for a step in which the update server takes its next message: if
\* that message is the one that tells, the server now knows.
LEMMA ToldAfterTake ==
  ASSUME TypeOK, updateBox # <<>>, updateBox' = Tail(updateBox),
         Head(updateBox).kind = "set_redstone" => redstoneSet',
         Head(updateBox).kind = "set_hue" => hueSet',
         redstoneSet => redstoneSet', hueSet => hueSet',
         NEW i \in 1..(Len(updateBox) + 1)
  PROVE  /\ Told(redstoneSet, "set_redstone", i)
              => Told(redstoneSet, "set_redstone", i - 1)'
         /\ Told(hueSet, "set_hue", i) => Told(hueSet, "set_hue", i - 1)'
<1>1. ASSUME NEW kind, NEW j \in 1..Len(updateBox), j < i,
             updateBox[j].kind = kind
      PROVE  \/ j = 1 /\ Head(updateBox).kind = kind
             \/ \E k \in 1..Len(updateBox') :
                  k < i - 1 /\ updateBox'[k].kind = kind
  <2>1. CASE j = 1
    BY <1>1, <2>1, TakeShifts
  <2>2. CASE j # 1
    <3>1. j - 1 \in 1..Len(updateBox') /\ j - 1 < i - 1
      BY <1>1, <2>2, TakeShifts
    <3>2. updateBox'[j - 1] = updateBox[j]
      BY <1>1, <3>1, TakeShifts
    <3> QED BY <1>1, <3>1, <3>2
  <2> QED BY <2>1, <2>2
<1> QED BY <1>1 DEF Told

LEMMA SendWiringInv ==
  ASSUME TypeOK, WiringInv, NEW m \in UpdateMessage,
         updateBox' = Append(updateBox, m), UNCHANGED <<hueSet, redstoneSet>>,
         m.kind = "apply" /\ m.batch.task \in Task \ Device
           => ToldBoth(Len(updateBox) + 1)
  PROVE  \A i \in 1..Len(updateBox') :
           updateBox'[i].kind = "apply"
               /\ updateBox'[i].batch.task \in Task \ Device
             => ToldBoth(i)'
<1> SUFFICES ASSUME NEW i \in 1..Len(updateBox'),
                    updateBox'[i].kind = "apply",
                    updateBox'[i].batch.task \in Task \ Device
             PROVE  ToldBoth(i)'
  OBVIOUS
<1>1. i \in 1..(Len(updateBox) + 1)
  BY SendKeeps
<1>2. ToldBoth(i)
  <2>1. CASE i = Len(updateBox) + 1
    BY <2>1, SendKeeps
  <2>2. CASE i \in 1..Len(updateBox)
    BY <2>2, SendKeeps DEF WiringInv
  <2> QED BY <1>1, <2>1, <2>2
<1> QED BY <1>1, <1>2, ToldAfterSend DEF ToldBoth

LEMMA TakeWiringInv ==
  ASSUME TypeOK, WiringInv, updateBox # <<>>, updateBox' = Tail(updateBox),
         Head(updateBox).kind = "set_redstone" => redstoneSet',
         Head(updateBox).kind = "set_hue" => hueSet',
         redstoneSet => redstoneSet', hueSet => hueSet',
         UNCHANGED <<stage, reply, mainPc>>
  PROVE  WiringInv'
<1>1. PICK n \in Nat \ {0} : n = Len(updateBox)
  BY TakeShifts
<1>2. Len(updateBox') + 1 = n /\ (n + 1) - 1 = n
  BY <1>1, TakeShifts
<1>3. /\ Told(redstoneSet, "set_redstone", n + 1)
           => Told(redstoneSet, "set_redstone", n)'
      /\ Told(hueSet, "set_hue", n + 1) => Told(hueSet, "set_hue", n)'
  BY <1>1, <1>2, ToldAfterTake
<1>4. mainPc' # "set_redstone" => Told(redstoneSet, "set_redstone", n)'
  BY <1>1, <1>3 DEF WiringInv
<1>5. mainPc' = "launched" => Told(hueSet, "set_hue", n)'
  BY <1>1, <1>3 DEF WiringInv
<1>6. ASSUME NEW i \in 1..Len(updateBox'), updateBox'[i].kind = "apply",
             updateBox'[i].batch.task \in Task \ Device
      PROVE  ToldBoth(i)'
  <2>1. i + 1 \in 1..Len(updateBox) /\ updateBox[i + 1] = updateBox'[i]
    BY TakeShifts
  <2>2. ToldBoth(i + 1)
    BY <1>6, <2>1 DEF WiringInv
  <2>3. i + 1 \in 1..(Len(updateBox) + 1) /\ (i + 1) - 1 = i
    BY <2>1, TakeShifts
  <2> QED BY <2>2, <2>3, ToldAfterTake DEF ToldBoth
<1>7. (Len(updateBox) + 1)' = n
  BY <1>2
<1>8. /\ \A t \in Task \ Device : stage'[t] # "idle" => mainPc' = "launched"
      /\ \A t \in Task : stage'[t] = "sending" => reply'[t].task = t
  BY DEF WiringInv
<1> QED BY <1>4, <1>5, <1>6, <1>7, <1>8 DEF WiringInv, Told

LEMMA StepWiringInv ==
  TypeOK /\ AsksInv /\ WiringInv /\ [Next]_vars => WiringInv'
<1> SUFFICES ASSUME TypeOK, AsksInv, WiringInv, [Next]_vars PROVE WiringInv'
  OBVIOUS
<1> DEFINE Tasks == /\ \A t \in Task \ Device :
                         stage[t] # "idle" => mainPc = "launched"
                    /\ \A t \in Task : stage[t] = "sending" => reply[t].task = t
           Others == <<mainPc, updateBox, hueSet, redstoneSet>>
<1>1. ASSUME Tasks', UNCHANGED Others PROVE WiringInv'
  BY <1>1 DEF WiringInv, Told, ToldBoth
<1>2. PICK n \in Nat : n = Len(updateBox)
  BY DEF TypeOK
<1>3. CASE MainSetRedstone
  <2>1. /\ updateBox' = Append(updateBox, SetRedstone) /\ mainPc' = "set_hue"
        /\ UNCHANGED <<hueSet, redstoneSet, stage, reply>>
        /\ mainPc = "set_redstone"
    BY <1>3 DEF MainSetRedstone, taskVars
  <2>2. Tasks'
    BY <2>1 DEF WiringInv
  <2>3. Told(redstoneSet, "set_redstone", n + 2)'
    BY <1>2, <2>1, SendKeeps DEF Told, SetRedstone
  <2>4. (Len(updateBox) + 1)' = n + 2
    BY <1>2, <2>1, SendKeeps
  <2>5. SetRedstone \in UpdateMessage /\ SetRedstone.kind # "apply"
    BY BatchFacts DEF SetRedstone
  <2> QED BY <2>1, <2>2, <2>3, <2>4, <2>5, SendWiringInv DEF WiringInv, Told
<1>4. CASE MainSetHue
  <2>1. /\ updateBox' = Append(updateBox, SetHue) /\ mainPc' = "launched"
        /\ UNCHANGED <<hueSet, redstoneSet, stage, reply>>
        /\ mainPc = "set_hue"
    BY <1>4 DEF MainSetHue, taskVars
  <2>2. Tasks'
    BY <2>1 DEF WiringInv
  <2>3. Told(hueSet, "set_hue", n + 2)'
    BY <1>2, <2>1, SendKeeps DEF Told, SetHue
  <2>4. (Len(updateBox) + 1)' = n + 2
    BY <1>2, <2>1, SendKeeps
  <2>5. SetHue \in UpdateMessage /\ SetHue.kind # "apply"
    BY BatchFacts DEF SetHue
  <2>6. Told(redstoneSet, "set_redstone", n + 1)
    BY <1>2, <2>1 DEF WiringInv
  <2>7. Told(redstoneSet, "set_redstone", n + 2)'
    BY <1>2, <2>1, <2>6, SendKeeps DEF Told
  <2> QED BY <2>1, <2>2, <2>3, <2>4, <2>5, <2>7, SendWiringInv
          DEF WiringInv, Told
<1>5. ASSUME NEW t \in Task, SendUpdates(t) PROVE WiringInv'
  <2>1. /\ updateBox' = Append(updateBox, Apply(reply[t]))
        /\ UNCHANGED <<hueSet, redstoneSet, mainPc>>
        /\ stage[t] = "sending" /\ stage' = [stage EXCEPT ![t] = "idle"]
        /\ \A u \in Task : u # t => reply'[u] = reply[u]
    BY <1>5 DEF SendUpdates, TypeOK
  <2>2. Tasks'
    BY <2>1 DEF WiringInv, TypeOK
  <2>3. mainPc # "set_redstone" => Told(redstoneSet, "set_redstone", n + 2)'
    BY <1>2, <2>1, SendKeeps DEF WiringInv, Told
  <2>4. mainPc = "launched" => Told(hueSet, "set_hue", n + 2)'
    BY <1>2, <2>1, SendKeeps DEF WiringInv, Told
  <2>5. (Len(updateBox) + 1)' = n + 2
    BY <1>2, <2>1, SendKeeps
  <2>6. Apply(reply[t]) \in UpdateMessage
    BY BatchFacts DEF TypeOK
  <2>7. Apply(reply[t]).batch.task = t
    BY <2>1 DEF Apply, WiringInv
  <2>8. t \in Task \ Device => ToldBoth(Len(updateBox) + 1)
    BY <2>1 DEF WiringInv, ToldBoth
  <2> QED BY <2>1, <2>2, <2>3, <2>4, <2>5, <2>6, <2>7, <2>8, SendWiringInv
          DEF WiringInv, Told
<1>6. CASE UpdateTakeSetHue \/ UpdateTakeSetRedstone \/ UpdateTakeApply
  BY <1>6, TakeWiringInv DEF UpdateTakeSetHue, UpdateTakeSetRedstone,
     UpdateTakeApply, taskVars
<1>7. ASSUME NEW t \in Task,
             (\E src \in Source : RaiseEvent(t, src)) \/ AskTree(t)
      PROVE  WiringInv'
  <2>1. Tasks' /\ UNCHANGED Others
    BY <1>7 DEF RaiseEvent, AskTree, WiringInv, TypeOK, updateVars
  <2> QED BY <1>1, <2>1
<1>8. CASE TreeHandleEvent
  <2> DEFINE t == Head(treeBox)
  <2>1. PICK S \in SUBSET Sink :
          reply' = [reply EXCEPT
                     ![t] = [task |-> t, gen |-> generation + 1, sinks |-> S]]
    BY <1>8, TreeStep
  <2>2. /\ t \in Task /\ stage[t] = "waiting"
        /\ stage' = [stage EXCEPT ![t] = "sending"]
    BY <1>8, TreeStep DEF TreeHandleEvent
  <2>3. UNCHANGED Others
    BY <1>8 DEF TreeHandleEvent, updateVars
  <2> HIDE DEF t
  <2>4. Tasks'
    BY <2>1, <2>2, <2>3 DEF WiringInv, TypeOK
  <2> QED BY <1>1, <2>3, <2>4
<1>9. CASE UpdateToHue \/ (\E p \in Property : UpdateToRedstone(p)) \/ HueTake
             \/ HueStep \/ RedstoneSide \/ UNCHANGED vars
  <2>1. UNCHANGED <<stage, reply>> /\ UNCHANGED Others
    BY <1>9, RedstoneSideKeeps DEF UpdateToHue, UpdateToRedstone, HueTake, HueStep,
       HueApply, HueFail, vars, taskVars, updateVars
  <2>2. Tasks'
    BY <2>1 DEF WiringInv
  <2> QED BY <1>1, <2>1, <2>2
<1> QED BY <1>3, <1>4, <1>5, <1>6, <1>7, <1>8, <1>9
        DEF Next, Idle, UpdateStep, RedstoneSide

\* Whatever the number of devices, tasks and events and whatever the capacity of
\* the mailboxes, an update of the clock or of an MCU connection never reaches
\* the update server before it knows both subsystems.
THEOREM AlwaysWiredBeforeUse == Spec => []WiredBeforeUse
<1>1. TypeOK /\ WiringInv => WiredBeforeUse
  <2> SUFFICES ASSUME TypeOK, WiringInv, updateBox # <<>>,
                      Head(updateBox).kind = "apply",
                      Head(updateBox).batch.task \in Task \ Device
               PROVE  hueSet /\ redstoneSet
    BY DEF WiredBeforeUse
  <2>1. Len(updateBox) \in Nat \ {0} /\ Head(updateBox) = updateBox[1]
    BY DEF TypeOK
  <2>2. ToldBoth(1)
    BY <2>1 DEF WiringInv
  <2> QED BY <2>1, <2>2 DEF ToldBoth, Told
<1>2. Init => TypeOK /\ AsksInv /\ WiringInv
  BY InitTypeOK, InitAsksInv, InitWiringInv
<1>3. TypeOK /\ AsksInv /\ WiringInv /\ [Next]_vars
        => (TypeOK /\ AsksInv /\ WiringInv)'
  BY StepTypeOK, StepAsksInv, StepWiringInv
<1> QED BY <1>1, <1>2, <1>3, PTL DEF Spec

-----------------------------------------------------------------------------
\* Some task can go on with what it has begun: the guards of all actions but
\* RaiseEvent, RedstonePing and Idle.
CanStep ==
  \/ mainPc # "launched" /\ HasRoom(updateBox)
  \/ \E t \in Task : \/ stage[t] = "asking" /\ HasRoom(treeBox)
                     \/ stage[t] = "sending" /\ HasRoom(updateBox)
  \/ treeBox # <<>>
  \/ applying.sinks = {} /\ updateBox # <<>>
  \/ applying.sinks \cap Light # {} /\ HasRoom(hueBox)
  \/ applying.sinks \cap Property # {} /\ applying.sinks \cap Light = {}
       /\ HasRoom(redstoneBox)
  \/ hueWork.sinks = {} /\ hueBox # <<>>
  \/ hueWork.sinks \cap Light # {}
  \/ forwarding = {} /\ pinging = <<>> /\ redstoneBox # <<>>
  \/ \E x \in forwarding : HasRoom(deviceBox[DeviceOf[x.sink]])
  \/ pinging # <<>> /\ HasRoom(deviceBox[Head(pinging)])
  \/ \E d \in Device : stage[d] = "idle" /\ deviceBox[d] # <<>>

\* A task waits for a reply only while the tree has its event, and the hue server has
\* nothing but lights.
WaitsInv == \A t \in Task : stage[t] = "waiting" => t \in Range(treeBox)
LightsInv ==
  /\ hueWork.sinks \subseteq Light
  /\ \A b \in Range(hueBox) : b.sinks \subseteq Light

\* What a mailbox holds after a send and after a receive.
LEMMA RangeSent ==
  ASSUME NEW M, NEW box \in Seq(M), NEW m \in M
  PROVE  Range(Append(box, m)) = Range(box) \cup {m}
<1>1. /\ Len(box) \in Nat /\ DOMAIN box = 1..Len(box)
      /\ DOMAIN Append(box, m) = 1..(Len(box) + 1)
      /\ \A i \in 1..Len(box) : Append(box, m)[i] = box[i]
      /\ Append(box, m)[Len(box) + 1] = m
  OBVIOUS
<1>2. 1..(Len(box) + 1) = 1..Len(box) \cup {Len(box) + 1}
  BY <1>1
<1> QED BY <1>1, <1>2 DEF Range

LEMMA RangeTaken ==
  ASSUME NEW M, NEW box \in Seq(M), box # <<>>
  PROVE  Head(box) \in Range(box) /\ Range(box) = Range(Tail(box)) \cup {Head(box)}
<1>1. /\ Len(box) \in Nat \ {0} /\ DOMAIN box = 1..Len(box) /\ Head(box) = box[1]
      /\ DOMAIN Tail(box) = 1..(Len(box) - 1)
      /\ \A i \in 1..(Len(box) - 1) : Tail(box)[i] = box[i + 1]
  OBVIOUS
<1>2. \A i \in 1..Len(box) : i = 1 \/ (i - 1 \in 1..(Len(box) - 1) /\ i = (i - 1) + 1)
  BY <1>1
<1>3. \A i \in 1..(Len(box) - 1) : i + 1 \in 1..Len(box)
  BY <1>1
<1>4. 1 \in 1..Len(box)
  BY <1>1
<1>5. ASSUME NEW i \in 1..Len(box) PROVE box[i] = Head(box) \/ box[i] \in Range(Tail(box))
  <2>1. CASE i = 1
    BY <1>1, <2>1
  <2>2. CASE i - 1 \in 1..(Len(box) - 1) /\ i = (i - 1) + 1
    <3>1. i - 1 \in DOMAIN Tail(box) /\ Tail(box)[i - 1] = box[i]
      BY <1>1, <2>2
    <3> QED BY <3>1 DEF Range
  <2> QED BY <1>2, <2>1, <2>2
<1>6. \A i \in 1..(Len(box) - 1) : Tail(box)[i] \in Range(box)
  BY <1>1, <1>3 DEF Range
<1> QED BY <1>1, <1>4, <1>5, <1>6 DEF Range

LEMMA StepWaits == TypeOK /\ AsksInv /\ WaitsInv /\ [Next]_vars => WaitsInv'
<1> SUFFICES ASSUME TypeOK, AsksInv, WaitsInv, [Next]_vars PROVE WaitsInv'
  OBVIOUS
<1>1. CASE UNCHANGED <<stage, treeBox>>
  BY <1>1 DEF WaitsInv
<1>2. ASSUME NEW t \in Task, (\E src \in Source : RaiseEvent(t, src)) \/ SendUpdates(t)
      PROVE  WaitsInv'
  <2>1. treeBox' = treeBox /\ \A u \in Task : stage'[u] = "waiting" => stage[u] = "waiting"
    BY <1>2 DEF RaiseEvent, SendUpdates, treeVars, TypeOK
  <2> QED BY <2>1 DEF WaitsInv
<1>3. ASSUME NEW t \in Task, AskTree(t) PROVE WaitsInv'
  <2>1. Range(treeBox') = Range(treeBox) \cup {t}
    BY <1>3, RangeSent DEF AskTree, TypeOK
  <2>2. \A u \in Task : stage'[u] = "waiting" => u = t \/ stage[u] = "waiting"
    BY <1>3 DEF AskTree, TypeOK
  <2> QED BY <2>1, <2>2 DEF WaitsInv
<1>4. CASE TreeHandleEvent
  <2>1. Range(treeBox) = Range(treeBox') \cup {Head(treeBox)}
    BY <1>4, RangeTaken DEF TreeHandleEvent, TypeOK
  <2>2. \A u \in Task : stage'[u] = "waiting" => u # Head(treeBox) /\ stage[u] = "waiting"
    BY <1>4 DEF TreeHandleEvent, TypeOK
  <2> QED BY <2>1, <2>2 DEF WaitsInv
<1>5. CASE MainSetRedstone \/ MainSetHue \/ UpdateStep \/ HueTake \/ HueStep
             \/ RedstoneSide \/ UNCHANGED vars
  <2>1. UNCHANGED <<stage, treeBox>>
    BY <1>5, RedstoneSideKeeps
       DEF MainSetRedstone, MainSetHue, UpdateStep, UpdateTakeSetHue,
       UpdateTakeSetRedstone, UpdateTakeApply, UpdateToHue, UpdateToRedstone,
       HueTake, HueStep, HueApply, HueFail, vars, treeVars, taskVars
  <2> QED BY <1>1, <2>1
<1> QED BY <1>2, <1>3, <1>4, <1>5 DEF Next, Idle, RedstoneSide

LEMMA StepLights == TypeOK /\ LightsInv /\ [Next]_vars => LightsInv'
<1> SUFFICES ASSUME TypeOK, LightsInv, [Next]_vars PROVE LightsInv'
  OBVIOUS
<1>1. CASE UNCHANGED <<hueBox, hueWork>>
  BY <1>1 DEF LightsInv
<1>2. CASE UpdateToHue
  <2> DEFINE b == [applying EXCEPT !.sinks = applying.sinks \cap Light]
  <2>1. b \in Batch /\ b.sinks \subseteq Light
    BY BatchFacts DEF TypeOK, Batch
  <2>2. hueBox' = Append(hueBox, b) /\ hueWork' = hueWork
    BY <1>2 DEF UpdateToHue
  <2> HIDE DEF b
  <2>3. Range(hueBox') = Range(hueBox) \cup {b}
    BY <2>1, <2>2, RangeSent DEF TypeOK
  <2> QED BY <2>1, <2>2, <2>3 DEF LightsInv
<1>3. CASE HueTake
  <2>1. Range(hueBox) = Range(hueBox') \cup {hueWork'}
    BY <1>3, RangeTaken DEF HueTake, TypeOK
  <2> QED BY <2>1 DEF LightsInv
<1>4. CASE HueStep
  <2>1. hueBox' = hueBox /\ hueWork'.sinks \subseteq hueWork.sinks
    BY <1>4 DEF HueStep, HueApply, HueFail, Minus, TypeOK, Batch
  <2> QED BY <2>1 DEF LightsInv
<1>5. CASE ~UpdateToHue /\ ~HueTake /\ ~HueStep
  <2>1. UNCHANGED <<hueBox, hueWork>>
    BY <1>5, RedstoneSideKeeps
       DEF Next, Idle, RedstoneSide, MainSetRedstone, MainSetHue, RaiseEvent, AskTree,
       SendUpdates, TreeHandleEvent, UpdateStep, UpdateTakeSetHue, UpdateTakeSetRedstone,
       UpdateTakeApply, UpdateToRedstone, vars, hueVars
  <2> QED BY <1>1, <2>1
<1> QED BY <1>2, <1>3, <1>4, <1>5

\* Who can do nothing has nothing to do, unless it waits in the circle.
LEMMA NobodyWaits ==
  ASSUME TypeOK, WaitsInv, LightsInv, ~CanStep, ~Circle
  PROVE  Quiescent
<1>1. \A box : box = <<>> => HasRoom(box)
  BY BoundAssumption DEF HasRoom
<1>2. treeBox = <<>> /\ \A t \in Task : stage[t] \in {"idle", "sending"}
  <2>1. treeBox = <<>>
    BY DEF CanStep
  <2>2. Range(treeBox) = {}
    BY <2>1 DEF Range
  <2>3. HasRoom(treeBox)
    BY <1>1, <2>1
  <2>4. \A t \in Task : stage[t] # "asking"
    BY <2>3 DEF CanStep
  <2>5. \A t \in Task : stage[t] # "waiting"
    BY <2>2 DEF WaitsInv
  <2> QED BY <2>1, <2>4, <2>5 DEF TypeOK
<1>3. hueWork.sinks = {} /\ hueBox = <<>>
  BY DEF CanStep, LightsInv
<1>4. applying.sinks # {} => applying.sinks \cap Property # {} /\ ~HasRoom(redstoneBox)
  <2>1. applying.sinks \cap Light = {}
    BY <1>1, <1>3 DEF CanStep
  <2>2. applying.sinks \subseteq Light \cup Property
    BY DEF TypeOK, Batch, Sink
  <2> QED BY <2>1, <2>2 DEF CanStep
<1>5. ~HasRoom(updateBox) => applying.sinks # {}
  BY <1>1 DEF CanStep
<1>6. forwarding = {} /\ pinging = <<>>
  <2>1. ASSUME NEW d \in Device, WaitsFor(d) PROVE FALSE
    <3>1. d \in Task /\ ~HasRoom(deviceBox[d])
      BY <2>1, TaskAssumption DEF WaitsFor
    <3>2. stage[d] = "sending"
      BY <1>1, <1>2, <3>1 DEF CanStep
    <3>3. ~HasRoom(updateBox)
      BY <3>1, <3>2 DEF CanStep
    <3> QED BY <1>4, <1>5, <2>1, <3>2, <3>3 DEF Circle
  <2>2. ASSUME NEW x \in forwarding PROVE FALSE
    <3>1. DeviceOf[x.sink] \in Device
      BY WiringAssumption DEF TypeOK, Item
    <3>2. ~HasRoom(deviceBox[DeviceOf[x.sink]])
      BY DEF CanStep
    <3> QED BY <2>1, <3>1, <3>2 DEF WaitsFor
  <2>3. ASSUME pinging # <<>> PROVE FALSE
    <3>1. Head(pinging) \in Device
      BY <2>3 DEF TypeOK
    <3>2. ~HasRoom(deviceBox[Head(pinging)])
      BY <2>3 DEF CanStep
    <3> QED BY <2>1, <2>3, <3>1, <3>2 DEF WaitsFor
  <2> QED BY <2>2, <2>3
<1>7. redstoneBox = <<>> /\ applying.sinks = {} /\ updateBox = <<>>
  BY <1>1, <1>4, <1>6 DEF CanStep
<1>8. mainPc = "launched" /\ \A t \in Task : stage[t] = "idle"
  BY <1>1, <1>2, <1>7 DEF CanStep
<1>9. \A d \in Device : deviceBox[d] = <<>>
  BY <1>8, TaskAssumption DEF CanStep
<1> QED BY <1>3, <1>6, <1>7, <1>8, <1>9 DEF Quiescent

\* Whatever the number of tasks, devices and sinks, the wiring and the capacity of the
\* mailboxes: as long as something is left to be done some task can go on, unless a
\* device server, the update server and the redstone server wait for each other.  That
\* circle is the only deadlock of the pipeline.
THEOREM OnlyTheCircle == Spec => [](CanStep \/ Quiescent \/ Circle)
<1> DEFINE Inv == TypeOK /\ AsksInv /\ WaitsInv /\ LightsInv
<1>1. Init => Inv
  BY InitTypeOK, InitAsksInv DEF Init, WaitsInv, LightsInv, NoBatch, Range
<1>2. Inv /\ [Next]_vars => Inv'
  BY StepTypeOK, StepAsksInv, StepWaits, StepLights
<1>3. Inv => CanStep \/ Quiescent \/ Circle
  BY NobodyWaits
<1> QED BY <1>1, <1>2, <1>3, PTL DEF Spec

\* Only a task that has sources is ever busy with an event.
BusyInv == \A t \in Task : stage[t] # "idle" => SourcesOf[t] # {}

LEMMA StepBusy == TypeOK /\ AsksInv /\ BusyInv /\ [Next]_vars => BusyInv'
<1> SUFFICES ASSUME TypeOK, AsksInv, BusyInv, [Next]_vars PROVE BusyInv'
  OBVIOUS
<1>1. ASSUME NEW t \in Task, NEW src \in Source, RaiseEvent(t, src) PROVE BusyInv'
  BY <1>1 DEF RaiseEvent, BusyInv, TypeOK
<1>2. ASSUME NEW t \in Task, AskTree(t) \/ SendUpdates(t) PROVE BusyInv'
  BY <1>2 DEF AskTree, SendUpdates, BusyInv, TypeOK
<1>3. CASE TreeHandleEvent
  <2>1. Head(treeBox) \in Task /\ stage[Head(treeBox)] = "waiting"
    BY <1>3, TreeStep
  <2> QED BY <1>3, <2>1 DEF TreeHandleEvent, BusyInv, TypeOK
<1>4. CASE MainSetRedstone \/ MainSetHue \/ UpdateStep \/ HueTake \/ HueStep
             \/ RedstoneSide \/ UNCHANGED vars
  <2>1. UNCHANGED stage
    BY <1>4, RedstoneSideKeeps
       DEF MainSetRedstone, MainSetHue, UpdateStep, UpdateTakeSetHue,
       UpdateTakeSetRedstone, UpdateTakeApply, UpdateToHue, UpdateToRedstone,
       HueTake, HueStep, HueApply, HueFail, vars, taskVars
  <2> QED BY <2>1 DEF BusyInv
<1> QED BY <1>1, <1>2, <1>3, <1>4 DEF Next, Idle, RedstoneSide

\* In a house whose Redstone devices raise no events, or show none, the circle cannot
\* close, and so the pipeline never stands still before all is done.  That no device has
\* both sources and sinks is not enough: the gateway waits to ping every device.
THEOREM NoCircleWithout ==
  ASSUME (\A d \in Device : SourcesOf[d] = {}) \/ Property = {}
  PROVE  Spec => [](CanStep \/ Quiescent)
<1> DEFINE Inv == TypeOK /\ AsksInv /\ BusyInv
<1>1. Init => Inv
  BY InitTypeOK, InitAsksInv DEF Init, BusyInv
<1>2. Inv /\ [Next]_vars => Inv'
  BY StepTypeOK, StepAsksInv, StepBusy
<1>3. Inv => ~Circle
  BY TaskAssumption DEF Circle, BusyInv
<1> QED BY <1>1, <1>2, <1>3, OnlyTheCircle, PTL DEF Spec
=============================================================================
