------------------------ MODULE EventFlowRefinement -------------------------
(***************************************************************************)
(* The tasks and mailboxes of EventFlow implement SinkFeed, proved for any *)
(* tasks, devices, sources, sinks, wiring, mailbox capacity and number of  *)
(* events.                                                                 *)
(*                                                                         *)
(* A value on its way to a sink stands at a distance from it: the number   *)
(* of places, were every mailbox full, that it has still before it.  Steps *)
(* of the daemon bring values nearer to their sinks or lose them, and the  *)
(* values of one task for one sink keep their order.                       *)
(***************************************************************************)
EXTENDS EventFlowProofs

\* Batch b gives item x its value.
Has(b, x) == x.sink \in b.sinks /\ x.task = b.task /\ x.gen = b.gen

\* The distance of the update server from the sink of x.
Door(x) == IF x.sink \in Light THEN Capacity + 1 ELSE 2 * Capacity + 2

AtHue(n, x) ==
  \/ n = 0 /\ Has(hueWork, x)
  \/ n \in 1..Len(hueBox) /\ Has(hueBox[n], x)

AtRedstone(n, x) ==
  \/ /\ DeviceOf[x.sink] \in Device
     /\ n \in 1..Len(deviceBox[DeviceOf[x.sink]])
     /\ deviceBox[DeviceOf[x.sink]][n] = x
  \/ n = Capacity + 1 /\ x \in forwarding
  \/ /\ n - (Capacity + 1) \in 1..Len(redstoneBox)
     /\ redstoneBox[n - (Capacity + 1)] = x

AtUpdate(n, x) ==
  \/ n = Door(x) /\ Has(applying, x)
  \/ /\ n - Door(x) \in 1..Len(updateBox)
     /\ Has(updateBox[n - Door(x)].batch, x)

AtSource(n, x) == n = Door(x) + Capacity + 1 /\ Has(reply[x.task], x)

\* Item x stands at distance n from its sink.
Holds(n, x) ==
  \/ x.sink \in Light /\ AtHue(n, x)
  \/ x.sink \in Property /\ AtRedstone(n, x)
  \/ AtUpdate(n, x)
  \/ AtSource(n, x)

SameLine(x, y) == x.sink = y.sink /\ x.task = y.task

\* Only values of lights are with the hue server, a device server has only its
\* own properties, apart from pings, and a task has a reply only while it sends it.
OnPath ==
  /\ \A t \in Task : reply[t].sinks # {} => stage[t] = "sending" /\ reply[t].task = t
  /\ hueWork.sinks \subseteq Light
  /\ \A i \in 1..Len(hueBox) : hueBox[i].sinks \subseteq Light
  /\ \A d \in Device : \A i \in 1..Len(deviceBox[d]) :
       deviceBox[d][i] \in Item => DeviceOf[deviceBox[d][i].sink] = d

\* Of two values of one task for one sink the nearer one is the older one.
InOrder ==
  \A x, y \in Feed!Item : SameLine(x, y) =>
    \A m, n \in Nat : Holds(m, x) /\ Holds(n, y) =>
      (m < n => x.gen < y.gen) /\ (m = n => x.gen = y.gen)

\* The tree has numbered every value under way.
Numbered == \A x \in Feed!Item : \A n \in Nat : Holds(n, x) => x.gen <= generation

LineInv == OnPath /\ InOrder /\ Numbered

Held == {x \in Feed!Item : \E n \in Nat : Holds(n, x)}

-----------------------------------------------------------------------------
\* The items of a batch are those it gives a value.
LEMMA HasItem ==
  ASSUME NEW b \in Batch, NEW x
  PROVE  x \in ItemsOf(b) <=> x \in Feed!Item /\ Has(b, x)
<1>1. ASSUME x \in ItemsOf(b) PROVE x \in Feed!Item /\ Has(b, x)
  BY <1>1 DEF ItemsOf, Has, Batch, Feed!Item
<1>2. ASSUME x \in Feed!Item, Has(b, x) PROVE x \in ItemsOf(b)
  BY <1>2 DEF ItemsOf, Has, Feed!Item
<1> QED BY <1>1, <1>2

\* What a batch for lights gives a value is a light.
LEMMA ItemIsItem == Item \subseteq Feed!Item
BY DEF Item, Feed!Item, Sink

\* A ping gives no sink a value.
LEMMA PingIsNoItem == PingTimeout \notin Feed!Item /\ PingTimeout \notin Item
BY DEF PingTimeout, Feed!Item, Item

LEMMA NoneHas == \A b, x : b.sinks = {} => ~Has(b, x)
BY DEF Has

\* The elements of a mailbox are what stands at its positions.
LEMMA InBox ==
  ASSUME NEW M, NEW box \in Seq(M)
  PROVE  /\ \A i \in 1..Len(box) : box[i] \in M /\ i \in Nat \ {0}
         /\ \A x : x \in Range(box) <=> \E i \in 1..Len(box) : x = box[i]
<1>1. \A i \in 1..Len(box) : box[i] \in M /\ i \in Nat \ {0}
  OBVIOUS
<1>2. DOMAIN box = 1..Len(box)
  OBVIOUS
<1>3. \A x : x \in Range(box) <=> \E i \in DOMAIN box : x = box[i]
  BY Zenon DEF Range
<1> QED BY <1>1, <1>2, <1>3

\* The places where a value may be under way.
LEMMA InFlightParts ==
  ASSUME NEW x
  PROVE  x \in InFlight <=>
           \/ \E t \in Task : x \in ItemsOf(reply[t])
           \/ \E u \in Range(updateBox) : x \in ItemsOf(u.batch)
           \/ x \in ItemsOf(applying)
           \/ \E b \in Range(hueBox) : x \in ItemsOf(b)
           \/ x \in ItemsOf(hueWork)
           \/ x \in Range(redstoneBox)
           \/ x \in forwarding
           \/ x # PingTimeout /\ \E d \in Device : x \in Range(deviceBox[d])
<1> DEFINE Replies == UNION {ItemsOf(reply[t]) : t \in Task}
           Updates == UNION {ItemsOf(u.batch) : u \in Range(updateBox)}
           Devices == UNION {Range(deviceBox[d]) : d \in Device}
<1>1. x \in Replies <=> \E t \in Task : x \in ItemsOf(reply[t])
  BY Zenon
<1>2. x \in Updates <=> \E u \in Range(updateBox) : x \in ItemsOf(u.batch)
  BY Zenon
<1>3. x \in BoxItems(hueBox) <=> \E b \in Range(hueBox) : x \in ItemsOf(b)
  BY Zenon DEF BoxItems
<1>4. x \in Devices <=> \E d \in Device : x \in Range(deviceBox[d])
  BY Zenon
<1>5. InFlight = Replies \cup Updates \cup ItemsOf(applying)
                   \cup BoxItems(hueBox) \cup ItemsOf(hueWork)
                   \cup Range(redstoneBox) \cup forwarding \cup (Devices \ {PingTimeout})
  BY Zenon DEF InFlight
<1> HIDE DEF Replies, Updates, Devices
<1> QED BY <1>1, <1>2, <1>3, <1>4, <1>5

LEMMA DistanceFacts ==
  /\ Capacity \in Nat \ {0}
  /\ \A x \in Feed!Item :
       /\ Door(x) \in Nat
       /\ x.sink \in Light => x.sink \notin Property /\ Door(x) = Capacity + 1
       /\ x.sink \notin Light => x.sink \in Property /\ Door(x) = 2 * Capacity + 2
       /\ x.task \in Task /\ x.gen \in Nat \ {0}
BY BoundAssumption, SinkAssumption DEF Door, Feed!Item, Sink

\* The values under way are those that stand somewhere.
LEMMA InFlightIsHeld == TypeOK /\ OnPath => InFlight = Held
<1> SUFFICES ASSUME TypeOK, OnPath PROVE InFlight = Held
  OBVIOUS
<1>0. /\ reply \in [Task -> Batch] /\ applying \in Batch /\ hueWork \in Batch
      /\ updateBox \in Seq(UpdateMessage) /\ hueBox \in Seq(Batch)
      /\ redstoneBox \in Seq(Item) /\ deviceBox \in [Device -> Seq(DeviceMessage)]
      /\ forwarding \subseteq Item
      /\ \A u \in UpdateMessage : u.batch \in Batch
      /\ \A x \in Item : x.sink \in Property
  BY DEF TypeOK, UpdateMessage, Item
<1>1. ASSUME NEW x \in InFlight PROVE x \in Feed!Item /\ \E n \in Nat : Holds(n, x)
  <2>1. ASSUME NEW t \in Task, x \in ItemsOf(reply[t])
        PROVE  x \in Feed!Item /\ \E n \in Nat : Holds(n, x)
    <3>1. x \in Feed!Item /\ Has(reply[t], x)
      BY <1>0, <2>1, HasItem
    <3>2. x.task = t
      BY <3>1 DEF Has, OnPath
    <3>3. Door(x) + Capacity + 1 \in Nat
      BY <3>1, DistanceFacts
    <3> QED BY <3>1, <3>2, <3>3 DEF Holds, AtSource
  <2>2. ASSUME NEW u \in Range(updateBox), x \in ItemsOf(u.batch)
        PROVE  x \in Feed!Item /\ \E n \in Nat : Holds(n, x)
    <3>1. PICK i \in 1..Len(updateBox) : u = updateBox[i]
      BY <1>0, InBox
    <3>2. u \in UpdateMessage
      BY <1>0, <3>1
    <3>3. x \in Feed!Item /\ Has(u.batch, x)
      BY <1>0, <2>2, <3>2, HasItem
    <3>4. Door(x) + i \in Nat /\ (Door(x) + i) - Door(x) = i
      BY <1>0, <3>3, DistanceFacts
    <3> QED BY <3>1, <3>3, <3>4 DEF Holds, AtUpdate
  <2>3. CASE x \in ItemsOf(applying)
    BY <1>0, <2>3, HasItem, DistanceFacts DEF Holds, AtUpdate
  <2>4. ASSUME NEW b \in Range(hueBox), x \in ItemsOf(b)
        PROVE  x \in Feed!Item /\ \E n \in Nat : Holds(n, x)
    <3>1. PICK i \in 1..Len(hueBox) : b = hueBox[i]
      BY <1>0, InBox
    <3>2. x \in Feed!Item /\ Has(hueBox[i], x)
      BY <1>0, <2>4, <3>1, HasItem
    <3>3. x.sink \in Light /\ i \in Nat
      BY <1>0, <3>2 DEF OnPath, Has
    <3> QED BY <3>2, <3>3 DEF Holds, AtHue
  <2>5. CASE x \in ItemsOf(hueWork)
    <3>1. x \in Feed!Item /\ Has(hueWork, x)
      BY <1>0, <2>5, HasItem
    <3> QED BY <3>1 DEF Holds, AtHue, OnPath, Has
  <2>6. CASE x \in Range(redstoneBox)
    <3>1. PICK i \in 1..Len(redstoneBox) : x = redstoneBox[i]
      BY <1>0, <2>6, InBox
    <3>2. x \in Item
      BY <1>0, <3>1
    <3>3. Capacity + 1 + i \in Nat /\ (Capacity + 1 + i) - (Capacity + 1) = i
      BY <1>0, DistanceFacts
    <3> QED BY <1>0, <3>1, <3>2, <3>3, ItemIsItem DEF Holds, AtRedstone
  <2>7. CASE x \in forwarding
    BY <1>0, <2>7, ItemIsItem, DistanceFacts DEF Holds, AtRedstone
  <2>8. ASSUME NEW d \in Device, x # PingTimeout, x \in Range(deviceBox[d])
        PROVE  x \in Feed!Item /\ \E n \in Nat : Holds(n, x)
    <3>0. deviceBox[d] \in Seq(DeviceMessage)
      BY <1>0
    <3>1. PICK i \in 1..Len(deviceBox[d]) : x = deviceBox[d][i]
      BY <2>8, <3>0, InBox
    <3>2. x \in Item /\ i \in Nat
      BY <2>8, <3>0, <3>1 DEF DeviceMessage
    <3>3. DeviceOf[x.sink] = d
      BY <3>1, <3>2 DEF OnPath
    <3> QED BY <1>0, <3>1, <3>2, <3>3, ItemIsItem DEF Holds, AtRedstone
  <2> QED BY <2>1, <2>2, <2>3, <2>4, <2>5, <2>6, <2>7, <2>8, InFlightParts
<1>2. ASSUME NEW x \in Feed!Item, NEW n \in Nat, Holds(n, x) PROVE x \in InFlight
  <2>1. CASE AtHue(n, x)
    <3>1. CASE Has(hueWork, x)
      BY <1>0, <3>1, HasItem, InFlightParts
    <3>2. CASE n \in 1..Len(hueBox) /\ Has(hueBox[n], x)
      <4>1. hueBox[n] \in Range(hueBox) /\ hueBox[n] \in Batch
        BY <1>0, <3>2, InBox
      <4> QED BY <3>2, <4>1, HasItem, InFlightParts
    <3> QED BY <2>1, <3>1, <3>2 DEF AtHue
  <2>2. CASE AtRedstone(n, x)
    <3>1. ASSUME NEW d \in Device, n \in 1..Len(deviceBox[d]), deviceBox[d][n] = x
          PROVE  x \in InFlight
      <4>1. deviceBox[d] \in Seq(DeviceMessage)
        BY <1>0
      <4>2. x \in Range(deviceBox[d])
        BY <3>1, <4>1, InBox
      <4> QED BY <4>2, PingIsNoItem, InFlightParts
    <3>2. ASSUME NEW i \in 1..Len(redstoneBox), redstoneBox[i] = x
          PROVE  x \in InFlight
      BY <1>0, <3>2, InBox, InFlightParts
    <3> QED BY <2>2, <3>1, <3>2, InFlightParts DEF AtRedstone
  <2>3. CASE AtUpdate(n, x)
    <3>1. CASE Has(applying, x)
      BY <1>0, <3>1, HasItem, InFlightParts
    <3>2. ASSUME NEW i \in 1..Len(updateBox), Has(updateBox[i].batch, x)
          PROVE  x \in InFlight
      <4>1. updateBox[i] \in Range(updateBox) /\ updateBox[i].batch \in Batch
        BY <1>0, InBox
      <4> QED BY <3>2, <4>1, HasItem, InFlightParts
    <3> QED BY <2>3, <3>1, <3>2 DEF AtUpdate
  <2>4. CASE AtSource(n, x)
    <3>1. x.task \in Task /\ reply[x.task] \in Batch
      BY <1>0, DistanceFacts
    <3> QED BY <2>4, <3>1, HasItem, InFlightParts DEF AtSource
  <2> QED BY <1>2, <2>1, <2>2, <2>3, <2>4 DEF Holds
<1>3. \A x : x \in InFlight <=> x \in Held
  BY <1>1, <1>2 DEF Held
<1> QED BY <1>3

LEMMA InFlightIsHeldNext == (TypeOK /\ OnPath => InFlight = Held)'
BY InFlightIsHeld, PTL

\* Where every value came no farther from its sink than it was, and no two of one
\* line met or passed each other, the order is kept.
LEMMA Nearer ==
  ASSUME InOrder, Numbered, generation' = generation,
         NEW f \in [Feed!Item -> [Nat -> Nat]],
         \A x \in Feed!Item : \A n \in Nat : Holds(n, x)' => Holds(f[x][n], x),
         \A x, y \in Feed!Item : SameLine(x, y) =>
           \A m, n \in Nat : Holds(m, x)' /\ Holds(n, y)' =>
             (m < n => f[x][m] < f[y][n]) /\ (m = n => f[x][m] = f[y][n])
  PROVE  InOrder' /\ Numbered' /\ Held' \subseteq Held
<1>1. InOrder'
  <2> SUFFICES ASSUME NEW x \in Feed!Item, NEW y \in Feed!Item, SameLine(x, y),
                      NEW m \in Nat, NEW n \in Nat, Holds(m, x)', Holds(n, y)'
               PROVE  (m < n => x.gen < y.gen) /\ (m = n => x.gen = y.gen)
    BY DEF InOrder
  <2>1. Holds(f[x][m], x) /\ Holds(f[y][n], y)
    OBVIOUS
  <2>2. f[x][m] \in Nat /\ f[y][n] \in Nat
    OBVIOUS
  <2>3. (m < n => f[x][m] < f[y][n]) /\ (m = n => f[x][m] = f[y][n])
    OBVIOUS
  <2> QED BY <2>1, <2>2, <2>3 DEF InOrder
<1>2. Numbered'
  BY DEF Numbered
<1>3. Held' \subseteq Held
  BY DEF Held
<1> QED BY <1>1, <1>2, <1>3

\* Where a value can stand: with the hue server or the redstone side, then with
\* the update server, then with its task.
LEMMA Ranges ==
  ASSUME NEW x \in Feed!Item, NEW n \in Nat
  PROVE  /\ TypeOK /\ AtHue(n, x) => n <= Capacity
         /\ TypeOK /\ AtRedstone(n, x) => n > 0 /\ n <= 2 * Capacity + 1
         /\ TypeOK /\ AtUpdate(n, x)
              => n >= Door(x) /\ n <= Door(x) + Len(updateBox) /\ Len(updateBox) <= Capacity
         /\ AtSource(n, x) => n = Door(x) + Capacity + 1
<1>1. TypeOK => /\ Len(updateBox) \in Nat /\ Len(updateBox) <= Capacity
                /\ Len(hueBox) \in Nat /\ Len(hueBox) <= Capacity
                /\ Len(redstoneBox) \in Nat /\ Len(redstoneBox) <= Capacity
                /\ \A d \in Device : Len(deviceBox[d]) \in Nat /\ Len(deviceBox[d]) <= Capacity
  BY DEF TypeOK
<1>2. TypeOK /\ AtHue(n, x) => n <= Capacity
  BY <1>1, DistanceFacts DEF AtHue
<1>3. TypeOK /\ AtRedstone(n, x) => n > 0 /\ n <= 2 * Capacity + 1
  BY <1>1, DistanceFacts DEF AtRedstone
<1>4. TypeOK /\ AtUpdate(n, x)
        => n >= Door(x) /\ n <= Door(x) + Len(updateBox) /\ Len(updateBox) <= Capacity
  BY <1>1, DistanceFacts DEF AtUpdate
<1> QED BY <1>2, <1>3, <1>4 DEF AtSource

LEMMA RangesNext ==
  ASSUME NEW x \in Feed!Item, NEW n \in Nat, TypeOK'
  PROVE  /\ AtHue(n, x)' => n <= Capacity
         /\ AtRedstone(n, x)' => n > 0 /\ n <= 2 * Capacity + 1
         /\ AtUpdate(n, x)'
              => n >= Door(x) /\ n <= Door(x) + Len(updateBox') /\ Len(updateBox') <= Capacity
         /\ AtSource(n, x)' => n = Door(x) + Capacity + 1
<1>1. /\ Len(updateBox') \in Nat /\ Len(updateBox') <= Capacity
      /\ Len(hueBox') \in Nat /\ Len(hueBox') <= Capacity
      /\ Len(redstoneBox') \in Nat /\ Len(redstoneBox') <= Capacity
      /\ \A d \in Device : Len(deviceBox'[d]) \in Nat /\ Len(deviceBox'[d]) <= Capacity
  BY DEF TypeOK
<1>2. AtHue(n, x)' => n <= Capacity
  BY <1>1, DistanceFacts DEF AtHue
<1>3. AtRedstone(n, x)' => n > 0 /\ n <= 2 * Capacity + 1
  BY <1>1, DistanceFacts DEF AtRedstone
<1>4. AtUpdate(n, x)'
        => n >= Door(x) /\ n <= Door(x) + Len(updateBox') /\ Len(updateBox') <= Capacity
  BY <1>1, DistanceFacts DEF AtUpdate
<1> QED BY <1>2, <1>3, <1>4 DEF AtSource

\* The reply of a task joins the end of the update server's mailbox.
LEMMA SendUpdatesLine ==
  ASSUME TypeOK, TypeOK', LineInv, NEW t \in Task, SendUpdates(t)
  PROVE  LineInv' /\ Held' \subseteq Held
<1> DEFINE k == Len(updateBox)
           f == [x \in Feed!Item |-> [n \in Nat |->
                  IF x.task = t /\ n = Door(x) + k + 1
                  THEN Door(x) + Capacity + 1 ELSE n]]
<1>1. /\ k \in Nat /\ k < Capacity /\ Len(updateBox') = k + 1
      /\ \A i \in 1..k : updateBox'[i] = updateBox[i]
      /\ updateBox'[k + 1].batch = reply[t]
      /\ reply'[t].sinks = {}
      /\ \A u \in Task : u # t => reply'[u] = reply[u]
      /\ stage' = [stage EXCEPT ![t] = "idle"]
  BY DEF SendUpdates, TypeOK, HasRoom, Apply, NoBatch
<1>2. UNCHANGED <<generation, applying, hueBox, hueWork, redstoneBox, forwarding, deviceBox>>
  BY DEF SendUpdates, treeVars, hueVars, redstoneVars
<1>3. ASSUME NEW x \in Feed!Item, NEW n \in Nat, Holds(n, x)'
      PROVE  Holds(f[x][n], x) /\ (x.task = t => n <= Door(x) + k + 1)
  <2>0. CASE x.sink \in Light /\ AtHue(n, x)'
    <3>1. AtHue(n, x)
      BY <1>2, <2>0 DEF AtHue
    <3>2. n < Door(x)
      BY <2>0, <3>1, Ranges, DistanceFacts
    <3> QED BY <1>1, <2>0, <3>1, <3>2, DistanceFacts DEF Holds
  <2>1. CASE x.sink \in Property /\ AtRedstone(n, x)'
    <3>1. AtRedstone(n, x)
      BY <1>2, <2>1 DEF AtRedstone
    <3>2. n < Door(x)
      BY <2>1, <3>1, Ranges, DistanceFacts
    <3> QED BY <1>1, <2>1, <3>1, <3>2, DistanceFacts DEF Holds
  <2>2. CASE AtUpdate(n, x)'
    <3>1. CASE n = Door(x) + k + 1 /\ Has(reply[t], x)
      <4>1. x.task = t
        BY <3>1 DEF Has, LineInv, OnPath
      <4> QED BY <1>1, <3>1, <4>1, DistanceFacts DEF Holds, AtSource
    <3>2. CASE ~(n = Door(x) + k + 1 /\ Has(reply[t], x))
      <4> DEFINE i == n - Door(x)
      <4>1. CASE n = Door(x) /\ Has(applying, x)
        BY <1>1, <4>1, DistanceFacts DEF AtUpdate, Holds
      <4>2. CASE i \in 1..(k + 1) /\ Has(updateBox'[i].batch, x)
        <5>1. i \in 1..k /\ n \in Nat /\ n <= Door(x) + k
          <6>1. i # k + 1
            <7>1. Door(x) \in Nat /\ n \in Nat /\ k \in Nat
              BY <1>1, DistanceFacts
            <7>2. \A a, b, c \in Nat : a - b = c + 1 => a = b + c + 1
              OBVIOUS
            <7>3. i = k + 1 => n = Door(x) + k + 1
              BY <7>1, <7>2
            <7> QED BY <1>1, <3>2, <4>2, <7>3
          <6>2. i \in 1..k
            BY <1>1, <4>2, <6>1
          <6> QED BY <1>1, <6>2, DistanceFacts
        <5>2. AtUpdate(n, x)
          BY <1>1, <4>2, <5>1 DEF AtUpdate
        <5> QED BY <1>1, <5>1, <5>2, DistanceFacts DEF Holds
      <4> QED BY <1>1, <1>2, <2>2, <4>1, <4>2 DEF AtUpdate
    <3> QED BY <3>1, <3>2
  <2>3. CASE AtSource(n, x)'
    <3>1. x.task # t
      BY <1>1, <2>3 DEF AtSource, Has
    <3> QED BY <1>1, <2>3, <3>1, DistanceFacts DEF AtSource, Holds
  <2> QED BY <1>3, <2>0, <2>1, <2>2, <2>3 DEF Holds
<1>4. ASSUME NEW x \in Feed!Item, NEW y \in Feed!Item, SameLine(x, y),
             NEW m \in Nat, NEW n \in Nat, Holds(m, x)', Holds(n, y)'
      PROVE  (m < n => f[x][m] < f[y][n]) /\ (m = n => f[x][m] = f[y][n])
  <2>1. (x.task = t => n <= Door(y) + k + 1) /\ x.task = y.task /\ Door(x) = Door(y)
    BY <1>3, <1>4 DEF SameLine, Door
  <2> QED BY <1>1, <2>1, DistanceFacts
<1>5. f \in [Feed!Item -> [Nat -> Nat]]
  BY <1>1, DistanceFacts
<1> HIDE DEF f
<1>6. InOrder' /\ Numbered' /\ Held' \subseteq Held
  <2>1. \A x \in Feed!Item : \A n \in Nat : Holds(n, x)' => Holds(f[x][n], x)
    BY <1>3
  <2>2. \A x, y \in Feed!Item : SameLine(x, y) =>
          \A m, n \in Nat : Holds(m, x)' /\ Holds(n, y)' =>
            (m < n => f[x][m] < f[y][n]) /\ (m = n => f[x][m] = f[y][n])
    BY <1>4
  <2> QED BY <1>2, <1>5, <2>1, <2>2, Nearer DEF LineInv
<1>7. OnPath'
  BY <1>1, <1>2 DEF LineInv, OnPath, TypeOK
<1> QED BY <1>6, <1>7 DEF LineInv

\* The update server takes a message off its mailbox: those behind it move up.
LEMMA UpdateTakeLine ==
  ASSUME TypeOK, TypeOK', LineInv, updateBox # <<>>, updateBox' = Tail(updateBox),
         applying.sinks = {},
         \A x : Has(applying', x) => Has(Head(updateBox).batch, x),
         UNCHANGED <<generation, stage, reply>>, UNCHANGED <<hueBox, hueWork>>,
         UNCHANGED <<redstoneBox, forwarding, deviceBox>>
  PROVE  LineInv' /\ Held' \subseteq Held
<1> DEFINE k == Len(updateBox)
           f == [x \in Feed!Item |-> [n \in Nat |->
                  IF Door(x) <= n /\ n < Door(x) + k THEN n + 1 ELSE n]]
<1>1. /\ k \in Nat \ {0} /\ k <= Capacity /\ Len(updateBox') = k - 1
      /\ \A i \in 1..(k - 1) : updateBox'[i] = updateBox[i + 1]
      /\ Head(updateBox) = updateBox[1]
  BY DEF TypeOK
<1>2. ASSUME NEW x \in Feed!Item, NEW n \in Nat, Holds(n, x)'
      PROVE  /\ Holds(f[x][n], x)
             /\ n < Door(x) + k \/ n = Door(x) + Capacity + 1
  <2>1. CASE x.sink \in Light /\ AtHue(n, x)'
    <3>1. AtHue(n, x)
      BY <2>1 DEF AtHue
    <3>2. n < Door(x)
      BY <2>1, <3>1, Ranges, DistanceFacts
    <3> QED BY <1>1, <2>1, <3>1, <3>2, DistanceFacts DEF Holds
  <2>2. CASE x.sink \in Property /\ AtRedstone(n, x)'
    <3>1. AtRedstone(n, x)
      BY <2>2 DEF AtRedstone
    <3>2. n < Door(x)
      BY <2>2, <3>1, Ranges, DistanceFacts
    <3> QED BY <1>1, <2>2, <3>1, <3>2, DistanceFacts DEF Holds
  <2>3. CASE n = Door(x) /\ Has(applying', x)
    <3>1. (n + 1) - Door(x) = 1 /\ 1 \in 1..k /\ f[x][n] = n + 1
      BY <1>1, <2>3, DistanceFacts
    <3>2. Has(updateBox[1].batch, x)
      BY <1>1, <2>3
    <3> QED BY <1>1, <2>3, <3>1, <3>2, DistanceFacts DEF AtUpdate, Holds
  <2>4. CASE n - Door(x) \in 1..(k - 1) /\ Has(updateBox'[n - Door(x)].batch, x)
    <3>1. /\ (n + 1) - Door(x) = (n - Door(x)) + 1 /\ (n + 1) - Door(x) \in 1..k
          /\ f[x][n] = n + 1 /\ n < Door(x) + k
      BY <1>1, <2>4, DistanceFacts
    <3>2. Has(updateBox[(n + 1) - Door(x)].batch, x)
      BY <1>1, <2>4, <3>1
    <3> QED BY <1>1, <3>1, <3>2 DEF AtUpdate, Holds
  <2>5. CASE AtSource(n, x)'
    <3>1. AtSource(n, x)
      BY <2>5 DEF AtSource
    <3> QED BY <1>1, <3>1, DistanceFacts DEF AtSource, Holds
  <2> QED BY <1>1, <1>2, <2>1, <2>2, <2>3, <2>4, <2>5 DEF Holds, AtUpdate
<1>3. ASSUME NEW x \in Feed!Item, NEW y \in Feed!Item, SameLine(x, y),
             NEW m \in Nat, NEW n \in Nat, Holds(m, x)', Holds(n, y)'
      PROVE  (m < n => f[x][m] < f[y][n]) /\ (m = n => f[x][m] = f[y][n])
  <2>1. /\ n < Door(y) + k \/ n = Door(y) + Capacity + 1
        /\ Door(x) = Door(y)
    BY <1>2, <1>3 DEF SameLine, Door
  <2> QED BY <1>1, <2>1, DistanceFacts
<1>4. f \in [Feed!Item -> [Nat -> Nat]]
  BY <1>1, DistanceFacts
<1> HIDE DEF f
<1>5. InOrder' /\ Numbered' /\ Held' \subseteq Held
  <2>1. \A x \in Feed!Item : \A n \in Nat : Holds(n, x)' => Holds(f[x][n], x)
    BY <1>2
  <2>2. \A x, y \in Feed!Item : SameLine(x, y) =>
          \A m, n \in Nat : Holds(m, x)' /\ Holds(n, y)' =>
            (m < n => f[x][m] < f[y][n]) /\ (m = n => f[x][m] = f[y][n])
    BY <1>3
  <2> QED BY <1>4, <2>1, <2>2, Nearer DEF LineInv
<1>6. OnPath'
  BY DEF LineInv, OnPath
<1> QED BY <1>5, <1>6 DEF LineInv

\* The values for lights leave the update server for the hue server's mailbox.
LEMMA UpdateToHueLine ==
  ASSUME TypeOK, TypeOK', LineInv, UpdateToHue
  PROVE  LineInv' /\ Held' \subseteq Held
<1> DEFINE lights == applying.sinks \cap Light
           k == Len(hueBox)
           f == [x \in Feed!Item |-> [n \in Nat |->
                  IF x.sink \in Light /\ n = k + 1 THEN Door(x) ELSE n]]
<1>1. /\ k \in Nat /\ k < Capacity /\ Len(hueBox') = k + 1
      /\ \A i \in 1..k : hueBox'[i] = hueBox[i]
      /\ hueBox'[k + 1] = [applying EXCEPT !.sinks = lights]
      /\ applying' = Minus(applying, lights)
  BY DEF UpdateToHue, TypeOK, HasRoom
<1>2. UNCHANGED <<generation, stage, reply, updateBox, hueWork, redstoneBox, forwarding, deviceBox>>
  BY DEF UpdateToHue, treeVars, taskVars, redstoneVars
<1>3. /\ hueBox'[k + 1].sinks \subseteq Light
      /\ \A x : Has(hueBox'[k + 1], x) => Has(applying, x)
      /\ \A x : Has(applying', x) => Has(applying, x) /\ x.sink \notin Light
  BY <1>1 DEF Has, Minus, TypeOK, Batch
<1>4. ASSUME NEW x \in Feed!Item, NEW n \in Nat, Holds(n, x)'
      PROVE  /\ Holds(f[x][n], x)
             /\ x.sink \in Light => n <= k + 1 \/ n > Door(x)
  <2>1. CASE x.sink \in Light /\ AtHue(n, x)'
    <3>1. CASE n = k + 1 /\ Has(hueBox'[k + 1], x)
      <4>1. Has(applying, x) /\ f[x][n] = Door(x)
        BY <1>3, <2>1, <3>1
      <4> QED BY <3>1, <4>1 DEF Holds, AtUpdate
    <3>2. CASE AtHue(n, x) /\ n <= k
      BY <1>1, <2>1, <3>2 DEF Holds
    <3>3. CASE n = 0 /\ Has(hueWork', x)
      BY <1>1, <1>2, <2>1, <3>3 DEF Holds, AtHue
    <3>4. CASE n \in 1..(k + 1) /\ Has(hueBox'[n], x) /\ n # k + 1
      <4>1. n \in 1..k /\ Has(hueBox[n], x)
        BY <1>1, <3>4
      <4> QED BY <2>1, <3>2, <4>1 DEF AtHue
    <3> QED BY <1>1, <2>1, <3>1, <3>3, <3>4 DEF AtHue
  <2>2. CASE x.sink \in Property /\ AtRedstone(n, x)'
    <3>1. AtRedstone(n, x)
      BY <1>2, <2>2 DEF AtRedstone
    <3> QED BY <2>2, <3>1, DistanceFacts DEF Holds
  <2>3. CASE AtUpdate(n, x)'
    <3>1. AtUpdate(n, x) /\ (x.sink \in Light => n > Door(x))
      BY <1>2, <1>3, <2>3, DistanceFacts DEF AtUpdate
    <3>2. n >= Door(x)
      BY <3>1, Ranges
    <3> QED BY <1>1, <3>1, <3>2, DistanceFacts DEF Holds
  <2>4. CASE AtSource(n, x)'
    <3>1. AtSource(n, x)
      BY <1>2, <2>4 DEF AtSource
    <3> QED BY <1>1, <3>1, DistanceFacts DEF AtSource, Holds
  <2> QED BY <1>4, <2>1, <2>2, <2>3, <2>4 DEF Holds
<1>5. ASSUME NEW x \in Feed!Item, NEW y \in Feed!Item, SameLine(x, y),
             NEW m \in Nat, NEW n \in Nat, Holds(m, x)', Holds(n, y)'
      PROVE  (m < n => f[x][m] < f[y][n]) /\ (m = n => f[x][m] = f[y][n])
  <2>1. /\ x.sink \in Light => n <= k + 1 \/ n > Door(x)
        /\ Door(x) = Door(y) /\ x.sink = y.sink
    BY <1>4, <1>5 DEF SameLine, Door
  <2> QED BY <1>1, <2>1, DistanceFacts
<1>6. f \in [Feed!Item -> [Nat -> Nat]]
  BY <1>1, DistanceFacts
<1> HIDE DEF f
<1>7. InOrder' /\ Numbered' /\ Held' \subseteq Held
  <2>1. \A x \in Feed!Item : \A n \in Nat : Holds(n, x)' => Holds(f[x][n], x)
    BY <1>4
  <2>2. \A x, y \in Feed!Item : SameLine(x, y) =>
          \A m, n \in Nat : Holds(m, x)' /\ Holds(n, y)' =>
            (m < n => f[x][m] < f[y][n]) /\ (m = n => f[x][m] = f[y][n])
    BY <1>5
  <2> QED BY <1>2, <1>6, <2>1, <2>2, Nearer DEF LineInv
<1>8. OnPath'
  <2>1. \A i \in 1..(k + 1) : hueBox'[i].sinks \subseteq Light
    <3> SUFFICES ASSUME NEW i \in 1..(k + 1) PROVE hueBox'[i].sinks \subseteq Light
      OBVIOUS
    <3>1. i = k + 1 \/ i \in 1..k
      BY <1>1
    <3> QED BY <1>1, <1>3, <3>1 DEF LineInv, OnPath
  <2> QED BY <1>1, <1>2, <2>1 DEF LineInv, OnPath
<1> QED BY <1>7, <1>8 DEF LineInv

\* One property leaves the update server for the redstone server's mailbox.
LEMMA UpdateToRedstoneLine ==
  ASSUME TypeOK, TypeOK', LineInv, NEW p \in Property, UpdateToRedstone(p)
  PROVE  LineInv' /\ Held' \subseteq Held
<1> DEFINE k == Len(redstoneBox)
           last == Capacity + 1 + (k + 1)
           f == [x \in Feed!Item |-> [n \in Nat |->
                  IF x.sink = p /\ n = last THEN Door(x) ELSE n]]
<1>1. /\ k \in Nat /\ k < Capacity /\ Len(redstoneBox') = k + 1
      /\ \A i \in 1..k : redstoneBox'[i] = redstoneBox[i]
      /\ redstoneBox'[k + 1]
           = [sink |-> p, task |-> applying.task, gen |-> applying.gen]
      /\ applying' = Minus(applying, {p}) /\ p \in applying.sinks
  BY DEF UpdateToRedstone, TypeOK, HasRoom
<1>2. UNCHANGED <<generation, stage, reply, updateBox, hueBox, hueWork, forwarding, deviceBox>>
  BY DEF UpdateToRedstone, treeVars, taskVars, hueVars
<1>3. /\ Has(applying, redstoneBox'[k + 1]) /\ redstoneBox'[k + 1].sink = p
      /\ \A x : Has(applying', x) => Has(applying, x) /\ x.sink # p
  <2>1. Has(applying, redstoneBox'[k + 1]) /\ redstoneBox'[k + 1].sink = p
    BY <1>1 DEF Has
  <2>2. \A b \in Batch : \A x : Has(Minus(b, {p}), x) => Has(b, x) /\ x.sink # p
    BY DEF Has, Minus, Batch
  <2>3. applying \in Batch
    BY DEF TypeOK
  <2> QED BY <1>1, <2>1, <2>2, <2>3
<1>4. last \in Nat /\ last < 2 * Capacity + 2
  BY <1>1, DistanceFacts
<1>5. ASSUME NEW x \in Feed!Item, NEW n \in Nat, Holds(n, x)'
      PROVE  /\ Holds(f[x][n], x)
             /\ x.sink = p => n <= last \/ n > Door(x)
  <2>1. CASE x.sink \in Light /\ AtHue(n, x)'
    <3>1. AtHue(n, x)
      BY <1>2, <2>1 DEF AtHue
    <3> QED BY <2>1, <3>1, DistanceFacts DEF Holds
  <2>2. CASE x.sink \in Property /\ AtRedstone(n, x)'
    <3>0. Door(x) = 2 * Capacity + 2
      BY <2>2, DistanceFacts
    <3>1. CASE n = last /\ redstoneBox'[k + 1] = x
      <4>1. Has(applying, x) /\ f[x][n] = Door(x)
        BY <1>3, <3>1
      <4> QED BY <3>1, <4>1 DEF Holds, AtUpdate
    <3>2. CASE AtRedstone(n, x) /\ n < last
      BY <1>4, <2>2, <3>2 DEF Holds
    <3>3. CASE /\ DeviceOf[x.sink] \in Device
               /\ n \in 1..Len(deviceBox'[DeviceOf[x.sink]])
               /\ deviceBox'[DeviceOf[x.sink]][n] = x
      <4>1. AtRedstone(n, x)
        BY <1>2, <3>3 DEF AtRedstone
      <4>2. n <= Capacity
        BY <1>2, <3>3, DistanceFacts DEF TypeOK
      <4> QED BY <1>1, <3>2, <4>1, <4>2, DistanceFacts
    <3>4. CASE n = Capacity + 1 /\ x \in forwarding'
      <4>1. AtRedstone(n, x)
        BY <1>2, <3>4 DEF AtRedstone
      <4> QED BY <1>1, <3>2, <3>4, <4>1, DistanceFacts
    <3>5. CASE /\ n - (Capacity + 1) \in 1..(k + 1) /\ n # last
               /\ redstoneBox'[n - (Capacity + 1)] = x
      <4>1. n - (Capacity + 1) \in 1..k /\ n < last
        BY <1>1, <3>5, DistanceFacts
      <4>2. AtRedstone(n, x)
        BY <1>1, <3>5, <4>1 DEF AtRedstone
      <4> QED BY <3>2, <4>1, <4>2
    <3>6. n - (Capacity + 1) = k + 1 <=> n = last
      BY <1>1, DistanceFacts
    <3> QED BY <1>1, <2>2, <3>1, <3>3, <3>4, <3>5, <3>6 DEF AtRedstone
  <2>3. CASE AtUpdate(n, x)'
    <3>1. AtUpdate(n, x) /\ (x.sink = p => n > Door(x))
      BY <1>2, <1>3, <2>3, DistanceFacts DEF AtUpdate
    <3>2. n >= Door(x)
      BY <3>1, Ranges
    <3>3. x.sink = p => Door(x) = 2 * Capacity + 2
      BY DistanceFacts
    <3> QED BY <1>4, <3>1, <3>2, <3>3, DistanceFacts DEF Holds
  <2>4. CASE AtSource(n, x)'
    <3>1. AtSource(n, x)
      BY <1>2, <2>4 DEF AtSource
    <3>2. x.sink = p => Door(x) = 2 * Capacity + 2
      BY DistanceFacts
    <3> QED BY <1>4, <3>1, <3>2, DistanceFacts DEF AtSource, Holds
  <2> QED BY <1>5, <2>1, <2>2, <2>3, <2>4 DEF Holds
<1>6. ASSUME NEW x \in Feed!Item, NEW y \in Feed!Item, SameLine(x, y),
             NEW m \in Nat, NEW n \in Nat, Holds(m, x)', Holds(n, y)'
      PROVE  (m < n => f[x][m] < f[y][n]) /\ (m = n => f[x][m] = f[y][n])
  <2>1. /\ x.sink = p => n <= last \/ n > Door(x)
        /\ Door(x) = Door(y) /\ x.sink = y.sink
    BY <1>5, <1>6 DEF SameLine, Door
  <2>2. x.sink = p => last < Door(x)
    BY <1>4, DistanceFacts
  <2> QED BY <1>4, <2>1, <2>2, DistanceFacts
<1>7. f \in [Feed!Item -> [Nat -> Nat]]
  BY DistanceFacts
<1> HIDE DEF f
<1>8. InOrder' /\ Numbered' /\ Held' \subseteq Held
  <2>1. \A x \in Feed!Item : \A n \in Nat : Holds(n, x)' => Holds(f[x][n], x)
    BY <1>5
  <2>2. \A x, y \in Feed!Item : SameLine(x, y) =>
          \A m, n \in Nat : Holds(m, x)' /\ Holds(n, y)' =>
            (m < n => f[x][m] < f[y][n]) /\ (m = n => f[x][m] = f[y][n])
    BY <1>6
  <2> QED BY <1>2, <1>7, <2>1, <2>2, Nearer DEF LineInv
<1>9. OnPath'
  BY <1>2 DEF LineInv, OnPath
<1> QED BY <1>8, <1>9 DEF LineInv

\* The hue server takes the next batch: those behind it move up.
LEMMA HueTakeLine ==
  ASSUME TypeOK, TypeOK', LineInv, HueTake
  PROVE  LineInv' /\ Held' \subseteq Held
<1> DEFINE k == Len(hueBox)
           f == [x \in Feed!Item |-> [n \in Nat |->
                  IF x.sink \in Light /\ n < k THEN n + 1 ELSE n]]
<1>1. /\ k \in Nat \ {0} /\ k <= Capacity /\ Len(hueBox') = k - 1
      /\ \A i \in 1..(k - 1) : hueBox'[i] = hueBox[i + 1]
      /\ hueWork' = hueBox[1]
  BY DEF HueTake, TypeOK
<1>2. UNCHANGED <<generation, stage, reply, updateBox, applying, redstoneBox, forwarding, deviceBox>>
  BY DEF HueTake, treeVars, taskVars, updateVars, redstoneVars
<1>3. ASSUME NEW x \in Feed!Item, NEW n \in Nat, Holds(n, x)'
      PROVE  /\ Holds(f[x][n], x)
             /\ x.sink \in Light => n < k \/ n > Capacity
  <2>1. CASE x.sink \in Light /\ AtHue(n, x)'
    <3>1. CASE n = 0 /\ Has(hueWork', x)
      <4>1. 1 \in 1..k /\ Has(hueBox[1], x) /\ f[x][n] = 1
        BY <1>1, <2>1, <3>1
      <4> QED BY <1>1, <2>1, <3>1, <4>1 DEF AtHue, Holds
    <3>2. CASE n \in 1..(k - 1) /\ Has(hueBox'[n], x)
      <4>1. n + 1 \in 1..k /\ Has(hueBox[n + 1], x) /\ f[x][n] = n + 1
        BY <1>1, <2>1, <3>2
      <4> QED BY <1>1, <2>1, <3>2, <4>1 DEF AtHue, Holds
    <3> QED BY <1>1, <2>1, <3>1, <3>2 DEF AtHue
  <2>2. CASE x.sink \in Property /\ AtRedstone(n, x)'
    <3>1. AtRedstone(n, x)
      BY <1>2, <2>2 DEF AtRedstone
    <3> QED BY <2>2, <3>1, DistanceFacts DEF Holds
  <2>3. CASE AtUpdate(n, x)'
    <3>1. AtUpdate(n, x)
      BY <1>2, <2>3 DEF AtUpdate
    <3>2. n >= Door(x)
      BY <3>1, Ranges
    <3> QED BY <1>1, <3>1, <3>2, DistanceFacts DEF Holds
  <2>4. CASE AtSource(n, x)'
    <3>1. AtSource(n, x)
      BY <1>2, <2>4 DEF AtSource
    <3> QED BY <1>1, <3>1, DistanceFacts DEF AtSource, Holds
  <2> QED BY <1>3, <2>1, <2>2, <2>3, <2>4 DEF Holds
<1>4. ASSUME NEW x \in Feed!Item, NEW y \in Feed!Item, SameLine(x, y),
             NEW m \in Nat, NEW n \in Nat, Holds(m, x)', Holds(n, y)'
      PROVE  (m < n => f[x][m] < f[y][n]) /\ (m = n => f[x][m] = f[y][n])
  <2>1. (x.sink \in Light => n < k \/ n > Capacity) /\ x.sink = y.sink
    BY <1>3, <1>4 DEF SameLine
  <2> QED BY <1>1, <2>1, DistanceFacts
<1>5. f \in [Feed!Item -> [Nat -> Nat]]
  OBVIOUS
<1> HIDE DEF f
<1>6. InOrder' /\ Numbered' /\ Held' \subseteq Held
  <2>1. \A x \in Feed!Item : \A n \in Nat : Holds(n, x)' => Holds(f[x][n], x)
    BY <1>3
  <2>2. \A x, y \in Feed!Item : SameLine(x, y) =>
          \A m, n \in Nat : Holds(m, x)' /\ Holds(n, y)' =>
            (m < n => f[x][m] < f[y][n]) /\ (m = n => f[x][m] = f[y][n])
    BY <1>4
  <2> QED BY <1>2, <1>5, <2>1, <2>2, Nearer DEF LineInv
<1>7. OnPath'
  BY <1>1, <1>2 DEF LineInv, OnPath
<1> QED BY <1>6, <1>7 DEF LineInv

\* The redstone server takes the next property, if only to drop it.
LEMMA RedstoneTakeLine ==
  ASSUME TypeOK, TypeOK', LineInv, RedstoneTake
  PROVE  LineInv' /\ Held' \subseteq Held
<1> DEFINE k == Len(redstoneBox)
           desk == Capacity + 1
           f == [x \in Feed!Item |-> [n \in Nat |->
                  IF x.sink \in Property /\ desk <= n /\ n < desk + k
                  THEN n + 1 ELSE n]]
<1>1. /\ k \in Nat \ {0} /\ k <= Capacity /\ Len(redstoneBox') = k - 1
      /\ \A i \in 1..(k - 1) : redstoneBox'[i] = redstoneBox[i + 1]
      /\ \A x \in forwarding' : x = redstoneBox[1]
  BY DEF RedstoneTake, TypeOK
<1>2. UNCHANGED <<generation, stage, reply, updateBox, applying, hueBox, hueWork, deviceBox>>
  BY DEF RedstoneTake, treeVars, taskVars, updateVars, hueVars
<1>3. ASSUME NEW x \in Feed!Item, NEW n \in Nat, Holds(n, x)'
      PROVE  /\ Holds(f[x][n], x)
             /\ x.sink \in Property => n < desk + k \/ n > 2 * Capacity + 1
  <2>1. CASE x.sink \in Light /\ AtHue(n, x)'
    <3>1. AtHue(n, x)
      BY <1>2, <2>1 DEF AtHue
    <3> QED BY <2>1, <3>1, DistanceFacts DEF Holds
  <2>2. CASE x.sink \in Property /\ AtRedstone(n, x)'
    <3>1. CASE /\ DeviceOf[x.sink] \in Device
               /\ n \in 1..Len(deviceBox'[DeviceOf[x.sink]])
               /\ deviceBox'[DeviceOf[x.sink]][n] = x
      <4>1. AtRedstone(n, x)
        BY <1>2, <3>1 DEF AtRedstone
      <4>2. n <= Capacity
        BY <1>2, <3>1, DistanceFacts DEF TypeOK
      <4> QED BY <1>1, <2>2, <4>1, <4>2, DistanceFacts DEF Holds
    <3>2. CASE n = desk /\ x \in forwarding'
      <4>1. (n + 1) - desk = 1 /\ 1 \in 1..k /\ redstoneBox[1] = x
        BY <1>1, <3>2, DistanceFacts
      <4>2. f[x][n] = n + 1 /\ n < desk + k
        BY <1>1, <2>2, <3>2, DistanceFacts
      <4>3. AtRedstone(n + 1, x)
        BY <4>1 DEF AtRedstone
      <4> QED BY <2>2, <4>2, <4>3 DEF Holds
    <3>3. CASE n - desk \in 1..(k - 1) /\ redstoneBox'[n - desk] = x
      <4>1. (n + 1) - desk = (n - desk) + 1 /\ (n + 1) - desk \in 1..k
        BY <1>1, <3>3, DistanceFacts
      <4>2. f[x][n] = n + 1 /\ n < desk + k
        BY <1>1, <2>2, <3>3, DistanceFacts
      <4>3. redstoneBox[(n + 1) - desk] = x
        BY <1>1, <3>3, <4>1
      <4>4. AtRedstone(n + 1, x)
        BY <4>1, <4>3 DEF AtRedstone
      <4> QED BY <2>2, <4>2, <4>4 DEF Holds
    <3> QED BY <1>1, <2>2, <3>1, <3>2, <3>3 DEF AtRedstone
  <2>3. CASE AtUpdate(n, x)'
    <3>1. AtUpdate(n, x)
      BY <1>2, <2>3 DEF AtUpdate
    <3>2. n >= Door(x)
      BY <3>1, Ranges
    <3> QED BY <1>1, <3>1, <3>2, DistanceFacts DEF Holds
  <2>4. CASE AtSource(n, x)'
    <3>1. AtSource(n, x)
      BY <1>2, <2>4 DEF AtSource
    <3> QED BY <1>1, <3>1, DistanceFacts DEF AtSource, Holds
  <2> QED BY <1>3, <2>1, <2>2, <2>3, <2>4 DEF Holds
<1>4. ASSUME NEW x \in Feed!Item, NEW y \in Feed!Item, SameLine(x, y),
             NEW m \in Nat, NEW n \in Nat, Holds(m, x)', Holds(n, y)'
      PROVE  (m < n => f[x][m] < f[y][n]) /\ (m = n => f[x][m] = f[y][n])
  <2>1. /\ x.sink \in Property => n < desk + k \/ n > 2 * Capacity + 1
        /\ x.sink = y.sink
    BY <1>3, <1>4 DEF SameLine
  <2> QED BY <1>1, <2>1, DistanceFacts
<1>5. f \in [Feed!Item -> [Nat -> Nat]]
  OBVIOUS
<1> HIDE DEF f
<1>6. InOrder' /\ Numbered' /\ Held' \subseteq Held
  <2>1. \A x \in Feed!Item : \A n \in Nat : Holds(n, x)' => Holds(f[x][n], x)
    BY <1>3
  <2>2. \A x, y \in Feed!Item : SameLine(x, y) =>
          \A m, n \in Nat : Holds(m, x)' /\ Holds(n, y)' =>
            (m < n => f[x][m] < f[y][n]) /\ (m = n => f[x][m] = f[y][n])
    BY <1>4
  <2> QED BY <1>2, <1>5, <2>1, <2>2, Nearer DEF LineInv
<1>7. OnPath'
  BY <1>2 DEF LineInv, OnPath
<1> QED BY <1>6, <1>7 DEF LineInv

\* The redstone server sends its property to the end of a device's mailbox.
LEMMA RedstoneForwardLine ==
  ASSUME TypeOK, TypeOK', LineInv, RedstoneForward
  PROVE  LineInv' /\ Held' \subseteq Held
<1>0. PICK x0 \in forwarding :
        /\ HasRoom(deviceBox[DeviceOf[x0.sink]])
        /\ deviceBox' = [deviceBox EXCEPT ![DeviceOf[x0.sink]] = Append(@, x0)]
        /\ forwarding' = {}
  BY DEF RedstoneForward
<1> DEFINE d == DeviceOf[x0.sink]
           k == Len(deviceBox[d])
           Here(x) == x.sink \in Property /\ DeviceOf[x.sink] = d
           f == [x \in Feed!Item |-> [n \in Nat |->
                  IF Here(x) /\ n = k + 1 THEN Capacity + 1 ELSE n]]
<1>1. x0 \in Item /\ d \in Device
  BY WiringAssumption DEF TypeOK, Item
<1>2. /\ k \in Nat /\ k < Capacity /\ Len(deviceBox'[d]) = k + 1
      /\ \A i \in 1..k : deviceBox'[d][i] = deviceBox[d][i]
      /\ deviceBox'[d][k + 1] = x0
      /\ \A e \in Device : e # d => deviceBox'[e] = deviceBox[e]
  <2>1. /\ deviceBox[d] \in Seq(DeviceMessage) /\ x0 \in DeviceMessage
        /\ deviceBox'[d] = Append(deviceBox[d], x0)
    BY <1>0, <1>1 DEF TypeOK, DeviceMessage
  <2> QED BY <1>0, <1>1, <2>1 DEF TypeOK, HasRoom
<1>3. UNCHANGED <<generation, stage, reply, updateBox, applying, hueBox, hueWork, redstoneBox>>
  BY DEF RedstoneForward, treeVars, taskVars, updateVars, hueVars
<1> HIDE DEF k, d
<1>4. ASSUME NEW x \in Feed!Item, NEW n \in Nat, Holds(n, x)'
      PROVE  /\ Holds(f[x][n], x)
             /\ Here(x) => n <= k + 1 \/ n > Capacity + 1
  <2>1. CASE x.sink \in Light /\ AtHue(n, x)'
    <3>1. AtHue(n, x)
      BY <1>3, <2>1 DEF AtHue
    <3> QED BY <2>1, <3>1, DistanceFacts DEF Holds
  <2>2. CASE /\ Here(x) /\ n \in 1..(k + 1)
             /\ deviceBox'[d][n] = x
    <3>1. CASE n = k + 1
      <4>1. x \in forwarding /\ f[x][n] = Capacity + 1
        BY <1>2, <2>2, <3>1
      <4> QED BY <2>2, <3>1, <4>1 DEF Holds, AtRedstone
    <3>2. CASE n # k + 1
      <4>1. n \in 1..k /\ deviceBox[d][n] = x
        BY <1>2, <2>2, <3>2
      <4>2. k = Len(deviceBox[d])
        BY DEF k
      <4>3. AtRedstone(n, x)
        BY <1>1, <2>2, <4>1, <4>2 DEF AtRedstone
      <4> QED BY <2>2, <3>2, <4>1, <4>3 DEF Holds
    <3> QED BY <3>1, <3>2
  <2>3. CASE /\ x.sink \in Property /\ ~Here(x) /\ DeviceOf[x.sink] \in Device
             /\ n \in 1..Len(deviceBox'[DeviceOf[x.sink]])
             /\ deviceBox'[DeviceOf[x.sink]][n] = x
    <3>1. AtRedstone(n, x)
      BY <1>2, <2>3 DEF AtRedstone
    <3> QED BY <2>3, <3>1 DEF Holds
  <2>4. CASE /\ x.sink \in Property /\ n - (Capacity + 1) \in 1..Len(redstoneBox')
             /\ redstoneBox'[n - (Capacity + 1)] = x
    <3>1. AtRedstone(n, x)
      BY <1>3, <2>4 DEF AtRedstone
    <3>2. n > Capacity + 1
      BY <1>3, <2>4, DistanceFacts DEF TypeOK
    <3> QED BY <1>2, <2>4, <3>1, <3>2, DistanceFacts DEF Holds
  <2>5. CASE AtUpdate(n, x)'
    <3>1. AtUpdate(n, x)
      BY <1>3, <2>5 DEF AtUpdate
    <3>2. n >= Door(x)
      BY <3>1, Ranges
    <3>3. Here(x) => n > Capacity + 1
      BY <3>2, DistanceFacts
    <3> QED BY <1>2, <3>1, <3>3, DistanceFacts DEF Holds
  <2>6. CASE AtSource(n, x)'
    <3>1. AtSource(n, x)
      BY <1>3, <2>6 DEF AtSource
    <3>2. Here(x) => n > Capacity + 1
      BY <3>1, DistanceFacts DEF AtSource
    <3> QED BY <1>2, <3>1, <3>2, DistanceFacts DEF Holds
  <2>7. x.sink \in Property /\ AtRedstone(n, x)'
          => x.sink \in Property /\
               \/ /\ DeviceOf[x.sink] \in Device
                  /\ n \in 1..Len(deviceBox'[DeviceOf[x.sink]])
                  /\ deviceBox'[DeviceOf[x.sink]][n] = x
               \/ /\ n - (Capacity + 1) \in 1..Len(redstoneBox')
                  /\ redstoneBox'[n - (Capacity + 1)] = x
    BY <1>0 DEF AtRedstone
  <2> QED BY <1>2, <1>4, <2>1, <2>2, <2>3, <2>4, <2>5, <2>6, <2>7 DEF Holds
<1>5. ASSUME NEW x \in Feed!Item, NEW y \in Feed!Item, SameLine(x, y),
             NEW m \in Nat, NEW n \in Nat, Holds(m, x)', Holds(n, y)'
      PROVE  (m < n => f[x][m] < f[y][n]) /\ (m = n => f[x][m] = f[y][n])
  <2>1. (Here(x) => n <= k + 1 \/ n > Capacity + 1) /\ x.sink = y.sink
    BY <1>4, <1>5 DEF SameLine
  <2> QED BY <1>2, <2>1, DistanceFacts
<1>6. f \in [Feed!Item -> [Nat -> Nat]]
  BY DistanceFacts
<1> HIDE DEF f
<1>7. InOrder' /\ Numbered' /\ Held' \subseteq Held
  <2>1. \A x \in Feed!Item : \A n \in Nat : Holds(n, x)' => Holds(f[x][n], x)
    BY <1>4
  <2>2. \A x, y \in Feed!Item : SameLine(x, y) =>
          \A m, n \in Nat : Holds(m, x)' /\ Holds(n, y)' =>
            (m < n => f[x][m] < f[y][n]) /\ (m = n => f[x][m] = f[y][n])
    BY <1>5
  <2> QED BY <1>3, <1>6, <2>1, <2>2, Nearer DEF LineInv
<1>8. OnPath'
  <2>1. ASSUME NEW e \in Device, NEW i \in 1..Len(deviceBox'[e]), deviceBox'[e][i] \in Item
        PROVE  DeviceOf[deviceBox'[e][i].sink] = e
    <3>1. CASE e = d /\ i = k + 1
      BY <1>2, <3>1 DEF d
    <3>2. CASE e = d /\ i # k + 1
      <4>1. i \in 1..Len(deviceBox[e]) /\ deviceBox'[e][i] = deviceBox[e][i]
        BY <1>2, <3>2 DEF k
      <4> QED BY <2>1, <4>1 DEF LineInv, OnPath
    <3>3. CASE e # d
      BY <1>2, <2>1, <3>3 DEF LineInv, OnPath
    <3> QED BY <3>1, <3>2, <3>3
  <2> QED BY <1>3, <2>1 DEF LineInv, OnPath
<1> QED BY <1>7, <1>8 DEF LineInv

\* Item x is for a property of device d.
OfDevice(d, x) == x.sink \in Property /\ DeviceOf[x.sink] = d

\* A device server takes the first message off its mailbox: those behind it move up.
LEMMA DeviceTakeLine ==
  ASSUME TypeOK, TypeOK', LineInv, NEW d \in Device, DeviceStep(d)
  PROVE  /\ LineInv' /\ Held' \subseteq Held
         /\ \A x \in Feed!Item : \A n \in Nat : OfDevice(d, x) /\ Holds(n, x)' =>
              \E m \in Nat : m > 1 /\ Holds(m, x)
<1> DEFINE k == Len(deviceBox[d])
           Here(x) == x.sink \in Property /\ DeviceOf[x.sink] = d
           f == [x \in Feed!Item |-> [n \in Nat |->
                  IF Here(x) /\ n < k THEN n + 1 ELSE n]]
<1>1. /\ k \in Nat \ {0} /\ k <= Capacity /\ Len(deviceBox'[d]) = k - 1
      /\ \A i \in 1..(k - 1) : deviceBox'[d][i] = deviceBox[d][i + 1]
      /\ \A e \in Device : e # d => deviceBox'[e] = deviceBox[e]
  <2>1. /\ deviceBox[d] \in Seq(DeviceMessage) /\ deviceBox[d] # <<>>
        /\ deviceBox'[d] = Tail(deviceBox[d])
    BY DEF DeviceStep, DeviceSet, DevicePing, TypeOK
  <2> QED BY <2>1 DEF DeviceStep, DeviceSet, DevicePing, TypeOK
<1>2. UNCHANGED <<generation, stage, reply, updateBox, applying, hueBox, hueWork, redstoneBox, forwarding>>
  BY DEF DeviceStep, DeviceSet, DevicePing, treeVars, taskVars, updateVars, hueVars
<1>3. k = Len(deviceBox[d])
  OBVIOUS
<1> HIDE DEF k
<1>4. ASSUME NEW x \in Feed!Item, NEW n \in Nat, Holds(n, x)'
      PROVE  /\ Holds(f[x][n], x)
             /\ Here(x) => (0 < n /\ n < k) \/ n > Capacity
  <2>1. CASE x.sink \in Light /\ AtHue(n, x)'
    <3>1. AtHue(n, x)
      BY <1>2, <2>1 DEF AtHue
    <3> QED BY <2>1, <3>1, DistanceFacts DEF Holds
  <2>2. CASE /\ Here(x) /\ n \in 1..(k - 1)
             /\ deviceBox'[d][n] = x
    <3>1. n + 1 \in 1..k /\ deviceBox[d][n + 1] = x /\ f[x][n] = n + 1
      BY <1>1, <2>2
    <3>2. AtRedstone(n + 1, x)
      BY <1>3, <2>2, <3>1 DEF AtRedstone
    <3> QED BY <1>1, <2>2, <3>1, <3>2 DEF Holds
  <2>3. CASE /\ x.sink \in Property /\ ~Here(x) /\ DeviceOf[x.sink] \in Device
             /\ n \in 1..Len(deviceBox'[DeviceOf[x.sink]])
             /\ deviceBox'[DeviceOf[x.sink]][n] = x
    <3>1. AtRedstone(n, x)
      BY <1>1, <2>3 DEF AtRedstone
    <3> QED BY <2>3, <3>1 DEF Holds
  <2>4. CASE /\ x.sink \in Property
             /\ \/ n = Capacity + 1 /\ x \in forwarding'
                \/ /\ n - (Capacity + 1) \in 1..Len(redstoneBox')
                   /\ redstoneBox'[n - (Capacity + 1)] = x
    <3>1. AtRedstone(n, x)
      BY <1>2, <2>4 DEF AtRedstone
    <3>2. n > Capacity
      BY <1>2, <2>4, DistanceFacts DEF TypeOK
    <3> QED BY <1>1, <2>4, <3>1, <3>2, DistanceFacts DEF Holds
  <2>5. CASE AtUpdate(n, x)'
    <3>1. AtUpdate(n, x)
      BY <1>2, <2>5 DEF AtUpdate
    <3>2. n >= Door(x)
      BY <3>1, Ranges
    <3>3. Here(x) => n > Capacity
      BY <3>2, DistanceFacts
    <3> QED BY <1>1, <3>1, <3>3, DistanceFacts DEF Holds
  <2>6. CASE AtSource(n, x)'
    <3>1. AtSource(n, x)
      BY <1>2, <2>6 DEF AtSource
    <3>2. Here(x) => n > Capacity
      BY <3>1, DistanceFacts DEF AtSource
    <3> QED BY <1>1, <3>1, <3>2, DistanceFacts DEF Holds
  <2> QED BY <1>1, <1>4, <2>1, <2>2, <2>3, <2>4, <2>5, <2>6 DEF Holds, AtRedstone
<1>5. ASSUME NEW x \in Feed!Item, NEW y \in Feed!Item, SameLine(x, y),
             NEW m \in Nat, NEW n \in Nat, Holds(m, x)', Holds(n, y)'
      PROVE  (m < n => f[x][m] < f[y][n]) /\ (m = n => f[x][m] = f[y][n])
  <2>1. (Here(x) => (0 < n /\ n < k) \/ n > Capacity) /\ x.sink = y.sink
    BY <1>4, <1>5 DEF SameLine
  <2> QED BY <1>1, <2>1, DistanceFacts
<1>6. f \in [Feed!Item -> [Nat -> Nat]]
  OBVIOUS
<1>7. ASSUME NEW x \in Feed!Item, NEW n \in Nat, Here(x), Holds(n, x)'
      PROVE  \E m \in Nat : m > 1 /\ Holds(m, x)
  <2>1. Holds(f[x][n], x) /\ f[x][n] > 1 /\ f[x][n] \in Nat
    BY <1>1, <1>4, <1>7, DistanceFacts
  <2> QED BY <2>1
<1> HIDE DEF f
<1>8. InOrder' /\ Numbered' /\ Held' \subseteq Held
  <2>1. \A x \in Feed!Item : \A n \in Nat : Holds(n, x)' => Holds(f[x][n], x)
    BY <1>4
  <2>2. \A x, y \in Feed!Item : SameLine(x, y) =>
          \A m, n \in Nat : Holds(m, x)' /\ Holds(n, y)' =>
            (m < n => f[x][m] < f[y][n]) /\ (m = n => f[x][m] = f[y][n])
    BY <1>5
  <2> QED BY <1>2, <1>6, <2>1, <2>2, Nearer DEF LineInv
<1>9. OnPath'
  <2>1. ASSUME NEW e \in Device, NEW i \in 1..Len(deviceBox'[e]), deviceBox'[e][i] \in Item
        PROVE  DeviceOf[deviceBox'[e][i].sink] = e
    <3>1. CASE e = d
      <4>1. i + 1 \in 1..Len(deviceBox[d]) /\ deviceBox'[e][i] = deviceBox[d][i + 1]
        BY <1>1, <1>3, <3>1
      <4> QED BY <2>1, <3>1, <4>1 DEF LineInv, OnPath
    <3>2. CASE e # d
      BY <1>1, <2>1, <3>2 DEF LineInv, OnPath
    <3> QED BY <3>1, <3>2
  <2> QED BY <1>2, <2>1 DEF LineInv, OnPath
<1> QED BY <1>7, <1>8, <1>9 DEF LineInv, OfDevice

\* The property a device server takes was the oldest of its line, and no other like it
\* is under way.
LEMMA DeviceSetLine ==
  ASSUME TypeOK, TypeOK', LineInv, NEW d \in Device, DeviceSet(d),
         NEW x0, x0 = Head(deviceBox[d])
  PROVE  /\ LineInv' /\ x0 \in Held /\ Held' = Held \ {x0}
         /\ \A y \in Held : ~Feed!Older(y, x0)
<1> DEFINE k == Len(deviceBox[d])
           Here(x) == x.sink \in Property /\ DeviceOf[x.sink] = d
<1>1. /\ k \in Nat \ {0} /\ k <= Capacity /\ Len(deviceBox'[d]) = k - 1
      /\ \A i \in 1..(k - 1) : deviceBox'[d][i] = deviceBox[d][i + 1]
      /\ x0 = deviceBox[d][1] /\ x0 \in Item
      /\ \A e \in Device : e # d => deviceBox'[e] = deviceBox[e]
  <2>1. /\ deviceBox[d] \in Seq(DeviceMessage) /\ deviceBox[d] # <<>>
        /\ deviceBox'[d] = Tail(deviceBox[d]) /\ x0 # PingTimeout
    BY DEF DeviceSet, TypeOK
  <2>2. x0 \in Item
    BY <2>1 DEF DeviceMessage
  <2> QED BY <2>1, <2>2 DEF DeviceSet, TypeOK
<1>2. UNCHANGED <<generation, stage, reply, updateBox, applying, hueBox, hueWork, redstoneBox, forwarding>>
  BY DEF DeviceSet, treeVars, taskVars, updateVars, hueVars
<1>3. Here(x0) /\ x0 \in Feed!Item
  BY <1>1, ItemIsItem DEF Item, LineInv, OnPath
<1>4. k = Len(deviceBox[d])
  OBVIOUS
<1> HIDE DEF k
<1>5. /\ LineInv' /\ Held' \subseteq Held
      /\ \A x \in Feed!Item : \A n \in Nat : Here(x) /\ Holds(n, x)' =>
           \E m \in Nat : m > 1 /\ Holds(m, x)
  BY DeviceTakeLine DEF DeviceStep, OfDevice
<1>6. ASSUME NEW n \in Nat PROVE ~Holds(n, x0)'
  <2> SUFFICES ASSUME Holds(n, x0)' PROVE FALSE
    OBVIOUS
  <2>1. PICK m \in Nat : m > 1 /\ Holds(m, x0)
    BY <1>3, <1>5
  <2>2. Holds(1, x0)
    BY <1>1, <1>3, <1>4 DEF Holds, AtRedstone
  <2>3. x0.gen < x0.gen /\ x0.gen \in Nat
    BY <1>3, <2>1, <2>2, DistanceFacts DEF LineInv, InOrder, SameLine
  <2> QED BY <2>3
<1>7. Holds(1, x0)
  BY <1>1, <1>3, <1>4 DEF Holds, AtRedstone
<1>8. ASSUME NEW y \in Held PROVE ~Feed!Older(y, x0)
  <2>1. PICK n \in Nat : Holds(n, y)
    BY DEF Held
  <2>2. y \in Feed!Item
    BY DEF Held
  <2>3. CASE n = 0
    <3>1. y.sink \in Light
      BY <2>1, <2>2, <2>3, Ranges, DistanceFacts DEF Holds
    <3> QED BY <1>3, <2>2, <3>1, DistanceFacts DEF Feed!Older
  <2>4. CASE n > 0
    <3>1. SameLine(x0, y) => x0.gen <= y.gen
      BY <1>3, <1>7, <2>1, <2>2, <2>4, DistanceFacts DEF LineInv, InOrder
    <3> QED BY <1>3, <2>2, <3>1, DistanceFacts DEF Feed!Older, SameLine
  <2> QED BY <2>3, <2>4
<1>9. ASSUME NEW x \in Held, x # x0 PROVE x \in Held'
  <2>1. PICK n \in Nat : Holds(n, x)
    BY DEF Held
  <2>2. x \in Feed!Item
    BY DEF Held
  <2>3. CASE x.sink \in Property /\ Here(x) /\ n \in 1..k /\ deviceBox[d][n] = x
    <3>1. n - 1 \in 1..(k - 1) /\ (n - 1) + 1 = n
      BY <1>1, <1>9, <2>3
    <3>2. deviceBox'[d][n - 1] = x /\ n - 1 \in Nat
      BY <1>1, <2>3, <3>1
    <3>3. AtRedstone(n - 1, x)'
      BY <1>1, <2>3, <3>1, <3>2 DEF AtRedstone
    <3> QED BY <2>2, <2>3, <3>2, <3>3 DEF Held, Holds
  <2>4. CASE ~(x.sink \in Property /\ Here(x) /\ n \in 1..k /\ deviceBox[d][n] = x)
    <3>1. AtHue(n, x) => AtHue(n, x)'
      BY <1>2 DEF AtHue
    <3>2. AtUpdate(n, x) => AtUpdate(n, x)'
      BY <1>2 DEF AtUpdate
    <3>3. AtSource(n, x) => AtSource(n, x)'
      BY <1>2 DEF AtSource
    <3>4. x.sink \in Property /\ AtRedstone(n, x) => AtRedstone(n, x)'
      BY <1>1, <1>2, <1>4, <2>4 DEF AtRedstone
    <3>5. Holds(n, x)'
      BY <2>1, <3>1, <3>2, <3>3, <3>4 DEF Holds
    <3> QED BY <2>2, <3>5 DEF Held
  <2> QED BY <2>3, <2>4
<1>10. x0 \in Held /\ Held' = Held \ {x0}
  <2>1. x0 \in Held /\ x0 \notin Held'
    BY <1>3, <1>6, <1>7 DEF Held
  <2> QED BY <1>5, <1>9, <2>1
<1> QED BY <1>5, <1>8, <1>10

\* The hue server is done with a group of lights: what it took out of the batch
\* was the oldest of its lines, and nothing like it is under way elsewhere.
LEMMA HueGroupLine ==
  ASSUME TypeOK, TypeOK', LineInv, NEW group, group \subseteq hueWork.sinks,
         hueWork' = Minus(hueWork, group),
         UNCHANGED <<generation, stage, reply, updateBox, applying, hueBox>>,
         UNCHANGED <<redstoneBox, forwarding, deviceBox>>,
         NEW X, X = Feed!ItemsOf(hueWork.task, hueWork.gen, group)
  PROVE  /\ LineInv' /\ X \subseteq Held /\ Held' = Held \ X
         /\ \A x \in X, y \in Held : ~Feed!Older(y, x)
<1>1. /\ \A x : Has(hueWork', x) <=> Has(hueWork, x) /\ x.sink \notin group
      /\ hueWork' \in Batch /\ hueWork'.sinks = hueWork.sinks \ group
  BY DEF TypeOK, Batch, Minus, Has
<1>2. \A x \in X : x \in Feed!Item /\ Has(hueWork, x) /\ x.sink \in group
  BY DEF Feed!ItemsOf, Feed!Item, Has, TypeOK, Batch
<1>3. \A x \in X : Holds(0, x)
  BY <1>2 DEF Holds, AtHue, Has, LineInv, OnPath
<1>4. ASSUME NEW x \in Feed!Item, NEW n \in Nat
      PROVE  Holds(n, x)' => Holds(n, x)
  <2>1. AtHue(n, x)' => AtHue(n, x)
    BY <1>1 DEF AtHue
  <2>2. AtRedstone(n, x)' => AtRedstone(n, x)
    BY DEF AtRedstone
  <2>3. (AtUpdate(n, x)' => AtUpdate(n, x)) /\ (AtSource(n, x)' => AtSource(n, x))
    BY DEF AtUpdate, AtSource
  <2> QED BY <2>1, <2>2, <2>3 DEF Holds
<1>5. InOrder' /\ Numbered' /\ Held' \subseteq Held
  BY <1>4 DEF LineInv, InOrder, Numbered, Held
<1>6. OnPath'
  BY <1>1 DEF LineInv, OnPath
<1>7. ASSUME NEW x \in X, NEW y \in Held PROVE ~Feed!Older(y, x)
  <2>1. PICK n \in Nat : Holds(n, y)
    BY DEF Held
  <2>2. y \in Feed!Item /\ x \in Feed!Item /\ Holds(0, x)
    BY <1>2, <1>3 DEF Held
  <2>3. SameLine(x, y) => x.gen <= y.gen
    BY <2>1, <2>2, DistanceFacts DEF LineInv, InOrder
  <2> QED BY <2>2, <2>3, DistanceFacts DEF Feed!Older, SameLine
<1>8. ASSUME NEW x \in X PROVE x \in Held /\ x \notin Held'
  <2>1. x \in Held
    BY <1>2, <1>3 DEF Held
  <2>2. ASSUME NEW n \in Nat, Holds(n, x)' PROVE FALSE
    <3>1. Holds(n, x) /\ Holds(0, x) /\ x \in Feed!Item /\ x.gen \in Nat
      BY <1>2, <1>3, <1>4, <2>2, DistanceFacts
    <3>2. CASE n > 0
      <4>1. x.gen < x.gen
        BY <3>1, <3>2 DEF LineInv, InOrder, SameLine
      <4> QED BY <3>1, <4>1
    <3>3. CASE n = 0
      <4>1. x.sink \in Light
        BY <1>2 DEF Has, LineInv, OnPath
      <4>2. AtHue(0, x)'
        BY <2>2, <3>1, <3>3, <4>1, RangesNext, DistanceFacts DEF Holds
      <4> QED BY <1>1, <1>2, <4>2 DEF AtHue
    <3> QED BY <3>2, <3>3
  <2> QED BY <2>1, <2>2 DEF Held
<1>9. ASSUME NEW x \in Held, x \notin X PROVE x \in Held'
  <2>1. PICK n \in Nat : Holds(n, x)
    BY DEF Held
  <2>2. x \in Feed!Item
    BY DEF Held
  <2>3. Has(hueWork, x) => Has(hueWork', x)
    <3>1. ASSUME Has(hueWork, x), x.sink \in group PROVE x \in X
      BY <2>2, <3>1 DEF Feed!ItemsOf, Feed!Item, Has
    <3> QED BY <1>1, <1>9, <3>1
  <2>4. AtHue(n, x) => AtHue(n, x)'
    BY <2>3 DEF AtHue
  <2>5. AtRedstone(n, x) => AtRedstone(n, x)'
    BY DEF AtRedstone
  <2>6. (AtUpdate(n, x) => AtUpdate(n, x)') /\ (AtSource(n, x) => AtSource(n, x)')
    BY DEF AtUpdate, AtSource
  <2>7. Holds(n, x)'
    BY <2>1, <2>4, <2>5, <2>6 DEF Holds
  <2> QED BY <2>2, <2>7 DEF Held
<1> QED BY <1>5, <1>6, <1>7, <1>8, <1>9 DEF LineInv

\* The tree answers a task: new values enter behind all others.
LEMMA TreeLine ==
  ASSUME TypeOK, TypeOK', AsksInv, LineInv, TreeHandleEvent
  PROVE  /\ LineInv' /\ generation' = generation + 1
         /\ \E t \in Task, S \in SUBSET Sink :
              Held' = Held \cup Feed!ItemsOf(t, generation + 1, S)
<1> DEFINE t == Head(treeBox)
           gen == generation + 1
<1>1. PICK S \in SUBSET Sink :
        reply' = [reply EXCEPT ![t] = [task |-> t, gen |-> gen, sinks |-> S]]
  BY TreeStep
<1>2. /\ t \in Task /\ generation' = gen /\ gen \in Nat \ {0}
      /\ stage[t] = "waiting" /\ stage' = [stage EXCEPT ![t] = "sending"]
  <2>1. t \in Task /\ stage[t] = "waiting"
    BY TreeStep
  <2>2. generation' = gen /\ stage' = [stage EXCEPT ![t] = "sending"]
    BY DEF TreeHandleEvent
  <2>3. gen \in Nat \ {0}
    BY DEF TypeOK
  <2> QED BY <2>1, <2>2, <2>3
<1>3. UNCHANGED <<updateBox, applying, hueBox, hueWork, redstoneBox, forwarding, deviceBox>>
  BY DEF TreeHandleEvent, updateVars, hueVars, redstoneVars
<1> DEFINE X == Feed!ItemsOf(t, gen, S)
           New(x) == x.task = t /\ x.gen = gen /\ x.sink \in S
<1> HIDE DEF t, gen
<1>4. /\ reply[t].sinks = {}
      /\ \A x : Has(reply'[t], x) <=> New(x)
      /\ \A u \in Task : u # t => reply'[u] = reply[u]
  <2>1. reply[t].sinks = {}
    BY <1>2 DEF LineInv, OnPath
  <2>2. reply'[t] = [task |-> t, gen |-> gen, sinks |-> S]
    BY <1>1, <1>2 DEF TypeOK
  <2> QED BY <1>1, <1>2, <2>1, <2>2 DEF Has, TypeOK
<1>5. \A x : x \in X <=> x \in Feed!Item /\ New(x)
  <2>1. ASSUME NEW x \in X PROVE x \in Feed!Item /\ New(x)
    BY <1>2 DEF Feed!ItemsOf, Feed!Item
  <2>2. ASSUME NEW x \in Feed!Item, New(x) PROVE x \in X
    BY <2>2 DEF Feed!ItemsOf, Feed!Item
  <2> QED BY <2>1, <2>2
<1>6. ASSUME NEW x \in Feed!Item, NEW n \in Nat
      PROVE  Holds(n, x)' <=> Holds(n, x) \/ (New(x) /\ n = Door(x) + Capacity + 1)
  <2>1. AtHue(n, x)' <=> AtHue(n, x)
    BY <1>3 DEF AtHue
  <2>2. AtRedstone(n, x)' <=> AtRedstone(n, x)
    BY <1>3 DEF AtRedstone
  <2>3. AtUpdate(n, x)' <=> AtUpdate(n, x)
    BY <1>3 DEF AtUpdate
  <2>4. AtSource(n, x)' <=> AtSource(n, x) \/ (New(x) /\ n = Door(x) + Capacity + 1)
    <3>1. CASE x.task = t
      <4>1. Has(reply'[x.task], x) <=> New(x)
        BY <1>4, <3>1
      <4>2. ~Has(reply[x.task], x)
        BY <1>4, <3>1 DEF Has
      <4> QED BY <4>1, <4>2 DEF AtSource
    <3>2. CASE x.task # t
      BY <1>4, <3>2, DistanceFacts DEF AtSource
    <3> QED BY <3>1, <3>2
  <2> QED BY <2>1, <2>2, <2>3, <2>4 DEF Holds
<1>7. ASSUME NEW x \in Feed!Item, NEW n \in Nat, Holds(n, x)
      PROVE  /\ x.gen <= generation /\ n <= Door(x) + Capacity + 1
             /\ x.task = t => n < Door(x) + Capacity + 1
  <2>1. x.gen <= generation
    BY <1>7 DEF LineInv, Numbered
  <2>2. CASE AtSource(n, x)
    <3>1. x.task # t
      BY <1>4, <2>2 DEF AtSource, Has
    <3> QED BY <2>1, <2>2, <3>1, DistanceFacts DEF AtSource
  <2>3. CASE ~AtSource(n, x)
    <3>1. n <= Door(x) + Capacity
      <4>1. CASE x.sink \in Light /\ AtHue(n, x)
        BY <4>1, Ranges, DistanceFacts
      <4>2. CASE x.sink \in Property /\ AtRedstone(n, x)
        BY <4>2, Ranges, DistanceFacts
      <4>3. CASE AtUpdate(n, x)
        <5>1. n <= Door(x) + Len(updateBox) /\ Len(updateBox) <= Capacity
                /\ Len(updateBox) \in Nat
          <6>1. Len(updateBox) \in Nat
            BY DEF TypeOK
          <6> QED BY <4>3, <6>1, Ranges
        <5> QED BY <5>1, DistanceFacts
      <4> QED BY <1>7, <2>3, <4>1, <4>2, <4>3 DEF Holds
    <3> QED BY <2>1, <3>1, DistanceFacts
  <2> QED BY <2>2, <2>3
<1>8. InOrder'
  <2> SUFFICES ASSUME NEW x \in Feed!Item, NEW y \in Feed!Item, SameLine(x, y),
                      NEW m \in Nat, NEW n \in Nat, Holds(m, x)', Holds(n, y)'
               PROVE  (m < n => x.gen < y.gen) /\ (m = n => x.gen = y.gen)
    BY DEF InOrder
  <2>1. Door(x) = Door(y) /\ x.task = y.task /\ x.gen \in Nat /\ y.gen \in Nat
          /\ generation \in Nat /\ gen = generation + 1 /\ Door(x) \in Nat /\ Capacity \in Nat
    BY DistanceFacts DEF SameLine, Door, TypeOK, gen
  <2>2. CASE Holds(m, x) /\ Holds(n, y)
    BY <2>2 DEF LineInv, InOrder
  <2>3. CASE Holds(m, x) /\ New(y) /\ n = Door(y) + Capacity + 1
    BY <1>7, <2>1, <2>3
  <2>4. CASE New(x) /\ m = Door(x) + Capacity + 1 /\ Holds(n, y)
    <3>1. n < Door(y) + Capacity + 1
      BY <1>7, <2>1, <2>4
    <3> QED BY <2>1, <2>4, <3>1
  <2>5. CASE /\ New(x) /\ m = Door(x) + Capacity + 1
             /\ New(y) /\ n = Door(y) + Capacity + 1
    BY <2>1, <2>5
  <2> QED BY <1>6, <2>2, <2>3, <2>4, <2>5
<1>9. Numbered'
  <2> SUFFICES ASSUME NEW x \in Feed!Item, NEW n \in Nat, Holds(n, x)'
               PROVE  x.gen <= generation'
    BY DEF Numbered
  <2>1. CASE Holds(n, x)
    BY <1>2, <1>7, <2>1, DistanceFacts DEF TypeOK, gen
  <2>2. CASE New(x)
    BY <1>2, <2>2
  <2> QED BY <1>6, <2>1, <2>2
<1>10. OnPath'
  <2>1. \A u \in Task : reply'[u].sinks # {} => stage'[u] = "sending" /\ reply'[u].task = u
    BY <1>1, <1>2 DEF LineInv, OnPath, TypeOK
  <2> QED BY <1>3, <2>1 DEF LineInv, OnPath
<1>11. Held' = Held \cup X
  <2>1. ASSUME NEW x \in Feed!Item PROVE x \in Held' <=> x \in Held \/ New(x)
    <3>1. Door(x) + Capacity + 1 \in Nat
      BY DistanceFacts
    <3>2. (\E n \in Nat : Holds(n, x)') <=> (\E n \in Nat : Holds(n, x)) \/ New(x)
      BY <1>6, <3>1
    <3> QED BY <3>2 DEF Held
  <2>2. Held \subseteq Feed!Item /\ Held' \subseteq Feed!Item
    BY DEF Held
  <2> QED BY <1>5, <2>1, <2>2
<1> QED BY <1>2, <1>8, <1>9, <1>10, <1>11 DEF LineInv, gen

\* Where every value stays or gets lost, nothing else is asked of a step.
LEMMA StaysLine ==
  ASSUME LineInv, OnPath', generation' = generation,
         \A x \in Feed!Item : \A n \in Nat : Holds(n, x)' => Holds(n, x)
  PROVE  LineInv' /\ Held' \subseteq Held
BY DEF LineInv, InOrder, Numbered, Held

\* What main sends to the update server gives no sink a value.
LEMMA MainLine ==
  ASSUME TypeOK, TypeOK', LineInv, MainSetRedstone \/ MainSetHue
  PROVE  LineInv' /\ Held' \subseteq Held
<1> DEFINE k == Len(updateBox)
<1>1. /\ k \in Nat /\ Len(updateBox') = k + 1
      /\ \A i \in 1..k : updateBox'[i] = updateBox[i]
      /\ updateBox'[k + 1].batch.sinks = {}
  <2>1. PICK u \in UpdateMessage :
          updateBox' = Append(updateBox, u) /\ u.batch.sinks = {}
    <3>1. SetHue.batch.sinks = {} /\ SetRedstone.batch.sinks = {}
      BY DEF SetHue, SetRedstone, NoBatch
    <3> QED BY <3>1, BatchFacts DEF MainSetRedstone, MainSetHue
  <2>2. updateBox \in Seq(UpdateMessage)
    BY DEF TypeOK
  <2> QED BY <2>1, <2>2
<1>2. UNCHANGED <<generation, stage, reply, applying, hueBox, hueWork,
                  redstoneBox, forwarding, deviceBox>>
  BY DEF MainSetRedstone, MainSetHue, treeVars, taskVars, hueVars, redstoneVars
<1>3. ASSUME NEW x \in Feed!Item, NEW n \in Nat
      PROVE  Holds(n, x)' => Holds(n, x)
  <2>1. AtHue(n, x)' => AtHue(n, x)
    BY <1>2 DEF AtHue
  <2>2. AtRedstone(n, x)' => AtRedstone(n, x)
    BY <1>2 DEF AtRedstone
  <2>3. AtSource(n, x)' => AtSource(n, x)
    BY <1>2 DEF AtSource
  <2>4. AtUpdate(n, x)' => AtUpdate(n, x)
    <3> DEFINE i == n - Door(x)
    <3>1. i \in Int
      BY DistanceFacts
    <3>2. i \in 1..(k + 1) /\ Has(updateBox'[i].batch, x) => i \in 1..k
      BY <1>1, <3>1, NoneHas
    <3> QED BY <1>1, <1>2, <3>2 DEF AtUpdate
  <2> QED BY <2>1, <2>2, <2>3, <2>4 DEF Holds
<1>4. OnPath'
  BY <1>2 DEF LineInv, OnPath
<1> QED BY <1>2, <1>3, <1>4, StaysLine

\* Taking a task through its event, short of sending, moves no value.
LEMMA TaskLine ==
  ASSUME TypeOK, TypeOK', LineInv, NEW t \in Task,
         AskTree(t) \/ \E src \in Source : RaiseEvent(t, src)
  PROVE  LineInv' /\ Held' \subseteq Held
<1>1. /\ stage[t] # "sending"
      /\ \A u \in Task : u # t => stage'[u] = stage[u]
      /\ UNCHANGED <<generation, reply, updateBox, applying, hueBox, hueWork,
                     redstoneBox, forwarding, deviceBox>>
  BY DEF RaiseEvent, AskTree, treeVars, updateVars, hueVars, redstoneVars, TypeOK
<1>2. ASSUME NEW x \in Feed!Item, NEW n \in Nat PROVE Holds(n, x)' => Holds(n, x)
  BY <1>1 DEF Holds, AtHue, AtRedstone, AtUpdate, AtSource
<1>3. OnPath'
  BY <1>1 DEF LineInv, OnPath
<1> QED BY <1>1, <1>2, <1>3, StaysLine

\* That the redstone server comes to ping the devices moves no value, nor does a ping
\* at the end of a device's mailbox.
LEMMA RedstonePingLine ==
  ASSUME TypeOK, TypeOK', LineInv, RedstonePing \/ RedstonePingNext
  PROVE  LineInv' /\ Held' \subseteq Held
<1>1. /\ UNCHANGED <<generation, stage, reply, updateBox, applying, hueBox, hueWork>>
      /\ UNCHANGED <<redstoneBox, forwarding>>
  BY DEF RedstonePing, RedstonePingNext, treeVars, taskVars, updateVars, hueVars
<1>2. ASSUME NEW d \in Device, NEW i \in 1..Len(deviceBox'[d]),
             deviceBox'[d][i] # PingTimeout
      PROVE  i \in 1..Len(deviceBox[d]) /\ deviceBox'[d][i] = deviceBox[d][i]
  <2>1. /\ deviceBox[d] \in Seq(DeviceMessage) /\ PingTimeout \in DeviceMessage
        /\ deviceBox'[d] \in {deviceBox[d], Append(deviceBox[d], PingTimeout)}
    BY DEF RedstonePing, RedstonePingNext, TypeOK, DeviceMessage
  <2> QED BY <1>2, <2>1
<1>3. ASSUME NEW x \in Feed!Item, NEW n \in Nat PROVE Holds(n, x)' => Holds(n, x)
  <2>1. AtRedstone(n, x)' => AtRedstone(n, x)
    <3>1. x # PingTimeout
      BY PingIsNoItem
    <3> QED BY <1>1, <1>2, <3>1 DEF AtRedstone
  <2>2. AtHue(n, x)' => AtHue(n, x)
    BY <1>1 DEF AtHue
  <2>3. AtUpdate(n, x)' => AtUpdate(n, x)
    BY <1>1 DEF AtUpdate
  <2>4. AtSource(n, x)' => AtSource(n, x)
    BY <1>1 DEF AtSource
  <2> QED BY <2>1, <2>2, <2>3, <2>4 DEF Holds
<1>4. OnPath'
  BY <1>1, <1>2, PingIsNoItem DEF LineInv, OnPath
<1> QED BY <1>1, <1>3, <1>4, StaysLine

\* A step that brings no new value and shows none is one of SinkFeed's losses.
LEMMA LoseStep ==
  ASSUME InFlight' \subseteq InFlight, UNCHANGED <<generation, shown, owner>>
  PROVE  Feed!Next
<1> DEFINE X == InFlight \ InFlight'
<1>1. X \in SUBSET InFlight /\ InFlight' = InFlight \ X
  OBVIOUS
<1>2. Feed!Lose(X)
  BY <1>1 DEF Feed!Lose
<1> QED BY <1>1, <1>2 DEF Feed!Next

\* A step that displays the values X of an event on some sinks is SinkFeed's Show.
LEMMA ShowStep ==
  ASSUME NEW x \in InFlight, NEW S \in SUBSET Sink, Display(S, x.task, x.gen),
         UNCHANGED generation, NEW X, X = Feed!ItemsOf(x.task, x.gen, S),
         X \subseteq InFlight, InFlight' = InFlight \ X,
         \A z \in X, y \in InFlight : ~Feed!Older(y, z)
  PROVE  Feed!Next
<1>1. Feed!Show(x.task, x.gen, S)
  BY DEF Feed!Show, Display
<1> QED BY <1>1 DEF Feed!Next

\* Every step of the daemon keeps the order of the values under way and is a step
\* of SinkFeed.
LEMMA StepLine ==
  ASSUME TypeOK, TypeOK', AsksInv, LineInv, [Next]_vars
  PROVE  LineInv' /\ [Feed!Next]_(Feed!vars)
<1>1. InFlight = Held /\ (LineInv' => InFlight' = Held')
  BY InFlightIsHeld, InFlightIsHeldNext DEF LineInv
<1>2. ASSUME LineInv', Held' \subseteq Held, UNCHANGED <<generation, shown, owner>>
      PROVE  LineInv' /\ Feed!Next
  BY <1>1, <1>2, LoseStep
<1>3. CASE MainSetRedstone \/ MainSetHue
  <2>1. UNCHANGED <<generation, shown, owner>>
    BY <1>3 DEF MainSetRedstone, MainSetHue, treeVars, sinkVars
  <2> QED BY <1>2, <1>3, <2>1, MainLine
<1>4. ASSUME NEW t \in Task, AskTree(t) \/ \E src \in Source : RaiseEvent(t, src)
      PROVE  LineInv' /\ Feed!Next
  <2>1. UNCHANGED <<generation, shown, owner>>
    BY <1>4 DEF AskTree, RaiseEvent, treeVars, sinkVars
  <2> QED BY <1>2, <1>4, <2>1, TaskLine
<1>5. ASSUME NEW t \in Task, SendUpdates(t) PROVE LineInv' /\ Feed!Next
  <2>1. UNCHANGED <<generation, shown, owner>>
    BY <1>5 DEF SendUpdates, treeVars, sinkVars
  <2> QED BY <1>2, <1>5, <2>1, SendUpdatesLine
<1>6. CASE TreeHandleEvent
  <2>1. PICK t \in Task, S \in SUBSET Sink :
          Held' = Held \cup Feed!ItemsOf(t, generation + 1, S)
    BY <1>6, TreeLine
  <2>2. LineInv' /\ generation' = generation + 1 /\ UNCHANGED <<shown, owner>>
    BY <1>6, TreeLine DEF TreeHandleEvent, sinkVars
  <2>3. Feed!Compute(t, S)
    BY <1>1, <2>1, <2>2 DEF Feed!Compute
  <2> QED BY <2>2, <2>3 DEF Feed!Next
<1>7. CASE UpdateTakeSetHue \/ UpdateTakeSetRedstone \/ UpdateTakeApply
  <2>1. /\ updateBox # <<>> /\ updateBox' = Tail(updateBox) /\ applying.sinks = {}
        /\ UNCHANGED <<generation, stage, reply, hueBox, hueWork, redstoneBox,
                       forwarding, deviceBox, shown, owner>>
    BY <1>7 DEF UpdateTakeSetHue, UpdateTakeSetRedstone, UpdateTakeApply,
       treeVars, taskVars, hueVars, redstoneVars, sinkVars
  <2>2. \A x : Has(applying', x) => Has(Head(updateBox).batch, x)
    <3>1. CASE UpdateTakeApply
      <4>1. Head(updateBox).batch \in Batch
        <5>1. updateBox \in Seq(UpdateMessage)
          BY DEF TypeOK
        <5>2. Head(updateBox) \in UpdateMessage
          BY <2>1, <5>1
        <5> QED BY <5>2 DEF UpdateMessage
      <4>2. \A b \in Batch : \A x : Has([b EXCEPT !.sinks = Wired(@)], x) => Has(b, x)
        BY DEF Has, Wired, Batch
      <4> QED BY <3>1, <4>1, <4>2 DEF UpdateTakeApply
    <3>2. CASE UNCHANGED applying
      BY <2>1, <3>2, NoneHas
    <3> QED BY <1>7, <3>1, <3>2 DEF UpdateTakeSetHue, UpdateTakeSetRedstone
  <2> QED BY <1>2, <2>1, <2>2, UpdateTakeLine
<1>8. CASE UpdateToHue
  <2>1. UNCHANGED <<generation, shown, owner>>
    BY <1>8 DEF UpdateToHue, treeVars, sinkVars
  <2> QED BY <1>2, <1>8, <2>1, UpdateToHueLine
<1>9. ASSUME NEW p \in Property, UpdateToRedstone(p) PROVE LineInv' /\ Feed!Next
  <2>1. UNCHANGED <<generation, shown, owner>>
    BY <1>9 DEF UpdateToRedstone, treeVars, sinkVars
  <2> QED BY <1>2, <1>9, <2>1, UpdateToRedstoneLine
<1>10. CASE HueTake
  <2>1. UNCHANGED <<generation, shown, owner>>
    BY <1>10 DEF HueTake, treeVars, sinkVars
  <2> QED BY <1>2, <1>10, <2>1, HueTakeLine
<1>11. ASSUME NEW group \in SUBSET Light, HueApply(group) \/ HueFail(group)
       PROVE  LineInv' /\ Feed!Next
  <2> DEFINE t == hueWork.task
             g == hueWork.gen
             X == Feed!ItemsOf(t, g, group)
  <2>1. /\ group # {} /\ group \subseteq hueWork.sinks /\ hueWork' = Minus(hueWork, group)
        /\ UNCHANGED <<generation, stage, reply, updateBox, applying, hueBox,
                       redstoneBox, forwarding, deviceBox>>
    BY <1>11 DEF HueApply, HueFail, treeVars, taskVars, updateVars, redstoneVars
  <2>2. /\ LineInv' /\ X \subseteq Held /\ Held' = Held \ X
        /\ \A x \in X, y \in Held : ~Feed!Older(y, x)
    BY <2>1, HueGroupLine
  <2>3. CASE HueFail(group)
    BY <1>2, <2>1, <2>2, <2>3 DEF HueFail, sinkVars
  <2>4. CASE HueApply(group)
    <3>1. PICK s \in group : TRUE
      BY <2>1
    <3> DEFINE x == [sink |-> s, task |-> t, gen |-> g]
    <3>2. x \in X /\ x.task = t /\ x.gen = g
      BY DEF Feed!ItemsOf
    <3>3. x \in InFlight
      BY <1>1, <2>2, <3>2
    <3>4. Display(group, x.task, x.gen) /\ group \in SUBSET Sink
      BY <2>4, <3>2 DEF HueApply, Sink
    <3>5. X = Feed!ItemsOf(x.task, x.gen, group)
      BY <3>2
    <3>6. X \subseteq InFlight /\ InFlight' = InFlight \ X
            /\ \A z \in X, y \in InFlight : ~Feed!Older(y, z)
      BY <1>1, <2>2
    <3> HIDE DEF x, X
    <3>7. Feed!Next
      BY <2>1, <3>3, <3>4, <3>5, <3>6, ShowStep
    <3> QED BY <2>2, <3>7
  <2> QED BY <1>11, <2>3, <2>4
<1>12. CASE RedstoneTake
  <2>1. UNCHANGED <<generation, shown, owner>>
    BY <1>12 DEF RedstoneTake, treeVars, sinkVars
  <2> QED BY <1>2, <1>12, <2>1, RedstoneTakeLine
<1>13. CASE RedstoneForward
  <2>1. UNCHANGED <<generation, shown, owner>>
    BY <1>13 DEF RedstoneForward, treeVars, sinkVars
  <2> QED BY <1>2, <1>13, <2>1, RedstoneForwardLine
<1>14. ASSUME NEW d \in Device, DeviceSet(d) PROVE LineInv' /\ Feed!Next
  <2>1. PICK x : x = Head(deviceBox[d])
    OBVIOUS
  <2>2. /\ LineInv' /\ x \in Held /\ Held' = Held \ {x}
        /\ \A y \in Held : ~Feed!Older(y, x)
    BY <1>14, <2>1, DeviceSetLine
  <2>3. UNCHANGED generation
    BY <1>14 DEF DeviceSet, treeVars
  <2>4. CASE UNCHANGED <<shown, owner>>
    BY <1>2, <2>2, <2>3, <2>4
  <2>5. CASE Display({x.sink}, x.task, x.gen)
    <3> DEFINE X == Feed!ItemsOf(x.task, x.gen, {x.sink})
    <3>1. x \in Feed!Item
      BY <2>2 DEF Held
    <3>2. X = {x} /\ {x.sink} \in SUBSET Sink
      <4>1. x \in X /\ {x.sink} \in SUBSET Sink
        BY <3>1 DEF Feed!ItemsOf, Feed!Item
      <4>2. \A z \in X : z = x
        BY <3>1 DEF Feed!ItemsOf, Feed!Item
      <4> QED BY <4>1, <4>2
    <3>3. x \in InFlight /\ X \subseteq InFlight /\ InFlight' = InFlight \ X
            /\ \A z \in X, y \in InFlight : ~Feed!Older(y, z)
      BY <1>1, <2>2, <3>2
    <3> HIDE DEF X
    <3>4. X = Feed!ItemsOf(x.task, x.gen, {x.sink})
      BY DEF X
    <3>5. Feed!Next
      BY <2>3, <2>5, <3>2, <3>3, <3>4, ShowStep
    <3> QED BY <2>2, <3>5
  <2> QED BY <1>14, <2>1, <2>4, <2>5 DEF DeviceSet, sinkVars
<1>15. ASSUME NEW d \in Device, DevicePing(d) PROVE LineInv' /\ Feed!Next
  <2>1. UNCHANGED <<generation, shown, owner>>
    BY <1>15 DEF DevicePing, treeVars, sinkVars
  <2> QED BY <1>2, <1>15, <2>1, DeviceTakeLine DEF DeviceStep
<1>16. CASE RedstonePing \/ RedstonePingNext
  <2>1. UNCHANGED <<generation, shown, owner>>
    BY <1>16 DEF RedstonePing, RedstonePingNext, treeVars, sinkVars
  <2> QED BY <1>2, <1>16, <2>1, RedstonePingLine
<1>17. CASE UNCHANGED vars
  <2>1. /\ UNCHANGED <<generation, stage, reply, updateBox, applying, hueBox,
                       hueWork, redstoneBox, forwarding, deviceBox, shown, owner>>
    BY <1>17 DEF vars, treeVars, taskVars, updateVars, hueVars, redstoneVars, sinkVars
  <2>2. LineInv'
    <3>1. \A x, n : Holds(n, x)' <=> Holds(n, x)
      BY <2>1 DEF Holds, AtHue, AtRedstone, AtUpdate, AtSource
    <3>2. OnPath'
      BY <2>1 DEF LineInv, OnPath
    <3> QED BY <2>1, <3>1, <3>2, StaysLine
  <2>3. UNCHANGED Feed!vars
    BY <2>1 DEF Feed!vars, InFlight, BoxItems, ItemsOf
  <2> QED BY <2>2, <2>3
<1> QED BY <1>3, <1>4, <1>5, <1>6, <1>7, <1>8, <1>9, <1>10, <1>11, <1>12, <1>13,
           <1>14, <1>15, <1>16, <1>17
        DEF Next, UpdateStep, HueStep, RedstoneStep, DeviceStep, Idle

LEMMA InitLine == Init => LineInv /\ Feed!Init
<1> SUFFICES ASSUME Init PROVE LineInv /\ Feed!Init
  OBVIOUS
<1>1. /\ \A t \in Task : reply[t].sinks = {}
      /\ applying.sinks = {} /\ hueWork.sinks = {}
      /\ Len(updateBox) = 0 /\ Len(hueBox) = 0 /\ Len(redstoneBox) = 0
      /\ forwarding = {} /\ \A d \in Device : Len(deviceBox[d]) = 0
  BY DEF Init, NoBatch
<1>2. \A x \in Feed!Item, n \in Nat : ~Holds(n, x)
  <2> SUFFICES ASSUME NEW x \in Feed!Item, NEW n \in Nat, Holds(n, x)
               PROVE  FALSE
    OBVIOUS
  <2>1. ~AtHue(n, x) /\ ~AtUpdate(n, x)
    BY <1>1, NoneHas DEF AtHue, AtUpdate
  <2>2. ~AtRedstone(n, x)
    BY <1>1 DEF AtRedstone
  <2>3. ~AtSource(n, x)
    BY <1>1, NoneHas, DistanceFacts DEF AtSource
  <2> QED BY <2>1, <2>2, <2>3 DEF Holds
<1>3. LineInv
  BY <1>1, <1>2 DEF LineInv, OnPath, InOrder, Numbered
<1>4. InFlight = {}
  BY <1>2, <1>3, InitTypeOK, InFlightIsHeld DEF LineInv, Held
<1> QED BY <1>3, <1>4 DEF Init, Feed!Init

-----------------------------------------------------------------------------
\* The tasks and mailboxes of the daemon implement SinkFeed, for any house and
\* any capacity: whatever route a value takes through the update server, the hue
\* server or the redstone and device servers, it is shown after the older values
\* of its task or never.
THEOREM Refinement == Spec => ImplementsSinkFeed
<1>1. Init => TypeOK /\ AsksInv /\ LineInv /\ Feed!Init
  BY InitTypeOK, InitAsksInv, InitLine
<1>2. TypeOK /\ AsksInv /\ LineInv /\ [Next]_vars
        => (TypeOK /\ AsksInv /\ LineInv)' /\ [Feed!Next]_(Feed!vars)
  BY StepTypeOK, StepAsksInv, StepLine
<1> QED BY <1>1, <1>2, PTL DEF Spec, ImplementsSinkFeed, Feed!Spec

FeedProofs == INSTANCE SinkFeedProofs WITH pending <- InFlight

\* What is proved of SinkFeed holds of the feed that the daemon implements.
LEMMA SameFeed ==
  /\ Feed!Init <=> FeedProofs!Init
  /\ [Feed!Next]_(Feed!vars) <=> [FeedProofs!Next]_(FeedProofs!vars)
  /\ Feed!NotOvertaken <=> FeedProofs!NotOvertaken
  /\ [\A s \in Sink, t \in Task : shown[s][t] <= shown'[s][t]]_(FeedProofs!vars)
       <=> [\A s \in Sink, t \in Task : shown[s][t] <= shown'[s][t]]_(Feed!vars)
<1>1. Feed!Next <=> FeedProofs!Next
  <2>1. \A t, S : Feed!Compute(t, S) <=> FeedProofs!Compute(t, S)
    BY Zenon DEF Feed!Compute, FeedProofs!Compute, Feed!ItemsOf, FeedProofs!ItemsOf
  <2>2. \A t, g, S : Feed!Show(t, g, S) <=> FeedProofs!Show(t, g, S)
    BY Zenon DEF Feed!Show, FeedProofs!Show, Feed!ItemsOf, FeedProofs!ItemsOf,
       Feed!Older, FeedProofs!Older
  <2>3. \A X : Feed!Lose(X) <=> FeedProofs!Lose(X)
    BY Zenon DEF Feed!Lose, FeedProofs!Lose
  <2> QED BY <2>1, <2>2, <2>3, Zenon DEF Feed!Next, FeedProofs!Next
<1>2. Feed!vars = FeedProofs!vars /\ Feed!vars' = FeedProofs!vars'
  BY Zenon DEF Feed!vars, FeedProofs!vars
<1>3. Feed!Init <=> FeedProofs!Init
  BY Zenon DEF Feed!Init, FeedProofs!Init
<1>4. Feed!NotOvertaken <=> FeedProofs!NotOvertaken
  BY Zenon DEF Feed!NotOvertaken, FeedProofs!NotOvertaken
<1>5. [\A s \in Sink, t \in Task : shown[s][t] <= shown'[s][t]]_(FeedProofs!vars)
        <=> [\A s \in Sink, t \in Task : shown[s][t] <= shown'[s][t]]_(Feed!vars)
  BY <1>2, Zenon
<1> QED BY <1>1, <1>2, <1>3, <1>4, <1>5, Zenon

\* In the mailboxes of the daemon no value is overtaken by a younger one of its
\* task: all that is under way to a sink is newer than what the sink has shown.
THEOREM NothingOvertaken == Spec => []NotOvertaken
<1>1. Feed!Spec => FeedProofs!Spec
  BY SameFeed, PTL DEF Feed!Spec, FeedProofs!Spec
<1>2. FeedProofs!Spec => []FeedProofs!NotOvertaken
  BY FeedProofs!NeverOvertaken
<1> QED BY <1>1, <1>2, SameFeed, Refinement, PTL DEF ImplementsSinkFeed, NotOvertaken

\* No sink of the daemon goes back from a value of a task to an older value of it.
THEOREM ShownInOrder == Spec => Feed!OrderedPerTask
<1>1. Feed!Spec => FeedProofs!Spec
  BY SameFeed, PTL DEF Feed!Spec, FeedProofs!Spec
<1>2. FeedProofs!Spec => FeedProofs!OrderedPerTask
  BY FeedProofs!ShownInOrder
<1>3. FeedProofs!OrderedPerTask => Feed!OrderedPerTask
  BY SameFeed, PTL DEF Feed!OrderedPerTask, FeedProofs!OrderedPerTask
<1> QED BY <1>1, <1>2, <1>3, Refinement, PTL DEF ImplementsSinkFeed

-----------------------------------------------------------------------------
(***************************************************************************)
(* Nothing that the tree has computed for a task launched after the wiring *)
(* is forgotten on the way, proved for any tasks, devices, sources, sinks, *)
(* wiring, mailbox capacity and number of events.                          *)
(*                                                                         *)
(* What a sink was last computed for is shown, or it is under way: in some *)
(* mailbox, or in the hands of a task.  Once the daemon is quiet nothing   *)
(* is under way any more.                                                  *)
(***************************************************************************)

\* Where x may be under way, in the order in which it passes.
Somewhere(x) ==
  \/ \E t \in Task : x \in ItemsOf(reply[t])
  \/ \E u \in Range(updateBox) : x \in ItemsOf(u.batch)
  \/ x \in ItemsOf(applying)
  \/ \E b \in Range(hueBox) : x \in ItemsOf(b)
  \/ x \in ItemsOf(hueWork)
  \/ x \in Range(redstoneBox)
  \/ x \in forwarding
  \/ x # PingTimeout /\ \E d \in Device : x \in Range(deviceBox[d])

\* The newest value that the tree has computed for a sink on behalf of a task.
Newest(s, t) == [sink |-> s, task |-> t, gen |-> computed[s][t]]

\* Only updates carry values, and the redstone server handles one at a time.
Carriers ==
  /\ \A i \in 1..Len(updateBox) :
       updateBox[i].kind # "apply" => updateBox[i].batch.sinks = {}
  /\ \A x, y \in forwarding : x = y

\* Nothing under way is newer than what was computed, by the tree's own numbers.
Counted ==
  /\ \A s \in Sink, t \in Task : computed[s][t] <= generation
  /\ \A x \in InFlight : x.gen <= computed[x.sink][x.task]

\* What was computed last is shown or under way.
Owed ==
  ~Faulty => \A s \in Served, t \in Task \ Device :
    shown[s][t] = computed[s][t] \/ Newest(s, t) \in InFlight

DueInv == Carriers /\ Counted /\ Owed

\* What a step of the daemon may not lose: values that somebody serves, of a task
\* that was launched after the wiring.
Awaited(x) == x.task \notin Device /\ x.sink \in Served

-----------------------------------------------------------------------------
LEMMA InFlightSomewhere == \A x : x \in InFlight <=> Somewhere(x)
BY InFlightParts DEF Somewhere

LEMMA InFlightSomewhereNext == (\A x : x \in InFlight <=> Somewhere(x))'
BY InFlightSomewhere, PTL

\* What was sent stands in the mailbox with what stood there before.
LEMMA SentRange ==
  ASSUME NEW M, NEW box \in Seq(M), NEW m \in M
  PROVE  \A x : x \in Range(Append(box, m)) <=> x \in Range(box) \/ x = m
BY RangeSent

\* What stood in a mailbox was taken, or it stands there still.
LEMMA TakenRange ==
  ASSUME NEW M, NEW box \in Seq(M), box # <<>>
  PROVE  /\ Head(box) \in M /\ Head(box) \in Range(box)
         /\ \A x \in Range(box) : x = Head(box) \/ x \in Range(Tail(box))
         /\ Range(Tail(box)) \subseteq Range(box)
<1>1. Head(box) \in M
  OBVIOUS
<1> QED BY <1>1, RangeTaken

\* The types of the places, in one fact for the steps below.
LEMMA PlaceTypes ==
  ASSUME TypeOK
  PROVE  /\ reply \in [Task -> Batch] /\ applying \in Batch /\ hueWork \in Batch
         /\ updateBox \in Seq(UpdateMessage) /\ hueBox \in Seq(Batch)
         /\ redstoneBox \in Seq(Item) /\ forwarding \subseteq Item
         /\ deviceBox \in [Device -> Seq(DeviceMessage)]
         /\ \A u \in UpdateMessage : u.batch \in Batch
BY DEF TypeOK, UpdateMessage

LEMMA NothingOf == \A b : b.sinks = {} => ItemsOf(b) = {}
BY DEF ItemsOf

-----------------------------------------------------------------------------
\* What main sends gives no value, and loses none.
LEMMA MainKeeps ==
  ASSUME TypeOK, NEW x, Somewhere(x), MainSetRedstone \/ MainSetHue
  PROVE  Somewhere(x)'
<1>1. PICK u \in UpdateMessage : updateBox' = Append(updateBox, u)
  BY BatchFacts DEF MainSetRedstone, MainSetHue
<1>2. Range(updateBox) \subseteq Range(updateBox')
  BY <1>1, PlaceTypes, SentRange
<1>3. UNCHANGED <<reply, applying, hueBox, hueWork, redstoneBox, forwarding, deviceBox>>
  BY DEF MainSetRedstone, MainSetHue, taskVars, hueVars, redstoneVars
<1> QED BY <1>2, <1>3 DEF Somewhere

\* A task hands its reply to the update server, whole.
LEMMA SendKeepsValues ==
  ASSUME TypeOK, NEW x, Somewhere(x), NEW t \in Task, SendUpdates(t)
  PROVE  Somewhere(x)'
<1>1. /\ updateBox' = Append(updateBox, Apply(reply[t]))
      /\ \A u \in Task : u # t => reply'[u] = reply[u]
      /\ UNCHANGED <<applying, hueBox, hueWork, redstoneBox, forwarding, deviceBox>>
  BY DEF SendUpdates, hueVars, redstoneVars, TypeOK
<1>2. Apply(reply[t]) \in UpdateMessage /\ Apply(reply[t]).batch = reply[t]
  BY PlaceTypes, BatchFacts DEF Apply
<1>3. /\ Range(updateBox) \subseteq Range(updateBox')
      /\ Apply(reply[t]) \in Range(updateBox')
  BY <1>1, <1>2, PlaceTypes, SentRange
<1>4. CASE x \in ItemsOf(reply[t])
  <2>1. x \in ItemsOf(Apply(reply[t]).batch)
    BY <1>2, <1>4
  <2> QED BY <1>3, <2>1 DEF Somewhere
<1>5. CASE x \notin ItemsOf(reply[t])
  <2>1. ASSUME NEW u \in Task, x \in ItemsOf(reply[u]) PROVE x \in ItemsOf(reply'[u])
    BY <1>1, <1>5, <2>1
  <2> QED BY <1>1, <1>3, <2>1 DEF Somewhere
<1> QED BY <1>4, <1>5

\* The tree fills the hands of a task that waited empty-handed.
LEMMA TreeKeeps ==
  ASSUME TypeOK, AsksInv, OnPath, NEW x, Somewhere(x), TreeHandleEvent
  PROVE  Somewhere(x)'
<1> DEFINE t == Head(treeBox)
<1>1. t \in Task /\ stage[t] = "waiting"
  BY TreeStep
<1>2. ItemsOf(reply[t]) = {}
  BY <1>1, NothingOf DEF OnPath
<1>3. \A u \in Task : u # t => reply'[u] = reply[u]
  BY PlaceTypes DEF TreeHandleEvent
<1>4. UNCHANGED <<updateBox, applying, hueBox, hueWork, redstoneBox, forwarding, deviceBox>>
  BY DEF TreeHandleEvent, updateVars, hueVars, redstoneVars
<1> HIDE DEF t
<1>5. ASSUME NEW u \in Task, x \in ItemsOf(reply[u]) PROVE x \in ItemsOf(reply'[u])
  BY <1>2, <1>3, <1>5
<1> QED BY <1>4, <1>5 DEF Somewhere

\* The update server drops nothing that is awaited: when it comes to such an update
\* it knows where values go.
LEMMA UpdateTakeKeeps ==
  ASSUME TypeOK, WiredBeforeUse, Carriers, NEW x, Somewhere(x), Awaited(x),
         UpdateTakeSetHue \/ UpdateTakeSetRedstone \/ UpdateTakeApply
  PROVE  Somewhere(x)'
<1> DEFINE u == Head(updateBox)
           b == u.batch
<1>1. /\ updateBox # <<>> /\ updateBox' = Tail(updateBox) /\ applying.sinks = {}
      /\ UNCHANGED <<reply, hueBox, hueWork, redstoneBox, forwarding, deviceBox>>
  BY DEF UpdateTakeSetHue, UpdateTakeSetRedstone, UpdateTakeApply, taskVars, hueVars,
     redstoneVars
<1>2. /\ u \in UpdateMessage /\ b \in Batch
      /\ \A v \in Range(updateBox) : v = u \/ v \in Range(updateBox')
  BY <1>1, PlaceTypes, TakenRange
<1>3. ItemsOf(applying) = {}
  BY <1>1, NothingOf
<1>4. CASE x \notin ItemsOf(b)
  <2>1. ASSUME NEW v \in Range(updateBox), x \in ItemsOf(v.batch)
        PROVE  v \in Range(updateBox')
    BY <1>2, <1>4, <2>1
  <2> QED BY <1>1, <1>3, <2>1 DEF Somewhere
<1>5. CASE x \in ItemsOf(b)
  <2>1. x \in Feed!Item /\ Has(b, x)
    BY <1>2, <1>5, HasItem
  <2>2. u.kind = "apply"
    <3>1. u = updateBox[1] /\ 1 \in 1..Len(updateBox)
      BY <1>1, PlaceTypes
    <3> QED BY <2>1, <3>1 DEF Carriers, Has
  <2>3. hueSet /\ redstoneSet
    BY <1>1, <2>1, <2>2 DEF WiredBeforeUse, Has, Awaited, Feed!Item
  <2>4. Wired(b.sinks) = b.sinks
    BY <1>2, <2>3 DEF Wired, Batch, Sink
  <2>5. applying' = [b EXCEPT !.sinks = Wired(b.sinks)]
    BY <2>2 DEF UpdateTakeSetHue, UpdateTakeSetRedstone, UpdateTakeApply
  <2>6. applying' = b
    BY <1>2, <2>4, <2>5 DEF Batch
  <2> QED BY <1>5, <2>6 DEF Somewhere
<1> QED BY <1>4, <1>5

\* The values for lights go to the hue server, the others stay.
LEMMA UpdateToHueKeeps ==
  ASSUME TypeOK, NEW x, Somewhere(x), UpdateToHue
  PROVE  Somewhere(x)'
<1> DEFINE lights == applying.sinks \cap Light
           b == [applying EXCEPT !.sinks = lights]
<1>1. /\ hueBox' = Append(hueBox, b) /\ applying' = Minus(applying, lights)
      /\ UNCHANGED <<reply, updateBox, hueWork, redstoneBox, forwarding, deviceBox>>
  BY DEF UpdateToHue, taskVars, redstoneVars
<1>2. b \in Batch /\ Minus(applying, lights) \in Batch
  BY PlaceTypes, BatchFacts
<1>3. Range(hueBox) \subseteq Range(hueBox') /\ b \in Range(hueBox')
  BY <1>1, <1>2, PlaceTypes, SentRange
<1>4. x \in ItemsOf(applying) => x \in ItemsOf(b) \/ x \in ItemsOf(Minus(applying, lights))
  BY PlaceTypes DEF ItemsOf, Minus, Batch
<1> HIDE DEF b, lights
<1> QED BY <1>1, <1>3, <1>4 DEF Somewhere

LEMMA UpdateToRedstoneKeeps ==
  ASSUME TypeOK, NEW x, Somewhere(x), NEW p \in Property, UpdateToRedstone(p)
  PROVE  Somewhere(x)'
<1> DEFINE y == [sink |-> p, task |-> applying.task, gen |-> applying.gen]
<1>1. /\ redstoneBox' = Append(redstoneBox, y) /\ applying' = Minus(applying, {p})
      /\ p \in applying.sinks
      /\ UNCHANGED <<reply, updateBox, hueBox, hueWork, forwarding, deviceBox>>
  BY DEF UpdateToRedstone, taskVars, hueVars
<1>2. y \in Item
  BY <1>1, PlaceTypes DEF Batch, Item
<1>3. Range(redstoneBox) \subseteq Range(redstoneBox') /\ y \in Range(redstoneBox')
  BY <1>1, <1>2, PlaceTypes, SentRange
<1>4. x \in ItemsOf(applying) => x = y \/ x \in ItemsOf(Minus(applying, {p}))
  BY PlaceTypes DEF ItemsOf, Minus, Batch
<1> HIDE DEF y
<1> QED BY <1>1, <1>3, <1>4 DEF Somewhere

LEMMA HueTakeKeeps ==
  ASSUME TypeOK, NEW x, Somewhere(x), HueTake
  PROVE  Somewhere(x)'
<1>1. /\ hueBox # <<>> /\ hueBox' = Tail(hueBox) /\ hueWork' = Head(hueBox)
      /\ hueWork.sinks = {}
      /\ UNCHANGED <<reply, updateBox, applying, redstoneBox, forwarding, deviceBox>>
  BY DEF HueTake, taskVars, updateVars, redstoneVars
<1>2. \A b \in Range(hueBox) : b = hueWork' \/ b \in Range(hueBox')
  BY <1>1, PlaceTypes, TakenRange
<1>3. ItemsOf(hueWork) = {}
  BY <1>1, NothingOf
<1> QED BY <1>1, <1>2, <1>3 DEF Somewhere

\* What the hue server is done with is shown.
LEMMA HueApplyKeeps ==
  ASSUME TypeOK, NEW x, Somewhere(x), NEW group, HueApply(group)
  PROVE  Somewhere(x)' \/ shown'[x.sink][x.task] = x.gen
<1>1. /\ hueWork' = Minus(hueWork, group) /\ Display(group, hueWork.task, hueWork.gen)
      /\ UNCHANGED <<reply, updateBox, applying, hueBox, redstoneBox, forwarding, deviceBox>>
  BY DEF HueApply, taskVars, updateVars, redstoneVars
<1>2. CASE x \in ItemsOf(hueWork)
  <2>1. x \in Feed!Item /\ Has(hueWork, x)
    BY <1>2, PlaceTypes, HasItem
  <2>2. CASE x.sink \in group
    BY <1>1, <2>1, <2>2 DEF Display, Has, Feed!Item, TypeOK
  <2>3. CASE x.sink \notin group
    <3>1. x \in ItemsOf(hueWork')
      BY <1>1, <2>1, <2>3, PlaceTypes DEF Minus, Has, ItemsOf, Batch, Feed!Item
    <3> QED BY <3>1 DEF Somewhere
  <2> QED BY <2>2, <2>3
<1>3. CASE x \notin ItemsOf(hueWork)
  BY <1>1, <1>3 DEF Somewhere
<1> QED BY <1>2, <1>3

\* The redstone server drops only properties that no device server has.
LEMMA RedstoneTakeKeeps ==
  ASSUME TypeOK, NEW x, Somewhere(x), Awaited(x), RedstoneTake
  PROVE  Somewhere(x)'
<1>1. /\ redstoneBox # <<>> /\ redstoneBox' = Tail(redstoneBox) /\ forwarding = {}
      /\ forwarding' = {y \in {Head(redstoneBox)} : DeviceOf[y.sink] # NoTask}
      /\ UNCHANGED <<reply, updateBox, applying, hueBox, hueWork, deviceBox>>
  BY DEF RedstoneTake, taskVars, updateVars, hueVars
<1>2. /\ \A y \in Range(redstoneBox) : y = Head(redstoneBox) \/ y \in Range(redstoneBox')
      /\ Head(redstoneBox) \in Item
  BY <1>1, PlaceTypes, TakenRange
<1>3. x = Head(redstoneBox) => x \in forwarding'
  BY <1>1, <1>2, SinkAssumption DEF Awaited, Served, Item
<1> QED BY <1>1, <1>2, <1>3 DEF Somewhere

LEMMA RedstoneForwardKeeps ==
  ASSUME TypeOK, Carriers, NEW x, Somewhere(x), RedstoneForward
  PROVE  Somewhere(x)'
<1>1. PICK y \in forwarding :
        /\ deviceBox' = [deviceBox EXCEPT ![DeviceOf[y.sink]] = Append(@, y)]
        /\ UNCHANGED <<reply, updateBox, applying, hueBox, hueWork, redstoneBox>>
  BY DEF RedstoneForward, taskVars, updateVars, hueVars
<1> DEFINE d == DeviceOf[y.sink]
<1>2. y \in DeviceMessage /\ d \in Device /\ deviceBox[d] \in Seq(DeviceMessage)
        /\ y # PingTimeout
  BY PlaceTypes, WiringAssumption, PingIsNoItem DEF TypeOK, Item, DeviceMessage
<1>3. /\ deviceBox'[d] = Append(deviceBox[d], y)
      /\ \A e \in Device : e # d => deviceBox'[e] = deviceBox[e]
  BY <1>1, <1>2, PlaceTypes
<1>4. \A z : z \in Range(deviceBox'[d]) <=> z \in Range(deviceBox[d]) \/ z = y
  BY <1>2, <1>3, SentRange
<1>5. x \in forwarding => x = y
  BY DEF Carriers
<1> HIDE DEF d
<1>6. \A e \in Device : x \in Range(deviceBox[e]) => x \in Range(deviceBox'[e])
  BY <1>3, <1>4
<1> QED BY <1>1, <1>2, <1>4, <1>5, <1>6 DEF Somewhere

\* Without failures a device server shows what it takes from its mailbox.
LEMMA DeviceSetKeeps ==
  ASSUME TypeOK, ~Faulty, NEW x, Somewhere(x), NEW d \in Device, DeviceSet(d)
  PROVE  Somewhere(x)' \/ shown'[x.sink][x.task] = x.gen
<1> DEFINE y == Head(deviceBox[d])
<1>1. /\ deviceBox[d] # <<>> /\ deviceBox' = [deviceBox EXCEPT ![d] = Tail(@)]
      /\ Display({y.sink}, y.task, y.gen)
      /\ UNCHANGED <<reply, updateBox, applying, hueBox, hueWork, redstoneBox, forwarding>>
  BY DEF DeviceSet, taskVars, updateVars, hueVars
<1>2. deviceBox[d] \in Seq(DeviceMessage)
  BY PlaceTypes
<1>3. y \in Item /\ \A z \in Range(deviceBox[d]) : z = y \/ z \in Range(Tail(deviceBox[d]))
  BY <1>1, <1>2, TakenRange DEF DeviceSet, DeviceMessage
<1>4. /\ deviceBox'[d] = Tail(deviceBox[d])
      /\ \A e \in Device : e # d => deviceBox'[e] = deviceBox[e]
  BY <1>1, PlaceTypes
<1>5. shown'[y.sink][y.task] = y.gen
  BY <1>1, <1>3 DEF Display, Item, Sink, TypeOK
<1> HIDE DEF y
<1>6. x = y \/ \A e \in Device : x \in Range(deviceBox[e]) => x \in Range(deviceBox'[e])
  BY <1>3, <1>4
<1> QED BY <1>1, <1>5, <1>6 DEF Somewhere

\* Pings come and go without the values around them.
LEMMA DevicePingKeeps ==
  ASSUME TypeOK, NEW x, Somewhere(x), NEW d \in Device, DevicePing(d)
  PROVE  Somewhere(x)'
<1>1. /\ deviceBox[d] # <<>> /\ deviceBox' = [deviceBox EXCEPT ![d] = Tail(@)]
      /\ Head(deviceBox[d]) = PingTimeout
      /\ UNCHANGED <<reply, updateBox, applying, hueBox, hueWork, redstoneBox, forwarding>>
  BY DEF DevicePing, taskVars, updateVars, hueVars
<1>2. deviceBox[d] \in Seq(DeviceMessage)
  BY PlaceTypes
<1>3. \A z \in Range(deviceBox[d]) : z = PingTimeout \/ z \in Range(Tail(deviceBox[d]))
  BY <1>1, <1>2, TakenRange
<1>4. /\ deviceBox'[d] = Tail(deviceBox[d])
      /\ \A e \in Device : e # d => deviceBox'[e] = deviceBox[e]
  BY <1>1, PlaceTypes
<1>5. x # PingTimeout
        => \A e \in Device : x \in Range(deviceBox[e]) => x \in Range(deviceBox'[e])
  BY <1>3, <1>4
<1> QED BY <1>1, <1>5 DEF Somewhere

LEMMA RedstonePingKeeps ==
  ASSUME TypeOK, NEW x, Somewhere(x), RedstonePing \/ RedstonePingNext
  PROVE  Somewhere(x)'
<1>1. /\ UNCHANGED <<reply, updateBox, applying, hueBox, hueWork, redstoneBox, forwarding>>
      /\ \A d \in Device : deviceBox'[d] \in {deviceBox[d], Append(deviceBox[d], PingTimeout)}
  BY DEF RedstonePing, RedstonePingNext, taskVars, updateVars, hueVars, TypeOK
<1>2. ASSUME NEW d \in Device PROVE Range(deviceBox[d]) \subseteq Range(deviceBox'[d])
  <2>1. deviceBox[d] \in Seq(DeviceMessage) /\ PingTimeout \in DeviceMessage
    BY PlaceTypes DEF DeviceMessage
  <2>2. Range(deviceBox[d]) \subseteq Range(Append(deviceBox[d], PingTimeout))
    BY <2>1, SentRange
  <2> QED BY <1>1, <2>2
<1> QED BY <1>1, <1>2 DEF Somewhere

-----------------------------------------------------------------------------
\* Only the tree computes.
LEMMA TreeOrNot ==
  ASSUME [Next]_vars
  PROVE  TreeHandleEvent \/ UNCHANGED <<generation, computed>>
BY RedstoneSideKeeps DEF Next, vars, treeVars, MainSetRedstone, MainSetHue, RaiseEvent, AskTree, SendUpdates,
   UpdateStep, UpdateTakeSetHue, UpdateTakeSetRedstone, UpdateTakeApply, UpdateToHue,
   UpdateToRedstone, HueTake, HueStep, HueApply, HueFail, RedstoneSide, Idle

\* Without failures no step loses a value that is awaited.
LEMMA StepKeeps ==
  ASSUME TypeOK, AsksInv, OnPath, WiredBeforeUse, Carriers, ~Faulty, [Next]_vars,
         NEW x \in InFlight, Awaited(x)
  PROVE  x \in InFlight' \/ shown'[x.sink][x.task] = x.gen
<1>1. Somewhere(x) /\ (Somewhere(x)' => x \in InFlight')
  BY InFlightSomewhere, InFlightSomewhereNext
<1>2. CASE MainSetRedstone \/ MainSetHue
  BY <1>1, <1>2, MainKeeps
<1>3. ASSUME NEW t \in Task, AskTree(t) \/ \E src \in Source : RaiseEvent(t, src)
      PROVE  Somewhere(x)'
  <2>1. UNCHANGED <<reply, updateBox, applying, hueBox, hueWork, redstoneBox, forwarding,
                    deviceBox>>
    BY <1>3 DEF AskTree, RaiseEvent, updateVars, hueVars, redstoneVars
  <2> QED BY <1>1, <2>1 DEF Somewhere
<1>4. ASSUME NEW t \in Task, SendUpdates(t) PROVE Somewhere(x)'
  BY <1>1, <1>4, SendKeepsValues
<1>5. CASE TreeHandleEvent
  BY <1>1, <1>5, TreeKeeps
<1>6. CASE UpdateTakeSetHue \/ UpdateTakeSetRedstone \/ UpdateTakeApply
  BY <1>1, <1>6, UpdateTakeKeeps
<1>7. CASE UpdateToHue
  BY <1>1, <1>7, UpdateToHueKeeps
<1>8. ASSUME NEW p \in Property, UpdateToRedstone(p) PROVE Somewhere(x)'
  BY <1>1, <1>8, UpdateToRedstoneKeeps
<1>9. CASE HueTake
  BY <1>1, <1>9, HueTakeKeeps
<1>10. ASSUME NEW group, HueApply(group) \/ HueFail(group)
       PROVE  Somewhere(x)' \/ shown'[x.sink][x.task] = x.gen
  <2>1. HueApply(group)
    BY <1>10 DEF HueFail
  <2> QED BY <1>1, <2>1, HueApplyKeeps
<1>11. CASE RedstoneTake
  BY <1>1, <1>11, RedstoneTakeKeeps
<1>12. CASE RedstoneForward
  BY <1>1, <1>12, RedstoneForwardKeeps
<1>13. ASSUME NEW d \in Device, DeviceSet(d)
       PROVE  Somewhere(x)' \/ shown'[x.sink][x.task] = x.gen
  BY <1>1, <1>13, DeviceSetKeeps
<1>14. ASSUME NEW d \in Device, DevicePing(d) PROVE Somewhere(x)'
  BY <1>1, <1>14, DevicePingKeeps
<1>15. CASE RedstonePing \/ RedstonePingNext
  BY <1>1, <1>15, RedstonePingKeeps
<1>16. CASE UNCHANGED vars
  BY <1>1, <1>16 DEF Somewhere, vars, taskVars, updateVars, hueVars, redstoneVars
<1> QED BY <1>1, <1>2, <1>3, <1>4, <1>5, <1>6, <1>7, <1>8, <1>9, <1>10, <1>11, <1>12,
           <1>13, <1>14, <1>15, <1>16
        DEF Next, UpdateStep, HueStep, RedstoneStep, DeviceStep, Idle

\* What a sink shows anew was under way to it.
LEMMA ShownWasInFlight ==
  ASSUME TypeOK, [Feed!Next]_(Feed!vars), NEW s \in Sink, NEW t \in Task
  PROVE  \/ shown'[s][t] = shown[s][t]
         \/ [sink |-> s, task |-> t, gen |-> shown'[s][t]] \in InFlight
<1>1. ASSUME NEW x \in InFlight, NEW S \in SUBSET Sink, Feed!Show(x.task, x.gen, S)
      PROVE  \/ shown'[s][t] = shown[s][t]
             \/ [sink |-> s, task |-> t, gen |-> shown'[s][t]] \in InFlight
  <2>1. CASE s \in S /\ t = x.task
    <3>1. shown'[s][t] = x.gen
      BY <1>1, <2>1 DEF Feed!Show, TypeOK
    <3>2. [sink |-> s, task |-> t, gen |-> x.gen] \in Feed!ItemsOf(x.task, x.gen, S)
      BY <2>1 DEF Feed!ItemsOf
    <3> QED BY <1>1, <3>1, <3>2 DEF Feed!Show
  <2>2. CASE ~(s \in S /\ t = x.task)
    BY <1>1, <2>2 DEF Feed!Show, TypeOK
  <2> QED BY <2>1, <2>2
<1>2. ASSUME UNCHANGED shown PROVE shown'[s][t] = shown[s][t]
  BY <1>2
<1> QED BY <1>1, <1>2 DEF Feed!Next, Feed!Compute, Feed!Lose, Feed!vars

\* Where nothing is computed nothing comes under way.
LEMMA NothingNew ==
  ASSUME TypeOK, [Feed!Next]_(Feed!vars), UNCHANGED generation
  PROVE  InFlight' \subseteq InFlight
<1>1. generation + 1 # generation
  BY DEF TypeOK
<1> QED BY <1>1 DEF Feed!Next, Feed!Compute, Feed!Show, Feed!Lose, Feed!vars

\* What the tree computes is under way at once, under the newest number.
LEMMA TreeComputes ==
  ASSUME TypeOK, AsksInv, TreeHandleEvent
  PROVE  \E t \in Task, S \in SUBSET Sink :
           /\ generation' = generation + 1
           /\ computed' = [s \in Sink |-> IF s \in S
                             THEN [computed[s] EXCEPT ![t] = generation + 1] ELSE computed[s]]
           /\ \A x \in InFlight' :
                x \in InFlight
                  \/ (x.sink \in S /\ x.task = t /\ x.gen = generation + 1)
           /\ \A s \in S :
                [sink |-> s, task |-> t, gen |-> generation + 1] \in InFlight'
<1> DEFINE t == Head(treeBox)
           gen == generation + 1
<1>1. PICK S \in SUBSET Sink :
        /\ reply' = [reply EXCEPT ![t] = [task |-> t, gen |-> gen, sinks |-> S]]
        /\ computed' = [s \in Sink |-> IF s \in S
                          THEN [computed[s] EXCEPT ![t] = gen] ELSE computed[s]]
  BY TreeStep
<1>2. t \in Task /\ generation' = gen
  BY TreeStep DEF TreeHandleEvent
<1>3. UNCHANGED <<updateBox, applying, hueBox, hueWork, redstoneBox, forwarding, deviceBox>>
  BY DEF TreeHandleEvent, updateVars, hueVars, redstoneVars
<1> DEFINE b == [task |-> t, gen |-> gen, sinks |-> S]
<1> HIDE DEF t, gen
<1>4. /\ reply'[t] = b
      /\ \A u \in Task : u # t => reply'[u] = reply[u]
  BY <1>1, <1>2, PlaceTypes
<1>5. /\ \A x \in ItemsOf(b) : x.sink \in S /\ x.task = t /\ x.gen = gen
      /\ \A s \in S : [sink |-> s, task |-> t, gen |-> gen] \in ItemsOf(b)
  BY DEF ItemsOf
<1> HIDE DEF b
<1>6. ASSUME NEW x, Somewhere(x)'
      PROVE  Somewhere(x) \/ (x.sink \in S /\ x.task = t /\ x.gen = gen)
  BY <1>3, <1>4, <1>5, <1>6 DEF Somewhere
<1>7. ASSUME NEW s \in S
      PROVE  [sink |-> s, task |-> t, gen |-> gen] \in InFlight'
  <2>1. PICK y : y = [sink |-> s, task |-> t, gen |-> gen]
    OBVIOUS
  <2>2. y \in ItemsOf(reply'[t])
    BY <1>4, <1>5, <2>1
  <2>3. Somewhere(y)'
    BY <1>2, <2>2 DEF Somewhere
  <2>4. y \in InFlight'
    BY <2>3, InFlightSomewhereNext
  <2> QED BY <2>1, <2>4
<1>8. \A x \in InFlight' : x \in InFlight \/ (x.sink \in S /\ x.task = t /\ x.gen = gen)
  BY <1>6, InFlightSomewhere, InFlightSomewhereNext
<1> QED BY <1>1, <1>2, <1>7, <1>8 DEF gen

LEMMA StepCounted ==
  ASSUME TypeOK, AsksInv, InFlight \subseteq Feed!Item, Counted, [Next]_vars,
         [Feed!Next]_(Feed!vars)
  PROVE  Counted'
<1>1. CASE UNCHANGED <<generation, computed>>
  <2>1. InFlight' \subseteq InFlight
    BY <1>1, NothingNew
  <2> QED BY <1>1, <2>1 DEF Counted
<1>2. CASE TreeHandleEvent
  <2>1. PICK t \in Task, S \in SUBSET Sink :
          /\ generation' = generation + 1
          /\ computed' = [s \in Sink |-> IF s \in S
                            THEN [computed[s] EXCEPT ![t] = generation + 1] ELSE computed[s]]
          /\ \A x \in InFlight' :
               x \in InFlight
                 \/ (x.sink \in S /\ x.task = t /\ x.gen = generation + 1)
    BY <1>2, TreeComputes
  <2>2. /\ generation \in Nat
        /\ computed \in [Sink -> [Task -> Nat]]
    BY DEF TypeOK
  <2>3. ASSUME NEW s \in Sink, NEW u \in Task
        PROVE  /\ computed'[s][u] = IF s \in S /\ u = t THEN generation + 1 ELSE computed[s][u]
               /\ computed[s][u] \in Nat
               /\ computed[s][u] <= computed'[s][u] /\ computed'[s][u] <= generation + 1
    <3>1. computed'[s][u] = IF s \in S /\ u = t THEN generation + 1 ELSE computed[s][u]
      BY <2>1, <2>2
    <3>2. computed[s][u] \in Nat /\ computed[s][u] <= generation
      BY <2>2 DEF Counted
    <3> QED BY <2>2, <3>1, <3>2
  <2>4. ASSUME NEW x \in InFlight' PROVE x.gen <= computed'[x.sink][x.task]
    <3>1. CASE x \in InFlight
      <4>1. x.sink \in Sink /\ x.task \in Task /\ x.gen \in Nat
        BY <3>1 DEF Feed!Item
      <4>2. x.gen <= computed[x.sink][x.task]
        BY <3>1 DEF Counted
      <4>3. computed[x.sink][x.task] \in Nat /\ computed'[x.sink][x.task] \in Nat
            /\ computed[x.sink][x.task] <= computed'[x.sink][x.task]
        BY <2>2, <2>3, <4>1
      <4> QED BY <4>1, <4>2, <4>3
    <3>2. CASE x.sink \in S /\ x.task = t /\ x.gen = generation + 1
      BY <2>2, <2>3, <3>2
    <3> QED BY <2>1, <3>1, <3>2
  <2> QED BY <2>1, <2>3, <2>4 DEF Counted
<1> QED BY <1>1, <1>2, TreeOrNot

LEMMA StepCarriers ==
  ASSUME TypeOK, Carriers, [Next]_vars
  PROVE  Carriers'
<1> DEFINE Updates == \A i \in 1..Len(updateBox) :
                        updateBox[i].kind # "apply" => updateBox[i].batch.sinks = {}
           Single == \A x, y \in forwarding : x = y
<1>1. ASSUME NEW u \in UpdateMessage, updateBox' = Append(updateBox, u),
             u.kind # "apply" => u.batch.sinks = {}
      PROVE  Updates'
  <2>1. /\ Len(updateBox) \in Nat /\ Len(updateBox') = Len(updateBox) + 1
        /\ \A i \in 1..Len(updateBox) : updateBox'[i] = updateBox[i]
        /\ updateBox'[Len(updateBox) + 1] = u
    BY <1>1, PlaceTypes
  <2> QED BY <1>1, <2>1 DEF Carriers
<1>2. ASSUME updateBox # <<>>, updateBox' = Tail(updateBox) PROVE Updates'
  <2>1. /\ Len(updateBox) \in Nat \ {0} /\ Len(updateBox') = Len(updateBox) - 1
        /\ \A i \in 1..(Len(updateBox) - 1) : updateBox'[i] = updateBox[i + 1]
    BY <1>2, PlaceTypes
  <2> QED BY <2>1 DEF Carriers
<1>3. ASSUME UNCHANGED updateBox PROVE Updates'
  BY <1>3 DEF Carriers
<1>4. ASSUME UNCHANGED forwarding \/ forwarding' = {} PROVE Single'
  BY <1>4 DEF Carriers
<1>5. CASE MainSetRedstone \/ MainSetHue
  <2>1. PICK u \in UpdateMessage : updateBox' = Append(updateBox, u) /\ u.batch.sinks = {}
    <3>1. SetHue.batch.sinks = {} /\ SetRedstone.batch.sinks = {}
      BY DEF SetHue, SetRedstone, NoBatch
    <3> QED BY <1>5, <3>1, BatchFacts DEF MainSetRedstone, MainSetHue
  <2>2. UNCHANGED forwarding
    BY <1>5 DEF MainSetRedstone, MainSetHue, redstoneVars
  <2> QED BY <1>1, <1>4, <2>1, <2>2 DEF Carriers
<1>6. ASSUME NEW t \in Task, SendUpdates(t) PROVE Carriers'
  <2>1. Apply(reply[t]) \in UpdateMessage /\ Apply(reply[t]).kind = "apply"
    BY PlaceTypes, BatchFacts DEF Apply
  <2>2. updateBox' = Append(updateBox, Apply(reply[t])) /\ UNCHANGED forwarding
    BY <1>6 DEF SendUpdates, redstoneVars
  <2> QED BY <1>1, <1>4, <2>1, <2>2 DEF Carriers
<1>7. CASE UpdateTakeSetHue \/ UpdateTakeSetRedstone \/ UpdateTakeApply
  <2>1. updateBox # <<>> /\ updateBox' = Tail(updateBox) /\ UNCHANGED forwarding
    BY <1>7 DEF UpdateTakeSetHue, UpdateTakeSetRedstone, UpdateTakeApply, redstoneVars
  <2> QED BY <1>2, <1>4, <2>1 DEF Carriers
<1>8. CASE RedstoneTake
  <2>1. UNCHANGED updateBox /\ \A x, y \in forwarding' : x = y
    BY <1>8 DEF RedstoneTake, updateVars
  <2> QED BY <1>3, <2>1 DEF Carriers
<1>9. CASE RedstoneForward
  <2>1. UNCHANGED updateBox /\ forwarding' = {}
    BY <1>9 DEF RedstoneForward, updateVars
  <2> QED BY <1>3, <1>4, <2>1 DEF Carriers
<1>10. ASSUME UNCHANGED <<updateBox, forwarding>> PROVE Carriers'
  BY <1>3, <1>4, <1>10 DEF Carriers
<1>11. \/ MainSetRedstone \/ MainSetHue \/ (\E t \in Task : SendUpdates(t))
       \/ UpdateTakeSetHue \/ UpdateTakeSetRedstone \/ UpdateTakeApply
       \/ RedstoneTake \/ RedstoneForward \/ UNCHANGED <<updateBox, forwarding>>
  BY DEF Next, UpdateStep, HueStep, Idle, vars, updateVars, redstoneVars, RaiseEvent, AskTree,
     TreeHandleEvent, UpdateToHue, UpdateToRedstone, HueTake, HueApply, HueFail,
     RedstoneStep, RedstonePing, RedstonePingNext, DeviceStep, DeviceSet, DevicePing
<1> QED BY <1>5, <1>6, <1>7, <1>8, <1>9, <1>10, <1>11

\* What was newest is shown or under way after a step, and so is what a step makes
\* the newest.
LEMMA StepOwed ==
  ASSUME TypeOK, AsksInv, OnPath, WiredBeforeUse, NotOvertaken, DueInv, [Next]_vars,
         InFlight \subseteq Feed!Item, [Feed!Next]_(Feed!vars)
  PROVE  Owed'
<1> SUFFICES ASSUME ~Faulty, NEW s \in Served, NEW t \in Task \ Device
             PROVE  shown'[s][t] = computed'[s][t] \/ Newest(s, t)' \in InFlight'
  BY DEF Owed
<1>1. /\ s \in Sink /\ t \in Task /\ t \notin Device
      /\ computed \in [Sink -> [Task -> Nat]] /\ shown \in [Sink -> [Task -> Nat]]
  BY DEF TypeOK, Served, Sink
<1>2. Newest(s, t)' = [sink |-> s, task |-> t, gen |-> computed'[s][t]]
  BY DEF Newest
<1>3. CASE computed'[s][t] = computed[s][t]
  <2>1. CASE Newest(s, t) \in InFlight
    <3>1. PICK x : x = Newest(s, t)
      OBVIOUS
    <3>2. /\ x \in InFlight /\ Awaited(x)
          /\ x.sink = s /\ x.task = t /\ x.gen = computed[s][t]
      BY <1>1, <2>1, <3>1 DEF Newest, Awaited
    <3>3. x \in InFlight' \/ shown'[x.sink][x.task] = x.gen
      BY <3>2, StepKeeps DEF DueInv
    <3> QED BY <1>2, <1>3, <3>1, <3>2, <3>3 DEF Newest
  <2>2. CASE shown[s][t] = computed[s][t]
    <3>1. CASE shown'[s][t] = shown[s][t]
      BY <1>3, <2>2, <3>1
    <3>2. CASE [sink |-> s, task |-> t, gen |-> shown'[s][t]] \in InFlight
      <4>1. PICK x : x = [sink |-> s, task |-> t, gen |-> shown'[s][t]]
        OBVIOUS
      <4>2. x \in InFlight /\ x.sink = s /\ x.task = t
        BY <3>2, <4>1
      <4>3. x.gen \in Nat /\ x.gen <= computed[s][t] /\ shown[s][t] < x.gen
        BY <4>2 DEF Feed!Item, DueInv, Counted, NotOvertaken, Feed!NotOvertaken
      <4>4. computed[s][t] \in Nat
        BY <1>1
      <4> QED BY <2>2, <4>3, <4>4
    <3> QED BY <1>1, <3>1, <3>2, ShownWasInFlight
  <2> QED BY <2>1, <2>2 DEF DueInv, Owed
<1>4. CASE computed'[s][t] # computed[s][t]
  <2>1. TreeHandleEvent
    BY <1>4, TreeOrNot
  <2>2. PICK u \in Task, S \in SUBSET Sink :
          /\ computed' = [q \in Sink |-> IF q \in S
                            THEN [computed[q] EXCEPT ![u] = generation + 1] ELSE computed[q]]
          /\ \A q \in S : [sink |-> q, task |-> u, gen |-> generation + 1] \in InFlight'
    BY <2>1, TreeComputes
  <2>3. s \in S /\ u = t /\ computed'[s][t] = generation + 1
    BY <1>1, <1>4, <2>2
  <2> QED BY <1>2, <2>2, <2>3
<1> QED BY <1>3, <1>4

LEMMA InitDue == Init => DueInv
<1> SUFFICES ASSUME Init PROVE DueInv
  OBVIOUS
<1>1. Carriers
  BY DEF Init, Carriers
<1>2. InFlight = {}
  BY InitLine DEF Feed!Init
<1>3. \A s \in Sink, t \in Task : computed[s][t] = 0 /\ shown[s][t] = 0
  BY DEF Init
<1>4. Counted
  BY <1>2, <1>3 DEF Init, Counted
<1>5. Served \subseteq Sink
  BY DEF Served, Sink
<1> QED BY <1>1, <1>3, <1>4, <1>5 DEF DueInv, Owed

LEMMA StepDue ==
  TypeOK /\ AsksInv /\ LineInv /\ WiredBeforeUse /\ NotOvertaken /\ DueInv /\ [Next]_vars
    => DueInv'
<1> SUFFICES ASSUME TypeOK, AsksInv, LineInv, WiredBeforeUse, NotOvertaken, DueInv, [Next]_vars
             PROVE  DueInv'
  OBVIOUS
<1>1. TypeOK'
  BY StepTypeOK
<1>2. OnPath /\ [Feed!Next]_(Feed!vars)
  BY <1>1, StepLine DEF LineInv
<1>3. InFlight \subseteq Feed!Item
  BY <1>2, InFlightIsHeld DEF Held
<1>4. Carriers'
  BY StepCarriers DEF DueInv
<1>5. Counted'
  BY <1>2, <1>3, StepCounted DEF DueInv
<1>6. Owed'
  BY <1>2, <1>3, StepOwed
<1> QED BY <1>4, <1>5, <1>6 DEF DueInv

\* The invariants that what is said of the deliveries rests on.
LEMMA AlwaysDue == Spec => [](TypeOK /\ LineInv /\ DueInv)
<1>1. Init => TypeOK /\ AsksInv /\ LineInv
  BY InitTypeOK, InitAsksInv, InitLine
<1>2. TypeOK /\ AsksInv /\ LineInv /\ [Next]_vars => (TypeOK /\ AsksInv /\ LineInv)'
  BY StepTypeOK, StepAsksInv, StepLine
<1> QED BY <1>1, <1>2, InitDue, StepDue, AlwaysWiredBeforeUse, NothingOvertaken, PTL DEF Spec

\* Nothing is under way in a daemon that is quiet.
LEMMA QuietIsEmpty == TypeOK /\ OnPath /\ Quiescent => InFlight = {}
<1> SUFFICES ASSUME TypeOK, OnPath, Quiescent, NEW x \in InFlight PROVE FALSE
  OBVIOUS
<1>1. Somewhere(x)
  BY InFlightSomewhere
<1>2. ASSUME NEW t \in Task PROVE ItemsOf(reply[t]) = {}
  BY <1>2, NothingOf DEF OnPath, Quiescent
<1>3. ItemsOf(applying) = {} /\ ItemsOf(hueWork) = {} /\ forwarding = {}
  BY NothingOf DEF Quiescent
<1>4. Range(<<>>) = {}
  BY DEF Range
<1> QED BY <1>1, <1>2, <1>3, <1>4 DEF Somewhere, Quiescent

-----------------------------------------------------------------------------
\* Whatever the daemon is doing, the newest value that the tree has computed for a
\* sink, on behalf of a task that was launched after the wiring, is shown or on its
\* way: apply_updates drops nothing, no mailbox loses a message, and nothing older
\* covers what is shown.
THEOREM NothingForgotten == Spec => []Owed
BY AlwaysDue, PTL DEF DueInv

\* Once everything is quiet, without failures, each sink that somebody serves has
\* shown the newest value that each task launched after the wiring obtained for it.
THEOREM AllDelivered == Spec => []Delivered
<1>1. TypeOK /\ LineInv /\ DueInv => Delivered
  BY QuietIsEmpty DEF LineInv, DueInv, Owed, Delivered
<1> QED BY <1>1, AlwaysDue, PTL
=============================================================================
