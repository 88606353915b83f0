# OpenHouse: a verification development

OpenHouse is a home automation daemon (`src/main.rs`, `src/oh/`) around
Yggdrasil, a dataflow language (`lib/yggdrasil/`). A configuration file is read
into a tree. Some nodes are *sources*: a Redstone web thing, a clock, a legacy
micro-controller. Some are *sinks*: Hue lights and properties of Redstone things.
An event at a source makes the tree compute the sinks that depend on it, and their
values travel to the devices. This directory holds TLA+ models of that, the TLC
configurations that check them, and proofs for TLAPS. Paths below are relative to
the root of the repository.

Contents: 1 inventory, 2 modules, 3 what the runs check, 4 bounds,
5 fairness, 6 where the code does otherwise, 7 proofs, 8 what is not modelled,
9 plan.

## 1. Inventory

The daemon is a set of tokio tasks, on four threads, each the owner of its state.
They talk through bounded `mpsc` channels ("mailboxes", 16 places each) and await
every send, so a full mailbox holds up its senders. Replies of the tree server
come in `oneshot` channels.

| component | state | operations | who calls it |
|---|---|---|---|
| tree server, `tree_server.rs` | the tree | `HandleEvent`, `Compute`, `FindSources`, `FindSinks`, `PathExists`, `Finish`, one message at a time | all servers |
| update server, `update.rs` | mailboxes of the hue and redstone servers, once it is told | `SetHueMailbox`, `SetRedstoneMailbox`, `ApplyUpdates`, `Finish` | `main`, sources |
| hue server, `hue.rs` | the bridge's lights by name, groups by set of lights | start (read or delete groups), `ValuesUpdated`, `Finish` | update server |
| redstone server, `redstone.rs` | a device server for each device | `SetProperty`, ping every 15 idle seconds, `Finish` | update server |
| device server, `redstone.rs` | one connection, time of the last message | query, connect, serve, close, wait to connect again; `SetProperty`, `PingTimeout`, `Finish` | redstone server, the device |
| clock server, `clock.rs` | the last value of each clock | a tick after each second of sleep, `Finish` | time |
| legacy MCU server, `legacy_mcu.rs` | addresses of the MCUs | one event per HTTP request, a task per connection; `Finish` | HTTP clients |
| daemon, `main.rs` | - | launch and wire, ctrl-c, finish six servers, join six servers | |
| tree, `lib/yggdrasil/src/{tree,script,path,value,graph}.rs` | nodes, cached events, generation, sinks of each source | build, `handle_event`, `compute` | tree server |
| tokenizer and parsers, `lib/yggdrasil/src/{tokenizer,parser,script}.rs` | indentations, tokens, nodes that are open | tokenize, consume nodes, parse scripts, once at start | building the tree |
| colors, `color.rs` | none | which strings are colors, what the bridge is sent for them | hue server |
| JSON helpers, geometry | none | pure functions | |

How they interact: a source awaits the tree's reply, then awaits the send of the
reply to the update server; that awaits one send to the hue server and one per
property to the redstone server; that awaits the send to a device server. A
device server is at both ends: it may be a source too.

What is hard here:

* **Interleaving and order.** Several tasks ask the tree and hand over the replies
  later; between the two anything may happen. Within one task order must hold.
* **Backpressure.** Everybody waits for room in somebody's mailbox, and there is a
  circle: device server, update server, redstone server, device server.
* **Failure of a part.** An update has many parts (lights, groups, properties) and
  each may fail; most errors are logged and forgotten, a few end a whole task, and
  some values make a task panic: arithmetic in the tree, an unknown light, a negative
  number from a device. Requests whose answer never ends hold up whoever awaits them.
* **Numbers.** Integers of limited width, floats, colors that are computed from
  components and cast to narrower types.
* **Names.** Devices are known by address, things by path, properties by the name of
  their node; paths are resolved at one node, imported below another.
* **Time.** Delays are made anew at each turn of a loop, so traffic moves them;
  `last_seen` is copied; a tick may take longer than a second.
* **Connections.** Devices fall silent, close, come back; shutdown may come at
  any point of that.
* **Stale caches.** What a script reads is collected once when the tree is built;
  groups of lights are read once from a bridge that others change.
* **Layout.** Blocks of script, ifs and nodes all end by indentation, several at
  once, or with the file; three parsers count the same dedents. A minus is an operator
  or part of a number, a point part of a number or of a path.
* **The end.** `main` finishes in one order and joins in another; an error at any
  of its calls drops what is still running.

What makes each component correct:

* pipeline: what reaches a sink was computed for it, in order for each task, never
  twice; nothing is dropped when nothing fails; every event gets through;
* gateway: device servers live as long as the gateway needs them and no longer;
  silence is noticed, presence is not mistaken for it; retry and shutdown end;
* tree: a sink holds what it would compute to now; latches and ifs mean what they
  say, even when the nodes a path stands for change;
* bridge: the map of groups is true, requests reach their lights and no others,
  groups are not used up;
* clocks: all stand at one reading between ticks and catch up with the time;
* colors: what a light shows has the brightness and the color that the value says;
* parsers: a file is read as it is meant, or refused, and reading ends;
* daemon: after ctrl-c it ends, and what was accepted has been applied.

`PROJECT.json` lists the hazards at their lines, with the properties for each.

## 2. Modules

| module | models | lines up |
|---|---|---|
| `SinkFeed` | abstract promise: computed values are under way, shown in order per task, or lost | |
| `EventFlow` | all tasks and mailboxes from an event to a sink, the wiring by `main` | implements `SinkFeed` |
| `Things` | how the gateway makes devices of the nodes of a tree, and where properties and events go | used by `Redstone` |
| `Redstone` | the gateway, its device servers, their connections and clocks, its shutdown | |
| `Dataflow` | building the tree's flow graph and evaluating events | its `sinksOf` is `Observers` of `EventFlow` |
| `DataflowValues` | reference: what latches, ifs and numbers should come to | compared with `Dataflow`, proved in `DataflowProofs` |
| `Shutdown` | ctrl-c: `main`, the finish messages, draining, joins, sources that go on; a tree or hue server that panics, a bridge that hangs | same pipeline as `EventFlow`, batches without content |
| `Color` | which strings are colors, and the light states made of them | used by `HueBridge` |
| `HueBridge` | the groups of the bridge, the start and the requests of a batch | `hueWork` of `EventFlow` in detail |
| `Clock` | values of the clocks and the ticks | one source task of `EventFlow` in detail |
| `LineTokenizer` | the tokens of one line, character by character | used by `TreeParser` |
| `TreeParser` | indentations, descent over nodes, imports | uses `LineTokenizer`, `ExprParser` |
| `ExprParser` | precedence climbing, ifs by their layout | uses `Paths` |
| `Paths` | what a path in a script stands for, from the node it is in | |
| `ConfigText` | reference: how trees are written, and what plain lines mean | compared with `TreeParser` |
| `SinkFeedProofs` | theorems about `SinkFeed` | |
| `EventFlowProofs`, `EventFlowRefinement` | theorems about `EventFlow`, the second extends the first | take `NeverOvertaken` from `SinkFeedProofs` |
| `DataflowProofs`, `RedstoneProofs`, `ShutdownProofs`, `HueBridgeProofs`, `ClockProofs` | theorems about the module of that name | |
| `MC*` | small instances of the above | |

**EventFlow.** A value is named by the task and the generation of its event, which
is all the order of values depends on. `stage` is where a source task is in
`tree.handle_event(..).await; update.apply_updates(..).await`. `TreeHandleEvent` is
one `HandleEvent` message from beginning to end; `UpdateTake*`, `UpdateToHue` and
`UpdateToRedstone` are the loop body of `update.rs:25-75` cut at its awaits;
`HueTake`, `HueApply`, `HueFail` the requests of a batch; `RedstoneTake`,
`RedstoneForward`, `DeviceSet` the way of a property. The gateway's pings take room in
the same mailboxes and are awaited as properties are: `RedstonePing` begins a round after
15 s, `RedstonePingNext` sends one to the next device in `PingOrder`, sources without
sinks included, and `DevicePing` takes it. `Circle` is the state in which a device server,
the update server and the gateway wait for each other. `shown`, `computed` are history
variables, `owner` is whose value a sink shows.

**Redstone.** A step of time is the shortest delay, 5 s: 15 s is 3 steps, 45 s is 9. `age`
is the time since `last_seen`, cut off above the limit where nothing reads it further, and
`uptime` the age that a fresh copy of a device has, as each connection works on
`device.clone()` (`redstone.rs:184`). `things` is what the tree says of devices and
`devices` what `build_device` made of it; `Things` has both, and the ways of properties
and events by path. Phase `hung` is a request whose answer never ends, `panicked` a task
that a value of its device has ended (`ValuePanics`). `Enter` is every way to another
place in the nested loops of `track_device` and `track_device_main`. Phases `report` and
`tell` are its awaits of the tree and of the update server: for the values a device was
asked for (`redstone.rs:237-240`) and for those it sends in a text (`364-370`). In them it
reads neither its mailbox nor its device. The other servers are not in this module: an
event ends (`Reported`, `TextTold`), is refused (`EventRefused`), or never ends because the
bridge does not answer (`EventHangs`), and takes any time until then. `lost` and `held` are
history: the devices that fell silent or were connected again, and for the others how much
of the time since `last_seen` the gateway or the device server was kept waiting.
`linksFail` is chosen once for a behaviour: whether requests and connections fail by
themselves.

**Dataflow.** A tree is a function from paths to nodes. `Inputs`, `Devirtualize`, `Sound`
and `MapInputsToOutputs` are what the code does when it builds a tree; `Lookup`,
`ComputeNode`, `EvalExpr`, `Branch`, `Apply` are evaluation, with generations and with
failure as a value. They say what a node or an expression comes to given what the calls
below give (`Level`), and `Compute` and `Eval` are that for a stack with room for `Depth`
calls (`Levels`): recursion without RECURSIVE, which the provers cannot use. A tree may
have a circle of nodes, whose computing fills the stack. `Heights` says how high
expressions are, so that functions may be defined by recursion over them. Values are
strings, booleans, integers of a width (`IntLimit` in place of 2^63), floats with a
significand of `FloatBits` bits and a bounded exponent, counted in units of the smallest
float, and paths, with the generation they carry. What an operator makes of floats is
rounded to the nearest (`Rounded`, ties to the even significand), and so are the integers
of a quotient before they are divided (`a as f64`, `value.rs:152`). Integers that overflow
panic or wrap, as the build has it (`Builds`); a division by zero and a float that would
be infinite (`lib/yggdrasil/src/float.rs`) panic in both, and `panicked` is a tree task
that has ended so. Relative paths are resolved in `Paths`.

**Shutdown.** `mainPc` counts the calls of `main` from `signal::ctrl_c` on. A server
that is finished closes its mailbox, handles what is in it and returns (`TakesFinish`,
`Drained`); the clock and the device server return at once (`SourceFinishes`); the
gateway stops reading, finishes and joins (`RedstoneTake`, `RedstoneToDevice`,
`RedstoneEnds`) and closes its mailbox only then. When `main` returns, with or
without an error, everything stops. `fault` is what goes wrong in a behaviour, at any
time: the tree's task panics and sends to it fail, the hue server panics, or a request
to the bridge is never answered (`hung`). `owed` is history: how many batches the hue
server's mailbox accepted and the server has not applied.

**HueBridge.** `lightsOf` and `lit` are the bridge, `groupMap` the task's map from
sets of lights to groups. A batch becomes a sequence of items, a set of lights with
its value, in any order, as it comes from a `HashMap`. `MakeGroup` and `UpdateGroup`
have the outcomes of a request: done, done but never heard of, not done.
`OthersEdit` is another application of the bridge, `touched` the groups it had its
hand in. A value is a string with a form and arguments
(`Color`); `LightStates` is what the bridge is sent for it, `lit` what a light shows
after that, where a state that does not name a component leaves it. The hue of an RGB
color is kept in sixths of the circle, as the code computes it, and the cast of what
is out of range is any word (`AsWord`).

**Clock.** `Seconds` and `ConvertSeconds` are the arithmetic of the code, on readings
of the local clock (timestamp, ordinal, day of month and week, second of the day)
that the environment supplies. A tick is `Wake`, a `Tick` for each clock in any
order, with `EventHandled` for the awaits, and `Sleep`; `TimePasses` may come in
between.

**TreeParser.** A file is a sequence of lines, and a line a string. `StartLine` is the
stack of indentations, `TokenizeNext` a turn of the loop over a line, which takes one
token from it as `LineTokenizer` says. `open` is the call stack of
`consume_tree`, with the place in each call; the four `Consume*` actions are the
turns of its loops. `DoImport` grafts a tree that was built before (`InsertSubtree`).
`ExprParser` and `Paths` have the parts that take a slice of tokens or a path and have no
effect, as recursive operators. `file` carries what it means along
for the properties; that was made by `ConfigText` from a tree, which it also spells in
lines, loosely, tightly and with comments, or from indentation alone, and uses nothing
of the parsers.

The mutants, operators whose comment begins "Mutant of", are plausible mistakes in
the definition they name; each of them breaks a property and shows that the property
depends on the code.

## 3. What the runs check

| run | module | asks |
|---|---|---|
| `porch` | EventFlow | with failing requests: order per task, wiring before use, and that the pipeline is a `SinkFeed` |
| `delivery` | EventFlow | without failures: every event gets through and what was computed is shown, unless the circle closes, which it does through a button that has no sink |
| `gateway` | Redstone | two devices: shutdown in turn, the gateway fails only if connections do, nobody stays behind then but servers that hang, properties and events go where their paths say |
| `progress` | Redstone | a device that tells events, falls silent and comes back: sends end, silence is noticed and the shutdown ends unless the gateway is kept waiting for ever, retries end, no false alarm on a first connection unless its server is starved |
| `exit` | Redstone | *violated*: device servers run until they are finished |
| `device_stale` | Redstone | *violated*: no device that answers is timed out |
| `plain` | Dataflow | sinks are current, latches are right, ifs compute, integers are exact and floats as close as floats can be, in 117 trees |
| `branch` | Dataflow | *violated*: an `if` computes to the block of its first true condition |
| `shutdown` | Shutdown | ctrl-c at any moment, with a fault or none: `main` returns, or the circle below has closed, or the bridge hangs; clean means that all have ended; what was accepted is applied; redstone is served without the hue server |
| `hue` | HueBridge | the map of groups stays true, batches are shown, on their lights and no others, groups are made once, RGB colors keep brightness and saturation |
| `clock` | Clock | one reading between ticks, clocks catch up |
| `parse` | TreeParser | files are read as they are meant, character by character, sound files are accepted, reading ends |

The properties are stated in the modules, each under a comment that says it in words.
Deadlock is checked in `porch` and `delivery`, where waiting for events is the
explicit step `Idle`, and in `parse`, where `Ended` is what comes after reading. The
other runs turn it off: there a gateway, a clock or the
daemon ends, a bounded number of batches or of events is used up, or, in `shutdown`,
three full mailboxes wait for each other; where the last one is at issue,
`ShutdownEnds` says what may stop and what may not.

## 4. Bounds, and why they are enough

* *Mailboxes* have one place (the hue server's in `Shutdown` two) in place of 16, so
  that they are full in a few steps and every wait for room happens. More room adds
  no kind of behaviour, only more messages before the same wait.
* *EventFlow*: three events of three tasks; two events of one task with one of
  another in between is what order and overtaking need. Sinks: two lights and a property
  in `porch`, for batches that split; in `delivery` a light, a property with a device and
  one without. Both houses have a button that only raises events and a lamp that only
  shows them, and pings go to both. With mailboxes of one place three events close the
  circle through the button, which then has a ping in its mailbox.
* *Redstone*: one device where clocks are the question, two where the gateway's turns are.
  `SeenLimit` is three periods of pings, as in the code (3, 9 and 1 for `RetryDelay` in
  the violated runs, 2, 6 and 1 in `progress`); in `gateway`, where no property is about
  time, each is 1. `MaxSets` is 0 to 2: `RetryEnds` holds for such little traffic and not
  for an endless stream of properties. Two that are set put off a ping just to the limit of
  silence, so that in `progress` a device server is starved only by these and a wait
  together, or by a long wait. `CloseMayFail` and `AnswersStop`, requests and events
  that hang, are TRUE in `gateway` and `progress`; `Overflows`, panics on negative numbers,
  in `gateway`; `PeersVanish` in `progress`, whose lamp has two sources, so that it can hang
  between two answers. Two houses in `gateway`: each lamp once, and one that has everything
  `Addressed` makes exceptions of, a device at two places and properties that have other
  names than their nodes.
* *Dataflow*: three events, so that both sides of a latch and a lookup and its target can
  change in turn; trees with two sources, a palette, a computed node and two sinks over
  nine kinds of expression, and an `if` in an `if`. Trees with numbers: a source at both
  ends of the range and a divisor with both signs and 0, under every operator. With
  `IntLimit` 8 and `FloatBits` 2 the integers 5 and 7 are no floats and are rounded
  before they are divided; `One` is 4, so that quotients down to a quarter are floats and
  thirds are rounded; the largest float is 12, which a product of quotients exceeds.
  `Depth` is 24: no computation of these trees goes so deep, none having a circle, and
  more depth changes nothing (`DeeperIsSame`). Trees with a lookup in a lookup, a
  computed default or a minus sign are kept apart (section 6).
* *Shutdown*: three events are the fewest that close the circle (one value in the
  redstone mailbox, one in the update server's hands, one with the device server).
  There are as many when nothing goes wrong or the bridge hangs, whose mailbox has to
  fill, and two when a server panics.
* *HueBridge*: two lights, one more that the bridge does not know, room for two groups,
  two batches, one edit by others: a batch that makes a group and one that uses it, a
  duplicate on the bridge, a bridge that is full. Values are a color, color temperatures
  in and out of range, none, and no string at all; a thousand RGB colors, at the limits of
  a component and around its middle, are computed at the start. It starts with any groups
  on the bridge, and both with and without `--no-cache`.
* *TreeParser*: expressions deep enough for every pair of operators side by side and
  one in the other, on either side, spelled with all spaces there may be and with none;
  constants of every kind next to every operator; paths from one node to another,
  relative and absolute, with a path in braces and steps up; six ifs, with an if in each
  of their blocks; imports before, after, above and below nodes; every file of a line
  `a` and four lines of a name, a mark or a comment at three indentations, which has
  every way for two indentations to end at once, names that come twice, and lines that
  are not aligned; some sixty files with one mistake each. `MaxTokens` is never reached.
* *Clock*: five readings, over a year's end and the end of summer time.

## 5. Fairness

* A task that can run is run: the tokio executor polls every task that was woken.
* A send that waits for room gets it in turn: the semaphore of `tokio::sync::mpsc` is
  first come, first served. That is strong fairness of the sends (`EventFlow`,
  `Redstone`). The gateway's `select` starts its delay anew at each turn
  (`redstone.rs:540`), so that a property that waits in its mailbox is taken between two
  rounds of pings: strong fairness of `RedstoneTake`. Nothing says that pings are sent at
  all, which takes 15 s without a message. `Shutdown` makes do with weak fairness of the
  steps of all tasks together, since events are finitely many and every step brings the
  end nearer.
* In `Redstone` time passes only when nothing is due (`Due`): `select` polls what is
  ready before it sleeps, and steps take microseconds where delays take seconds. A
  request to a device is answered or refused, or the device falls silent in the middle
  of it (`RequestHangs`) and nothing is assumed any more: the code has no time limit for
  connecting and for reading a body. An event ends only if the gateway reads its mailbox
  again and again (`GatewayReads`, `Answered`), since the update server may be waiting for
  it. Liveness properties except a gateway that such a device server holds up for ever
  (`HoldsUp`). A device that is there answers pings. It is not talking all the time:
  `select` polls its messages before the mailbox (`redstone.rs:280`), and a server takes
  what it is sent between two of them.
* In `Shutdown` nobody needs to answer for a bridge that hangs, and no fault need happen.
* In `Clock` time passes and the task runs.
* `TreeParser` needs none: `StepsShrink` and the check for deadlock show that it ends.
* Nothing is assumed of the world: nobody needs to press a button or ctrl-c, a device
  need not come back, and no event need fail or succeed.

## 6. Where the code does otherwise than its text says

Runs that show it:

* **`exit`.** A device that closes its websocket ends its device server for good
  (`redstone.rs:332, 379`); the next ping finds a closed mailbox and its `?` ends the
  gateway (571). `GatewaySurvives` and `OrphansExit` say what remains true.
* **`device_stale`.** A new connection inherits the `last_seen` of the daemon's start;
  after 45 s of uptime the first ping closes a connection that works.
* **`branch`.** A condition that read an event carries its generation and is never equal
  to `Value::from_boolean(true)`; the `else` block is taken.

Shown by changing a constant of a run, each in seconds, and without a run of its own:

* **Overtaking.** `MCEventFlow_delivery.cfg` with the invariant `LatestShown` fails: two
  tasks ask the tree in one order and hand the replies to the update server in the
  other (`legacy_mcu.rs:77-82`, `clock.rs:175`, `redstone.rs:364`), and the sink keeps
  the older value. `NotOvertaken` is what remains true: one task never overtakes itself.
* **Greater than.** `MCTreeParser_parse.cfg` with `Files <- GreaterFiles`: `StepsShrink`
  fails, since `tokenize_greater_than` (`tokenizer.rs:403`) makes tokens without end.
* **Lines after an else.** The same with `Files <- TrailingFiles`: `ReadAsMeant` fails,
  since `if_from_tokens` (`script.rs:319`) never looks at what follows the last block.
* **A name given twice.** The later node replaces the earlier (`tree.rs:671`), with all
  that is below it; `PlainTree` describes it so.
* **A minus on the right.** `/a / -./b * /c` is `/a / (-(./b * /c))`, since a minus takes
  all operators that bind tighter with it; the textbook's algorithm does so too, and
  `Written` puts parentheses around it there.
* **Starvation of pings.** A device that answers every ping may seem silent: properties
  that are set put the pings off (`redstone.rs:540`), a full mailbox of one device server
  keeps the gateway from pinging the others, and a device server that waits for the tree or
  for the update server (`redstone.rs:364-370`) leaves its pings, and what its device
  answers, unread. `MCRedstone_progress.cfg` without the disjunct `Starved` in
  `FirstConnectionHolds` shows it. `Starved` says how much it takes: each property puts a
  ping off by less than a period of 15 seconds, the rest is the time spent waiting
  (`held`), and together with one period it must exceed the 45 seconds.
* **A finish that is forgotten.** The finish is taken from the mailbox before the websocket
  is closed (`redstone.rs:263`); if closing fails the device server connects again and the
  gateway awaits it for ever, and pings nobody any more. `ShutdownEnds` and
  `SilenceNoticed` except it (`Forgets`), and fail in `progress` without the exception.
* **The circle.** A device server that has an event awaits the update server, that awaits
  the gateway, and that awaits the device server, for room (`redstone.rs:370, 548, 571,
  update.rs:56`) or in `join` (`redstone.rs:562`). Any device with a source will do, since
  the gateway waits for room for its pings too. In `Shutdown` (where there are no pings)
  and in `delivery`, `~Circle` as an invariant fails. With 16 places it takes more than 32
  updates in a row, or a finish. In `EventFlow` it is the only way to stand still
  (`OnlyTheCircle`), and `EventsComplete`, `EventuallyShown`, `SendsEnd`, `SilenceNoticed`
  and both `ShutdownEnds` except it and nothing like it.
* **An unclean end.** In `Shutdown`, `outcome # "error"` as an invariant fails: the tree
  is finished first (`main.rs:82`), and a tick that comes later gets an error from the
  tree's mailbox and ends the clock; `main` returns at `clock_server.finish` or `join`
  (83, 89) without waiting for the others.
* **A lookup in a lookup, a computed default.** `MCDataflow_plain.cfg` with
  `Trees <- NestedTrees` or `DefaultTrees`: `ShownIsCurrent` fails, because
  `path.rs:156-170` collects too few inputs and `tree.rs:574` reads a default that the
  flow graph has no edge from.
* **An `if` in an `if`.** `mark_ready` (`script.rs:171`) does not reach the `else` of an
  `if` inside a block, which cannot be computed then. `EveryCaseComputes` says that it is
  the only case that fails.
* **Quotients of large integers.** Both operands are converted to `f64` (`value.rs:152`),
  which is lossy beyond 2^53, so a quotient of integers at the ends of the range may be
  another number than the exact quotient rounded once. `NumbersTrue` says what it is: the
  quotient, rounded, of the nearest floats.
* **A minus sign.** `MCDataflow_plain.cfg` with `Trees <- NegatedTrees`: `NumbersTrue`
  fails, since the sign is parsed and `compute` drops it (`script.rs:75`).
* **Points.** `MCTreeParser_parse.cfg` with `Files <- PointFiles`: `ReadAsMeant` fails.
  `-.5` is a minus and the path `./.5`, although the comment at `tokenizer.rs:48` has it
  as a float. `-(` and `1 -1` are refused, which the run checks.
* **Another port.** `MCRedstone_gateway.cfg` with `Device <- TwoPorts` and
  `Houses <- PortHouses`: `Addressed` fails. The values of a device are asked for without
  its port (`redstone.rs:101`), at port 80 of its host: it is never connected, or takes
  the values of another device for its own.
* **Two things at one address, a renamed property.** They are in the run `gateway`: the
  device has the path of the first thing (`redstone.rs:502`), so that what is set for the
  others is dropped, and its events go to nodes that are not there (`366`). A child
  `property` renames the property at the device, and events and properties that are set
  still go by the name of the node. `Addressed` says that nothing gets to a wrong device.
* **RGB colors.** The hue is computed in sixths of the circle and cast to a 16-bit word
  without being scaled (`color.rs:49`): any color whose hue is not 0 is shown with a
  wrong one, or with whatever the cast of a negative number gives. `RgbTrue` speaks of
  brightness and saturation, and of hue 0.
* **Color temperatures** are sent without a brightness (`hue.rs:317`), so that a light
  keeps that of its last color. `BatchShown` does not ask for one.
* **Imports.** `TreeBuilder` has imports only by interceptors, which tests set and the
  daemon does not: there every import is an error. A relative path in an import was
  resolved when it was parsed as a tree of its own, and does not move with the import.
* **Panics.** A panic of the tree's task (an overflow in a checked build, a division or
  modulo by zero) leaves a daemon that runs without a tree until ctrl-c. In `Shutdown`
  nothing more is computed then, and `main` returns with an error.
* **The room for groups.** In `HueBridge` a group that another application deleted stays
  in the map; requests to it do nothing, or reach other lights when the bridge gives
  the number out again. `GroupsTrue` and `OnlyAsked` except those groups.

## 7. Proofs

TLAPS checks the theorems below for every value of the constants that the assumptions
of the modules allow. These say of what kind the constants are (`TaskAssumption`,
`SinkAssumption`, `LightAssumption`, `GroupAssumption`, `BoundAssumption`,
`TimeAssumption`, `FaultAssumption`, `ClockAssumption`, `ReadingAssumption`,
`UnsetAssumption`, `ValueAssumption`, `TreeAssumption`) and little else: the gateway pings
every device (`OrderAssumption`), no integer is too large for a float (`FloatAssumption`,
which says too that the floats are integers in their units, as the provers know nothing of
powers), expressions are finite, and an `if` is a script or a block of an `if`, as the parser has it
(`ExpressionAssumption`, `script.rs:236-250`), every property has one device
or none (`WiringAssumption`), the devices are those the tree names
(`DeviceAssumption`), and a path leads to one node (`HouseAssumption`). Sizes are
open: any number of tasks, devices, lights, groups, clocks and events, mailboxes of
any capacity, delays of any length, faults allowed or not.

**The pipeline implements its promise** (`EventFlowRefinement!Refinement`, with
`ImplementsSinkFeed` of the run `porch`). Each step of `EventFlow` is one of `SinkFeed`:
it computes values, shows one, loses some, or does nothing that the promise can see.
What is hard is that a step of `SinkFeed` shows the *oldest* value of a task first,
while a value may be in any of eight places. The proof gives each value under way a
*distance* from its sink, the number of places it has before it when all mailboxes are
full (`Holds`), and shows that steps only bring values nearer (`LineInv`): of two values
of one task for one sink the nearer is the older (`InOrder`), values are numbered
by the tree (`Numbered`), and each is only where it belongs (`OnPath`). With that,
whatever `SinkFeed` promises holds of `EventFlow`: `NothingOvertaken` (`NotOvertaken`)
and `ShownInOrder`, that no sink goes back to an older value of a task. They use
`SinkFeedProofs!NeverOvertaken`, whose invariant adds to `NotOvertaken` that nothing
under way is newer than `generation`, which makes a new value the newest.

**Nothing is forgotten** (the second part of `EventFlowRefinement`). Without failures the
newest value that the tree computed for a sink on behalf of a task is shown or under way,
in every state (`NothingForgotten`), and so shown when all is quiet (`AllDelivered`, with
`Delivered` of the run `delivery`). The invariant (`DueInv`) follows the newest value
through the steps; `apply_updates` may drop what it has no subsystem for, so it needs
`AlwaysWiredBeforeUse` and speaks of tasks launched after the wiring; and it needs
`InOrder`, since a newest value that is shown must not be covered by an older one.

**The rest of the pipeline** (`EventFlowProofs`). `TypeCorrect`: the type of a reply needs
that whoever stands in the tree's mailbox is a task that waits with an event
(`AsksInv`). `AlwaysWiredBeforeUse` (`WiredBeforeUse`): the invariant (`WiringInv`)
speaks of positions in the mailbox; before every update of the clock or of an MCU
connection stand the two wiring messages, or they have been taken.

`OnlyTheCircle` is the half of `EventsComplete` that says no task waits for ever on
another: in every state somebody can take a step, or all is quiet, or a device server
stands before a full mailbox of the update server, the update server before that of the
gateway, and the gateway before that of this device server (`Circle`). `WaitsInv`
says that a source without its reply stands in the tree's mailbox and that each server's
hands hold what it takes, `LightsInv` that a batch for the bridge is not empty; `CanStep`
spells the guards out, of properties and of pings on their way to a device too.
`NoCircleWithout`: where no device raises events, or the tree has no sink below a Redstone
thing, only quiet is left, pings included. Neither is so in the houses of `porch` and
`delivery`, where the circle closes through a button that serves no property.

**The gateway** (`RedstoneProofs`).

* `TypeCorrect`: no mailbox overflows and no clock leaves its range. A step of a device
  server enters another place of its loop, begins to hang, or stays and may take a
  message (`DeviceSteps`), which all other proofs start from.
* `StopsInTurn` (`ShutdownInTurn`): during shutdown every device server is still to be
  told, is being awaited, or has exited (`TurnInv`), and a mailbox whose turn has not
  come has no finish in it.
* `FailsOnlyWithLinks` (`GatewaySurvives`): if no link fails nobody panics, and nobody
  exits whom the gateway still wants to send to (`CalmInv`, with `TurnInv`).
* `AlwaysAddressed` (`Addressed`): for any house, provided its things are at port 80
  (`AtPort80`); at another port the code asks the wrong place (section 6).
* `AnswersKeepConnection` (`FirstConnectionHolds`): the server of a device that answers
  its pings does not time out on its first connection, unless it is starved. The invariant
  (`PingInv`) says of every device that it is lost or its server is `Holding`: in its
  first connection, with no time before it but what it was held, or on its way to the
  end. There a budget, `(1 + sets) * PingPeriod + held[d]` (`Most`), is the longest silence
  there may be. While the gateway waits, age and the rest of its delay are within the
  budget, or a ping or an answer is due, and time stands still until that is done. Each
  property that is set adds a period to the budget and to the delay, and each step of time
  in which the gateway cannot send, or the server does not read, adds to the budget what it
  adds to the age. Whatever the devices, their faults and the capacity of the mailboxes;
  nothing is assumed of how long an event takes.

**The shutdown** (`ShutdownProofs`). `TypeCorrect`; `AcceptedApplied`
(`AcceptedIsApplied`): the number of batches owed is that of the batches in the
hue server's mailbox as long as it runs (`OwedInv`), and it ends well only with an empty
one; `CleanExit` (`CleanMeansEnded`): whatever `main` has joined has ended well, and a
gateway that has ended has joined the device server (`JoinInv`).

`ShutdownEnds` is liveness, but what is hard in it is not the fairness, and that is
proved in two halves. `NeverStandsStill`: after ctrl-c some task can take a step until
`main` has returned, unless the circle of full mailboxes has closed or the bridge hangs.
It follows the waiting from the tree on, which never waits: the hue server neither, so
the update server only for the gateway, so a source only if that is so, so the gateway
for nobody, and `main` last (`NobodyWaits`). The invariant (`StandInv`) says what has to
be there for whoever waits: an event in the tree's mailbox for a source without its
reply (`ReplyDue`), a finish for every server that `main` or the gateway has told
(`ToldInOrder`, `DeviceTold`), only messages that their server takes (`RightMessages`).
`StepsTowardsEnd`: every step of any task, with faults or without, leaves less to be
done (`Left`, a natural number that weighs the events to come, the stages of sources,
the messages and the calls of `main`), so that the daemon cannot go on for ever either.
What remains for `ShutdownEnds` is that a task goes on when one can, the weak fairness
of `TaskStep`; ENABLED is out of the provers' reach, so `CanStep` spells the guards of
the tasks out (on the instance of the run, TLC finds `CanStep <=> ENABLED TaskStep`
invariant).

**The bridge** (`HueBridgeProofs`). `HueInv` is five facts: types; a group in the
map that nobody else touched has the lights it is filed under (`Filed`); what was made
is filed, or its answer was lost (`Remembered`); what is left of a batch is of the batch
(`OfBatch`); a light of the batch shows its value or is still to come (`ShownOrLeft`). From it:
`GroupsAlwaysTrue` (`GroupsTrue`), `NoSecondGroup` (`MadeOnce`), `BatchAlwaysShown`
(`BatchShown`), and the action property `OnlyAskedChanges` (`OnlyAsked`). `RgbAlwaysTrue`
(`RgbTrue`) is arithmetic, for any samples of the 2^24 colors. That types hold needs
what every color comes to: its components are cut to the bridge's range
(`TypeCorrect`).

**The tree** (`DataflowProofs`), for any trees, scripts and events. `TypeCorrect`: cached
values carry the numbers of their events. `AlwaysCurrent` (`ShownIsCurrent`): a sink that
was given a value, and not left without an answer since, shows what it would compute to
now, though an event computes no other sinks than those kept with its source. That
rests on `Unaffected`: a node that the flow graph does not lead to from a source computes
to the same whatever the source says. By induction over the depth of calls, what a
script reads is never in the set of nodes that the source leads to (`ScriptClear`), so
names along paths, branches taken and operands are the same (`LookupSame`,
`BranchSame`, `ExprSame`, `LevelSame`); that a path with lookups ends at a node that was
collected for it is `Landing`, by induction over its length. The theorem has two
hypotheses about the trees, and each is needed: lookups are concrete (`FlatLookups`) and
defaults change with no source (`FixedDefaults`); section 6 has the runs that fail
without them, and `MCDataflow` assumes that the trees of `plain` meet both. Induction is
here over a set of numbers, as `WFMin` allows (`Induction`), and that recursive functions
are what their definitions say is proved with it (`Recursion`, `LevelsEquation`,
`DevirtualizeEquation`). `DeeperIsSame` is about the bound `Depth`, which stands for the
stack that the code recurses on: what a stack of so many calls has room for computes to
the same on every larger one, so that the bound decides which scripts are too deep and
nothing else.

What a sink computes to is the right value (`DataflowValues`), again for any trees and
scripts. All three proofs take the levels of calls one by one (`NowLevels`) and use that
a deeper level takes back nothing (`NowMore`), so that a property speaks of what its
operands compute to in full while the code computes them with less room. Whatever is
computed is a value, an error or a panic (`LevelsWell`), and `ApplyIs` says what an
operator makes of two. `EveryCaseAlways` (`EveryCaseComputes`): an `if` whose conditions
and blocks can be computed fails exactly where an inner `if` comes to its `else`; what is
no `if` does not see whether it is ready (`ReadyMatters`), and an `if` takes the block
that its conditions say (`BranchTakes`). `NumbersAlways` (`NumbersTrue`): the integers of
a checked build are exact, remainders of either sign included (`RemainderIs`), and floats
are as close to what they should be as each operation allows, for floats of any size
(`RoundedIs`, `FloatIs`, `ArithmeticIs`), in trees without minus signs (`Unsigned`, which
`MCDataflow` assumes of the trees of `plain`; section 6 has what happens with one).
`LatchAlways` (`LatchLatest`): the generation of a value is the number of the last event
that was read for it, on the way through scripts, lookups, nodes and defaults
(`EveryLatest`, where `NodeStep` and `ExprStep` are one call more), so a latch takes the
later side. It is said of values that are `Dated`: the text that `str` makes has no
generation, and the value of an `if` has that of its block whatever the conditions read,
so a latch may go by an older event there.

**The clocks** (`ClockProofs`). `OneReadingAlways` (`OneReading`): during a tick the clocks that
were looked at stand at the tick's reading, the others at the last one (`TickInv`).

Two places of the model were wrong, and the proofs found them where the instances had
not. A clock that counts hours and wraps every minute stays at 0, since `clock.rs:119` takes the
seconds of the minute first and divides them then; the type invariant had no value for
it (`InRange` of `Clock`). And the hue of a color is truncated once, as a sum, not term
by term (`Hue` of `Color`, `color.rs:49`).

Only model-checked:

* all liveness (`EventsComplete`, `SilenceNoticed`, `RedstoneServed` and the like; of
  `ShutdownEnds` the step from the two halves above to the whole), since TLAPS does not
  do liveness under fairness or ENABLED;
* everything about `TreeParser`, which parses by RECURSIVE operators; the provers cannot
  do induction over data;
* what the counterexamples of section 6 show.

## 8. Not modelled, and why

* Lengths in meters (`physical.rs`): which texts are dimensions is in `LineTokenizer`;
  their lengths are floating point that nothing reads.
* Templates: a template is a token that no parser takes.
* The trees of `Dataflow` are constants: the parsers are not composed with it.
* The sign of zero. The floats of the run `plain` are made by quotients, none by a
  script that has one. The hue of a color, where rounding could show, is compared with
  nothing but 0 in `Color`.
* Pings in `Shutdown`: they close the same circle as properties, which it has.
* A message to a device whose websocket takes no more: the send is awaited without a time
  limit (`redstone.rs:301`), and in `Redstone` it is sent or fails.
* JSON and HTTP, with the helpers of `json_helpers.rs`: a request succeeds, fails, hangs,
  or is done without an answer, and a message of a device is understood or not. A
  number of JSON is modelled only as far as it can panic.
* Read-only queries of the tree server: they are asked before the servers start.
* A device whose tree gives it the same property twice: it is asked for twice.
* Two paths of lights that share a name; more than one bridge (refused at start).
* The end of a websocket without a close frame: the library reports an error first.
* The scripts that make certificates: they are not part of the daemon.

## 9. Plan

1. *Compose*: `Redstone` with the messages of `EventFlow`, so that a property set on a
   lost connection is a loss of `SinkFeed`; `Clock` as a source task of `EventFlow`.
2. *Prove more*: that the steps of `EventFlow` lead to an end, the other half of
   `EventsComplete`; that a gateway that failed
   sends nothing any more; the parts of `LineTokenizer` and `Color` that are not
   recursive.
