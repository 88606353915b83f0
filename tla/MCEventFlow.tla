---------------------------- MODULE MCEventFlow -----------------------------
(***************************************************************************)
(* Small houses to model-check EventFlow on.                               *)
(*                                                                         *)
(*   porch : a Redstone button raises events, a Redstone lamp shows them,  *)
(*           the clock raises events too; a hue light and the lamp depend  *)
(*           on both, a second light on the button alone;                  *)
(*   hall  : a hue light that depends on the clock, the lamp on both, a  *)
(*           property that belongs to no device on the button alone;       *)
(*   button: a Redstone button with a ring of light that its own events    *)
(*           and those of the clock set, as in examples/eyrie.ygg;         *)
(*   mcu   : two connections of one legacy MCU raise events for one node.  *)
(*                                                                         *)
(* The last two are houses to try out, without a run of their own.         *)
(***************************************************************************)
EXTENDS EventFlow

CONSTANTS button, lamp, clock, conn1, conn2,  \* tasks
          press, time, command,               \* source nodes
          bulb, strip,                        \* hue sinks
          glow, ghost                         \* redstone sinks

PorchSourcesOf ==
  [t \in Task |-> CASE t = button -> {press} [] t = clock -> {time} [] OTHER -> {}]
PorchDeviceOf == [p \in Property |-> IF p = glow THEN lamp ELSE NoTask]
PorchPingOrder == <<button, lamp>>
PorchObservers ==
  [s \in Source |-> IF s = press THEN {bulb, strip, glow, ghost} \cap Sink
                  ELSE {bulb, glow}]

HallObservers ==
  [s \in Source |-> IF s = press THEN {glow, ghost} ELSE {bulb, glow}]

ButtonSourcesOf == [t \in Task |-> IF t = button THEN {press} ELSE {time}]
ButtonDeviceOf == [p \in Property |-> button]
ButtonPingOrder == <<button>>
ButtonObservers == [s \in Source |-> {glow}]

McuSourcesOf == [t \in Task |-> {command}]
McuDeviceOf == [p \in Property |-> NoTask]
McuPingOrder == <<>>
McuObservers == [s \in Source |-> {bulb, strip}]
=============================================================================
