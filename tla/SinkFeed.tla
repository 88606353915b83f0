------------------------------ MODULE SinkFeed ------------------------------
(***************************************************************************)
(* What OpenHouse promises about the values it shows on its sinks.         *)
(*                                                                         *)
(* Events reach the Yggdrasil tree through several tasks: one per Redstone *)
(* device, the clock, one per HTTP connection of a legacy MCU.  The tree   *)
(* numbers the events (its generation) and computes, for every sink that   *)
(* observes the event's source, the value the sink should now have.  The   *)
(* values travel to the sinks.  On the way a value may be lost, because    *)
(* every error on the path is logged and forgotten.  Values that one task  *)
(* obtained reach a sink in the order in which the tree computed them;     *)
(* nothing is promised about the values of different tasks.                *)
(***************************************************************************)
EXTENDS Integers, FiniteSets

CONSTANTS
  Task,   \* the tasks that hand events to the tree
  Sink,   \* the sinks of the tree
  NoTask  \* the owner of the value a sink has before anything is shown

VARIABLES
  generation, \* the number of events the tree has handled
  pending,    \* the items computed by the tree that are still under way
  shown,      \* for each sink and task, the newest event shown for that task
  owner       \* for each sink, the task whose value it shows now

vars == <<generation, pending, shown, owner>>

\* A value computed for a sink, named by the event that caused it.
Item == [sink : Sink, task : Task, gen : Nat \ {0}]
ItemsOf(t, g, S) == [sink : S, task : {t}, gen : {g}]

\* y was computed before x, for the same sink and on behalf of the same task.
Older(y, x) == y.sink = x.sink /\ y.task = x.task /\ y.gen < x.gen

TypeOK ==
  /\ generation \in Nat
  /\ pending \in SUBSET Item
  /\ shown \in [Sink -> [Task -> Nat]]
  /\ owner \in [Sink -> Task \cup {NoTask}]

Init ==
  /\ generation = 0
  /\ pending = {}
  /\ shown = [s \in Sink |-> [t \in Task |-> 0]]
  /\ owner = [s \in Sink |-> NoTask]

\* The tree handles an event that task t hands it; S are the sinks it computed.
Compute(t, S) ==
  /\ generation' = generation + 1
  /\ pending' = pending \cup ItemsOf(t, generation + 1, S)
  /\ UNCHANGED <<shown, owner>>

\* The values of one event reach some of their sinks, after the older values of
\* the same task.
Show(t, g, S) ==
  /\ ItemsOf(t, g, S) \subseteq pending
  /\ \A x \in ItemsOf(t, g, S), y \in pending : ~Older(y, x)
  /\ pending' = pending \ ItemsOf(t, g, S)
  /\ shown' = [s \in Sink |->
                 IF s \in S THEN [shown[s] EXCEPT ![t] = g] ELSE shown[s]]
  /\ owner' = [s \in Sink |-> IF s \in S THEN t ELSE owner[s]]
  /\ UNCHANGED generation

\* An error on the way drops some of the values.
Lose(X) ==
  /\ pending' = pending \ X
  /\ UNCHANGED <<generation, shown, owner>>

Next ==
  \/ \E t \in Task, S \in SUBSET Sink : Compute(t, S)
  \/ \E x \in pending, S \in SUBSET Sink : Show(x.task, x.gen, S)
  \/ \E X \in SUBSET pending : Lose(X)

Spec == Init /\ [][Next]_vars

-----------------------------------------------------------------------------

\* A value under way is younger than every value of its task that its sink has
\* shown: the mailboxes let no value be overtaken by a younger one of its task.
NotOvertaken == \A x \in pending : shown[x.sink][x.task] < x.gen

\* The tree numbers the events it handles, so nothing carries a number that it
\* has not given yet.
NothingFromTheFuture ==
  /\ \A x \in pending : x.gen <= generation
  /\ \A s \in Sink, t \in Task : shown[s][t] <= generation

\* A sink never shows a value of a task after a younger value of that task.
OrderedPerTask ==
  [][\A s \in Sink, t \in Task : shown[s][t] <= shown'[s][t]]_vars
=============================================================================
