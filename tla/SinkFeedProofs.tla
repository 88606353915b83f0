--------------------------- MODULE SinkFeedProofs ---------------------------
(***************************************************************************)
(* What SinkFeed promises, proved for any tasks, sinks and number of       *)
(* events.                                                                 *)
(***************************************************************************)
EXTENDS SinkFeed, TLAPS

IInv == TypeOK /\ NotOvertaken /\ NothingFromTheFuture

LEMMA InitIInv == Init => IInv
BY DEF Init, IInv, TypeOK, NotOvertaken, NothingFromTheFuture

\* The three kinds of steps keep the invariant.
LEMMA ComputeIInv ==
  ASSUME IInv, NEW t \in Task, NEW S \in SUBSET Sink, Compute(t, S)
  PROVE  IInv'
<1> USE DEF IInv, Compute, ItemsOf
<1>1. TypeOK'
  BY DEF TypeOK, Item
<1>2. NotOvertaken'
  BY DEF TypeOK, Item, NotOvertaken, NothingFromTheFuture
<1>3. NothingFromTheFuture'
  BY DEF TypeOK, Item, NothingFromTheFuture
<1> QED BY <1>1, <1>2, <1>3

LEMMA ShowIInv ==
  ASSUME IInv, NEW t \in Task, NEW g \in Nat \ {0}, NEW S \in SUBSET Sink,
         Show(t, g, S)
  PROVE  IInv'
<1>1. TypeOK'
  BY DEF IInv, Show, TypeOK, Item
<1>2. ASSUME NEW s \in Sink, NEW u \in Task
      PROVE  shown'[s][u] = IF s \in S /\ u = t THEN g ELSE shown[s][u]
  BY DEF IInv, Show, TypeOK
<1>3. NotOvertaken'
  <2> SUFFICES ASSUME NEW y \in pending'
               PROVE  shown'[y.sink][y.task] < y.gen
    BY DEF NotOvertaken
  <2>1. y \in pending /\ y \notin ItemsOf(t, g, S) /\ y \in Item
    BY DEF IInv, Show, TypeOK
  <2>2. CASE y.sink \in S /\ y.task = t
    <3> DEFINE x == [sink |-> y.sink, task |-> t, gen |-> g]
    <3>1. x \in ItemsOf(t, g, S)
      BY <2>2 DEF ItemsOf
    <3>2. y.gen >= g
      BY <2>1, <2>2, <3>1 DEF Show, Older, Item
    <3>3. y.gen # g
      BY <2>1, <2>2, <3>1 DEF Item
    <3> QED BY <1>2, <2>1, <2>2, <3>2, <3>3 DEF Item
  <2>3. CASE ~(y.sink \in S /\ y.task = t)
    BY <1>2, <2>1, <2>3 DEF IInv, NotOvertaken, Item
  <2> QED BY <2>2, <2>3
<1>4. S # {} => g <= generation
  <2> SUFFICES ASSUME NEW s \in S PROVE g <= generation
    OBVIOUS
  <2>1. [sink |-> s, task |-> t, gen |-> g] \in pending
    BY DEF Show, ItemsOf
  <2> QED BY <2>1 DEF IInv, NothingFromTheFuture
<1>5. NothingFromTheFuture'
  BY <1>2, <1>4 DEF IInv, NothingFromTheFuture, Show
<1> QED BY <1>1, <1>3, <1>5 DEF IInv

LEMMA LoseIInv ==
  ASSUME IInv, NEW X \in SUBSET pending, Lose(X)
  PROVE  IInv'
BY DEF IInv, Lose, TypeOK, NotOvertaken, NothingFromTheFuture

LEMMA StepIInv == IInv /\ [Next]_vars => IInv'
<1> SUFFICES ASSUME IInv, [Next]_vars PROVE IInv'
  OBVIOUS
<1>1. CASE \E t \in Task, S \in SUBSET Sink : Compute(t, S)
  BY <1>1, ComputeIInv
<1>2. ASSUME NEW x \in pending, NEW S \in SUBSET Sink, Show(x.task, x.gen, S)
      PROVE  IInv'
  BY <1>2, ShowIInv DEF IInv, TypeOK, Item
<1>3. CASE \E X \in SUBSET pending : Lose(X)
  BY <1>3, LoseIInv
<1>4. CASE UNCHANGED vars
  BY <1>4 DEF IInv, TypeOK, NotOvertaken, NothingFromTheFuture, vars
<1> QED BY <1>1, <1>2, <1>3, <1>4 DEF Next

\* The values under way and the histories of the sinks have their types.
THEOREM TypeCorrect == Spec => []TypeOK
<1>1. IInv => TypeOK
  BY DEF IInv
<1> QED BY <1>1, InitIInv, StepIInv, PTL DEF Spec

\* A value under way is newer than what its sink has shown of the same task.
THEOREM NeverOvertaken == Spec => []NotOvertaken
<1>1. IInv => NotOvertaken
  BY DEF IInv
<1> QED BY <1>1, InitIInv, StepIInv, PTL DEF Spec

\* No sink shows a value of a task after a younger value of that task: the order
\* of the tree's replies to one task is the order in which its sinks show them.
THEOREM ShownInOrder == Spec => OrderedPerTask
<1>1. IInv /\ [Next]_vars
        => [\A s \in Sink, t \in Task : shown[s][t] <= shown'[s][t]]_vars
  <2> SUFFICES ASSUME IInv, Next, NEW s \in Sink, NEW t \in Task
               PROVE  shown[s][t] <= shown'[s][t]
    OBVIOUS
  <2>1. shown[s][t] \in Nat
    BY DEF IInv, TypeOK
  <2>2. CASE UNCHANGED shown
    BY <2>1, <2>2
  <2>3. ASSUME NEW x \in pending, NEW S \in SUBSET Sink,
               Show(x.task, x.gen, S)
        PROVE  shown[s][t] <= shown'[s][t]
    <3>1. CASE s \in S /\ t = x.task
      <4> DEFINE y == [sink |-> s, task |-> t, gen |-> x.gen]
      <4>1. y \in pending
        BY <2>3, <3>1 DEF Show, ItemsOf
      <4>2. shown[s][t] < x.gen
        BY <4>1 DEF IInv, NotOvertaken
      <4>3. shown'[s][t] = x.gen
        BY <2>3, <3>1 DEF Show, IInv, TypeOK
      <4>4. x.gen \in Nat
        BY DEF IInv, TypeOK, Item
      <4> QED BY <2>1, <4>2, <4>3, <4>4
    <3>2. CASE ~(s \in S /\ t = x.task)
      BY <2>1, <2>3, <3>2 DEF Show, IInv, TypeOK
    <3> QED BY <3>1, <3>2
  <2> QED BY <2>2, <2>3 DEF Next, Compute, Lose
<1> QED BY <1>1, InitIInv, StepIInv, PTL DEF Spec, OrderedPerTask
=============================================================================
