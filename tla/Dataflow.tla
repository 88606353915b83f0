------------------------------ MODULE Dataflow ------------------------------
(***************************************************************************)
(* The Yggdrasil tree: from an event at a source to the values of sinks.   *)
(*                                                                         *)
(* A node of the tree takes its value from a source, which caches the last *)
(* event, or from a script, which is computed anew whenever it is needed.  *)
(* Scripts name other nodes by paths, and a component of a path may be the *)
(* value of another path.  When the tree is built, the nodes that a script *)
(* may read are collected and, for every source, the sinks that they lead  *)
(* to.  An event at a source computes those sinks and no others.           *)
(*                                                                         *)
(* A path is the sequence of its components; relative paths, "." and ".."  *)
(* are resolved by the parser (Paths).  Integers have a bounded width.      *)
(* Floats have a significand of so many bits and an exponent in a range:   *)
(* they are counted in units of the smallest one, and what an operator     *)
(* makes of them is rounded.  Zero has no sign.                            *)
(*                                                                         *)
(* Recursion is written as recursive functions, so that it can be proved   *)
(* about (DataflowProofs): over expressions, and over the depth of the     *)
(* calls, of which a stack has room for so many.                           *)
(***************************************************************************)
EXTENDS Integers, Sequences, FiniteSetsExt, TLC

CONSTANTS
  Trees,     \* the trees, functions from paths to nodes
  Heights,   \* the expressions in their scripts, each part of one higher than its parts
  Depth,     \* bound: how deep expressions are, and how deep computing may go
  IntLimit,  \* integers are from -IntLimit to IntLimit - 1: 2^63 in the code
  FloatBits,   \* bits of the significand of a float: 53 in the code
  FloatShifts, \* significands are shifted by 0 to FloatShifts bits: 2045 in the code
  One,         \* the float 1, in units of the smallest: 2^1074 in the code
  Builds,    \* whether the build checks integers for overflow
  MaxEvents, \* bound: events in a behaviour
  Nothing    \* no value yet

VARIABLES
  tree,       \* path |-> [input, script, sink, reports]
  sinksOf,    \* the sinks kept with every source
  generation, \* Tree::generation
  cache,      \* the last event of every source, or Nothing
  shown,      \* history: what every sink was last given, or Nothing
  dropped,    \* history: sinks whose last event could not be answered
  checked,    \* whether an overflow is a panic or goes round
  panicked    \* whether the tree's task has panicked or run out of stack

evalVars == <<tree, sinksOf, checked>>
vars == <<evalVars, generation, cache, shown, dropped, panicked>>

-----------------------------------------------------------------------------
Abs(n) == IF n < 0 THEN -n ELSE n

\* Values: a float is in units; a text is empty beside a number, and a number 0 beside
\* a text.
Value(type, text, num, gen) == [type |-> type, text |-> text, num |-> num, gen |-> gen]
Str(text) == Value("string", text, 0, 0)
Bool(b) == Value("boolean", IF b THEN "true" ELSE "false", 0, 0)
Whole(n) == Value("integer", "", n, 0)

\* An error, which an event survives, and a panic, which the task does not.
Failure == Value("failure", "", 0, 0)
Panic == Value("panic", "", 0, 0)
Failed(v) == v.type \in {"failure", "panic"}

Datum(v) == <<v.type, v.text, v.num>>
WithGeneration(v, gen) ==
  IF Failed(v) THEN v ELSE [v EXCEPT !.gen = Max({@, gen})]

\* A value as text; of a float that is not whole, its digits are left out.
ToStr(v) ==
  IF v.type \in {"string", "boolean"} THEN v.text
  ELSE IF v.type = "integer" THEN ToString(v.num)
  ELSE IF v.num % One = 0 THEN ToString(v.num \div One) ELSE ToString(<<v.num, One>>)

\* The floats, in units, and the number that stands for all that are too large.
Floats ==
  {sign * s * 2^k : sign \in {-1, 1}, s \in 0..(2^FloatBits - 1), k \in 0..FloatShifts}
Infinite == 2^(FloatBits + FloatShifts)

\* The floats nearest to n / d units, infinity included: one of them, or two.
Extended == Floats \cup {Infinite, -Infinite}
Nearest(n, d) == {m \in Extended : \A z \in Extended : Abs(m * d - n) <= Abs(z * d - n)}

\* Of two that are as near, the one with the even significand.
Even(near) == {m \in near : \A z \in near \ {m} : m % (2 * Abs(z - m)) = 0}
Rounding(near) == CHOOSE m \in near : m \in Even(near) \/ Even(near) = {}
Rounded(n, d) == Rounding(Nearest(n, d))

\* The float made from n / d units: infinity is a panic.
Float(n, d) ==
  LET m == Rounded(n, d) IN IF m \in Floats THEN Value("float", "", m, 0) ELSE Panic

\* What the operators are defined for; equality of strings has no negation.
Comparisons == {"greater", "less", "greater_or_equals", "less_or_equals"}
Numeric == {"add", "subtract", "multiply", "divide", "latch", "equals", "not_equals"}
             \cup Comparisons
Operators ==
  [boolean |-> {"or", "and", "latch", "equals", "not_equals"},
   string |-> {"add", "latch", "equals"},
   integer |-> Numeric \cup {"modulo"},
   float |-> Numeric]

\* What is left of an integer of the width of the code's.
Around(n) == ((n + IntLimit) % (2 * IntLimit)) - IntLimit

Fitted(chk, n) ==
  IF n \in -IntLimit..(IntLimit - 1) THEN Whole(n)
  ELSE IF chk THEN Panic ELSE Whole(Around(n))

\* Mutant of Remainder: it has the sign of the divisor.
RemainderFloor(a, b) == IF b > 0 THEN a % b ELSE 0 - ((0 - a) % (0 - b))

\* The remainder has the sign of the dividend.
Remainder(a, b) == IF a < 0 THEN 0 - (Abs(a) % Abs(b)) ELSE a % Abs(b)

\* A quotient is a float, whatever the operands are: integers are rounded to floats first.
Arithmetic(chk, op, l, r) ==
  LET a == l.num
      c == r.num
      Made(n, d) == IF l.type = "integer" THEN Fitted(chk, n) ELSE Float(n, d)
      AsFloat(n) == IF l.type = "integer" THEN Rounded(n * One, 1) ELSE n
  IN CASE op = "add" -> Made(a + c, 1)
       [] op = "subtract" -> Made(a - c, 1)
       [] op = "multiply" -> Made(a * c, One)
       [] op = "divide" -> IF c = 0 THEN Panic ELSE Float(AsFloat(a) * One, AsFloat(c))
       [] op = "modulo" -> IF c = 0 \/ (c = -1 /\ a = -IntLimit) THEN Panic
                           ELSE Whole(Remainder(a, c))
       [] op = "greater" -> Bool(a > c)
       [] op = "less" -> Bool(a < c)
       [] op = "greater_or_equals" -> Bool(a >= c)
       [] op = "less_or_equals" -> Bool(a <= c)

\* Mutant of Apply: the result is as old as its left operand.
ApplyKeepsLeft(chk, op, l, r) ==
  IF Failed(l) THEN l
  ELSE IF Failed(r) THEN r
  ELSE IF l.type # r.type THEN Failure
  ELSE IF op = "latch" THEN IF l.gen >= r.gen THEN l ELSE [r EXCEPT !.gen = l.gen]
  ELSE WithGeneration(Bool(Datum(l) = Datum(r)), Max({l.gen, r.gen}))

Apply(chk, op, l, r) ==
  LET a == l.text = "true"
      b == r.text = "true"
      result == CASE op = "latch" -> IF l.gen >= r.gen THEN l ELSE r
                  [] op = "equals" -> Bool(Datum(l) = Datum(r))
                  [] op = "not_equals" -> Bool(Datum(l) # Datum(r))
                  [] op = "or" -> Bool(a \/ b)
                  [] op = "and" -> Bool(a /\ b)
                  [] op = "add" /\ l.type = "string" -> Str(l.text \o r.text)
                  [] OTHER -> Arithmetic(chk, op, l, r)
  IN IF Failed(l) THEN l
     ELSE IF Failed(r) THEN r
     ELSE IF l.type # r.type \/ op \notin Operators[l.type] THEN Failure
     ELSE WithGeneration(result, Max({l.gen, r.gen}))

-----------------------------------------------------------------------------
\* Expressions.  A component of a path is [name |-> ..] or [lookup |-> a path].
IsLookup(c) == "lookup" \in DOMAIN c
IsConcrete(p) == \A i \in DOMAIN p : ~IsLookup(p[i])
Names(p) == [i \in DOMAIN p |-> p[i].name]
Lookups(p) == {p[i].lookup : i \in {j \in DOMAIN p : IsLookup(p[j])}}

PathExpr(p) == [op |-> "path", path |-> p]

\* What an expression is made of; of a path, the paths to look up in it.
Parts(e) ==
  CASE e.op = "value" -> {}
    [] e.op = "path" -> {PathExpr(q) : q \in Lookups(e.path)}
    [] e.op \in {"str", "negate"} -> {e.arg}
    [] e.op = "if" -> {e.else} \cup UNION {{c.cond, c.then} : c \in Range(e.cases)}
    [] OTHER -> {e.left, e.right}

Expressions == DOMAIN Heights
PathExprs == {e \in Expressions : e.op = "path"}

\* The paths in an expression.
Paths[e \in Expressions] ==
  IF e.op = "path" THEN {e.path} ELSE UNION {Paths[d] : d \in Parts(e)}

\* The concrete paths inside a path.
ConcreteInputs[e \in PathExprs] ==
  IF IsConcrete(e.path) THEN {Names(e.path)}
  ELSE UNION {ConcreteInputs[d] : d \in Parts(e)}

-----------------------------------------------------------------------------
\* Computing one level of calls deep, given what the calls below give.

\* The node at a path, with the generation of the path itself.
Node(at, gen) == [type |-> "node", at |-> at, gen |-> gen]

\* The names of the components of a path, as values, and the first i as a path.
NamesAlong(below, p) ==
  [i \in DOMAIN p |-> IF IsLookup(p[i]) THEN below.expr[PathExpr(p[i].lookup), TRUE]
                      ELSE Str(p[i].name)]
Prefix(names, i) == [j \in 1..i |-> ToStr(names[j])]

\* A path is followed up to the first component that has no name or leads nowhere.
Stops(t, names) ==
  {i \in DOMAIN names : \/ Failed(names[i]) \/ names[i].type = "float"
                        \/ Prefix(names, i) \notin DOMAIN t}

Lookup(t, below, p) ==
  LET names == NamesAlong(below, p)
      stop == names[Min(Stops(t, names))]
  IN IF Stops(t, names) = {}
     THEN Node(Prefix(names, Len(p)), Max({0} \cup {names[i].gen : i \in DOMAIN p}))
     ELSE IF Failed(stop) THEN stop ELSE Failure

ComputeNode(t, heard, below, n) ==
  LET default == Append(n, "default")
  IN CASE t[n].input = "script" -> below.expr[t[n].script, TRUE]
       [] t[n].input = "source" ->
            IF heard[n] # Nothing THEN heard[n]
            ELSE IF default \in DOMAIN t THEN below.node[default] ELSE Failure
       [] OTHER -> Failure

\* The cases of an if that end the search: an error, or a condition that holds.  It is
\* compared with a true of generation 0, generation included.
Decisive(below, e, ready) ==
  {i \in DOMAIN e.cases : LET v == below.expr[e.cases[i].cond, ready]
                          IN v.type # "boolean" \/ v = Bool(TRUE)}

\* Mutant of Branch: no block of an inner if can be computed.
BranchUnready(below, e, ready) ==
  LET decisive == Decisive(below, e, ready)
  IN IF ~ready THEN Failure
     ELSE IF decisive = {} THEN below.expr[e.else, FALSE]
     ELSE below.expr[e.cases[Min(decisive)].then, FALSE]

\* Only the else block is computed as a script, which asks whether it is ready.
Branch(below, e, ready) ==
  LET decisive == Decisive(below, e, ready)
      case == e.cases[Min(decisive)]
      v == below.expr[case.cond, ready]
  IN IF decisive = {} THEN IF ready THEN below.expr[e.else, FALSE] ELSE Failure
     ELSE IF Failed(v) THEN v
     ELSE IF v.type # "boolean" THEN Failure
     ELSE below.expr[case.then, FALSE]

\* A minus sign is dropped.  ready: whether the blocks of an if have been marked
\* ready for use, which is so for a script's own if and not for one inside another.
EvalExpr(t, chk, below, e, ready) ==
  CASE e.op = "value" -> e.value
    [] e.op = "path" ->
         LET l == Lookup(t, below, e.path)
         IN IF Failed(l) THEN l ELSE WithGeneration(below.node[l.at], l.gen)
    [] e.op = "negate" -> below.expr[e.arg, ready]
    [] e.op = "str" ->
         LET v == below.expr[e.arg, ready]
         IN IF Failed(v) THEN v ELSE Str(ToStr(v))
    [] e.op = "if" -> Branch(below, e, ready)
    [] OTHER -> Apply(chk, e.op, below.expr[e.left, ready], below.expr[e.right, ready])

\* All levels.  Below the last the stack is full, which ends the daemon.
StackFull(t) ==
  [node |-> [n \in DOMAIN t |-> Panic], expr |-> [x \in Expressions \X BOOLEAN |-> Panic]]

Level(t, chk, heard, below) ==
  [node |-> [n \in DOMAIN t |-> ComputeNode(t, heard, below, n)],
   expr |-> [x \in Expressions \X BOOLEAN |-> EvalExpr(t, chk, below, x[1], x[2])]]

Levels(t, chk, heard) ==
  LET L[k \in 0..Depth] ==
        IF k = 0 THEN StackFull(t) ELSE Level(t, chk, heard, L[k - 1])
  IN L

\* What a node and an expression compute to, given the last events heard.
Compute(t, chk, heard, n) == Levels(t, chk, heard)[Depth].node[n]
Eval(t, chk, heard, e, ready) == Levels(t, chk, heard)[Depth].expr[e, ready]

-----------------------------------------------------------------------------
\* Building: what a script may read.

\* The concrete paths that the first k components may stand for in tree t: a
\* lookup stands for every child that is there, and where there is none the next
\* component starts at the root again.
Devirtualize(t, p) ==
  LET D[k \in 0..Len(p)] ==
        LET before == IF k = 0 \/ D[k - 1] = {} THEN {<<>>} ELSE D[k - 1]
        IN IF k = 0 THEN {<<>>}
           ELSE IF ~IsLookup(p[k]) THEN {Append(q, p[k].name) : q \in before}
           ELSE {n \in DOMAIN t \ {<<>>} : SubSeq(n, 1, Len(n) - 1) \in before}
  IN D

\* Mutant of PathInputs: only the nodes that the path may stand for.
PathInputsDirect(t, p) == Devirtualize(t, p)[Len(p)] \cap DOMAIN t

PathInputs(t, p) ==
  ConcreteInputs[PathExpr(p)] \cup (Devirtualize(t, p)[Len(p)] \cap DOMAIN t)

Scripts(t) == {n \in DOMAIN t : t[n].input = "script"}
Sources(t) == {n \in DOMAIN t : t[n].input = "source"}
Sinks(t) == {n \in DOMAIN t : t[n].sink}
Inputs(t, n) == UNION {PathInputs(t, p) : p \in Paths[t[n].script]}

\* A tree is refused if a concrete path in a script does not exist, or if the
\* part of a path before a lookup may stand for a node that does not.
Sound(t) ==
  \A n \in Scripts(t) : \A p \in Paths[t[n].script] :
    /\ ConcreteInputs[PathExpr(p)] \subseteq DOMAIN t
    /\ \A k \in DOMAIN p : IsLookup(p[k]) => Devirtualize(t, p)[k - 1] \subseteq DOMAIN t

\* The nodes that edges of the flow graph lead to from S: whatever is in each set
\* that no edge leaves.
Reach(edges, S) ==
  LET ends == {x[2] : x \in edges}
      Closed(X) == \A x \in edges : x[1] \in X => x[2] \in X
  IN {n \in S \cup ends : \A X \in SUBSET ends : Closed(S \cup X) => n \in S \cup X}

Edges(t) == UNION {Inputs(t, n) \X {n} : n \in Scripts(t)}

MapInputsToOutputs(t) ==
  [s \in Sources(t) |-> Reach(Edges(t), {s}) \cap Sinks(t)]

ASSUME BoundAssumption == Depth \in Nat /\ MaxEvents \in Nat /\ IntLimit \in Nat \ {0}

\* No integer is too large for a float.  That powers of 2 are integers is said here
\* because the provers know nothing of powers.
ASSUME FloatAssumption ==
  /\ FloatBits \in Nat \ {0} /\ FloatShifts \in Nat /\ One \in Nat \ {0}
  /\ Floats \subseteq Int /\ Infinite \in Int
  /\ \A n \in -IntLimit..(IntLimit - 1) : Rounded(n * One, 1) \in Floats

\* A value that is written in a script or reported by a source has no generation yet.
Given(v) ==
  /\ v = Value(v.type, v.text, v.num, 0) /\ v.type \in DOMAIN Operators
  /\ v.type = "integer" => v.num \in -IntLimit..(IntLimit - 1)
  /\ v.type = "float" => v.num \in Floats

\* Expressions are finite, and what they are made of are expressions too.  An if is a
\* script or a block of another if.
ASSUME ExpressionAssumption ==
  \A e \in Expressions :
    /\ Heights[e] \in 0..Depth
    /\ \A d \in Parts(e) : d \in Expressions /\ Heights[d] < Heights[e]
    /\ \A d \in Parts(e) : d.op = "if" =>
         e.op = "if" /\ \A c \in Range(e.cases) : c.cond # d
    /\ e.op = "value" => Given(e.value)
    /\ e.op = "path" => e = PathExpr(e.path) /\ e.path \in Seq(Range(e.path))
    /\ e.op = "if" => e.cases \in Seq(Range(e.cases))

\* A tree has a root, scripts are expressions, and sources report values.
ASSUME TreeAssumption ==
  \A t \in Trees :
    /\ <<>> \in DOMAIN t
    /\ \A n \in Scripts(t) : t[n].script \in Expressions
    /\ \A n \in Sources(t) : \A v \in t[n].reports : Given(v)

-----------------------------------------------------------------------------
Init ==
  /\ tree \in {t \in Trees : Sound(t)}
  /\ sinksOf = MapInputsToOutputs(tree)
  /\ generation = 0
  /\ cache = [s \in Sources(tree) |-> Nothing]
  /\ shown = [s \in Sinks(tree) |-> Nothing]
  /\ dropped = {}
  /\ checked \in Builds
  /\ panicked = FALSE

\* Mutant of HandleEvent: the value is stamped with the generation before.
HandleEventStampFirst(src, v) ==
  /\ generation < MaxEvents
  /\ generation' = generation + 1
  /\ cache' = [cache EXCEPT ![src] = WithGeneration(v, generation)]
  /\ UNCHANGED <<evalVars, shown, dropped, panicked>>

\* All the sinks of the source are computed, in any order; one that cannot be leaves
\* the rest without an answer too.  The event has been counted and cached by then.
HandleEvent(src, v) ==
  /\ generation < MaxEvents /\ ~panicked
  /\ generation' = generation + 1
  /\ cache' = [cache EXCEPT ![src] = WithGeneration(v, generation + 1)]
  /\ LET value == [s \in sinksOf[src] |-> Compute(tree, checked, cache', s)]
         Ends(how) == \E s \in sinksOf[src] : value[s].type = how
     IN \/ /\ Ends("panic")
           /\ panicked' = TRUE
           /\ UNCHANGED <<shown, dropped>>
        \/ /\ Ends("failure")
           /\ dropped' = dropped \cup sinksOf[src]
           /\ UNCHANGED <<shown, panicked>>
        \/ /\ ~Ends("panic") /\ ~Ends("failure")
           /\ dropped' = dropped \ sinksOf[src]
           /\ shown' = [s \in DOMAIN shown |->
                          IF s \in sinksOf[src] THEN Datum(value[s]) ELSE shown[s]]
           /\ UNCHANGED panicked
  /\ UNCHANGED evalVars

\* An event at a node that is no source, or at no node, is only counted.
RefuseEvent ==
  /\ generation < MaxEvents /\ ~panicked
  /\ generation' = generation + 1
  /\ UNCHANGED <<evalVars, cache, shown, dropped, panicked>>

Next ==
  \/ \E src \in Sources(tree) : \E v \in tree[src].reports : HandleEvent(src, v)
  \/ RefuseEvent

Spec == Init /\ [][Next]_vars

-----------------------------------------------------------------------------
\* Cached values carry the number of their event and no two the same.
TypeOK ==
  /\ tree \in Trees
  /\ sinksOf \in [Sources(tree) -> SUBSET Sinks(tree)]
  /\ generation \in 0..MaxEvents
  /\ DOMAIN cache = Sources(tree) /\ DOMAIN shown = Sinks(tree)
  /\ \A s \in DOMAIN cache :
       cache[s] # Nothing =>
         \E v \in tree[s].reports, g \in 1..generation : cache[s] = WithGeneration(v, g)
  /\ \A s, r \in DOMAIN cache \ {n \in DOMAIN cache : cache[n] = Nothing} :
       s # r => cache[s].gen # cache[r].gen
  /\ dropped \subseteq Sinks(tree)
  /\ checked \in Builds /\ panicked \in BOOLEAN

\* Trees of which the flow graph has all edges: every lookup is concrete, and a default
\* that a source may need changes with no source.
FlatLookups ==
  \A t \in Trees : \A n \in Scripts(t) : \A p \in Paths[t[n].script] :
    \A q \in Lookups(p) : IsConcrete(q)
FixedDefaults ==
  \A t \in Trees : \A n, s \in Sources(t) :
    Append(n, "default") \in DOMAIN t => Append(n, "default") \notin Reach(Edges(t), {s})

\* A sink that has been given a value keeps the right one: every event that
\* changes what the sink computes to gives it the new value, unless the event
\* could not be answered.
ShownIsCurrent ==
  \A s \in DOMAIN shown :
    shown[s] # Nothing /\ s \notin dropped /\ ~panicked
      => shown[s] = Datum(Compute(tree, checked, cache, s))
=============================================================================
