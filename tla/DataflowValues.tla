--------------------------- MODULE DataflowValues ---------------------------
(***************************************************************************)
(* What the sinks of a tree should compute to, said without the evaluation *)
(* of Dataflow: from the events that were read, from the conditions of an  *)
(* if and what its blocks compute to, from numbers without bounds.         *)
(* References are recursive functions, as in Dataflow.                     *)
(***************************************************************************)
EXTENDS Dataflow

\* What a sink and an expression compute to now.
Computed(s) == Compute(tree, checked, cache, s)
Evaluated(e) == Eval(tree, checked, cache, e, TRUE)

\* The nodes that are visited to compute a node and an expression, conditions and the
\* lookups in paths included: one level of calls deep, given what is visited below.
VisitsOf(all, below) ==
  LET default(n) == Append(n, "default")
      end(e) == Lookup(tree, all, e.path)
  IN [node |-> [n \in DOMAIN tree |-> {n} \cup
        CASE tree[n].input = "script" -> below.expr[tree[n].script]
          [] tree[n].input = "source" /\ cache[n] = Nothing /\ default(n) \in DOMAIN tree ->
               below.node[default(n)]
          [] OTHER -> {}],
      expr |-> [e \in Expressions |-> (UNION {below.expr[d] : d \in Parts(e)}) \cup
        IF e.op = "path" /\ ~Failed(end(e)) THEN below.node[end(e).at] ELSE {}]]

Visits ==
  LET all == Levels(tree, checked, cache)[Depth]
      V[k \in 0..Depth] ==
        IF k = 0 THEN [node |-> [n \in DOMAIN tree |-> {}], expr |-> [e \in Expressions |-> {}]]
        ELSE VisitsOf(all, V[k - 1])
  IN V

\* The numbers of the events that were read on the way.
EventsOn(nodes) ==
  {cache[s].gen : s \in {n \in nodes \cap Sources(tree) : cache[n] # Nothing}}
LastEvent(e) == Max({0} \cup EventsOn(Visits[Depth].expr[e]))

\* The expressions in an expression.
Within[e \in Expressions] == {e} \cup UNION {Within[d] : d \in Parts(e)}

\* A text made by str has no generation, and an if that of the block it takes.
Dated(nodes) ==
  \A n \in nodes \cap Scripts(tree) :
    \A d \in Within[tree[n].script] : d.op \notin {"str", "if"}

\* a :: b is whichever of the two heard an event last, if both are of one type and are
\* computed, by way of any nodes, from nothing that forgets its events.
LatchLatest ==
  \A s \in Sinks(tree) \cap Scripts(tree) :
    LET e == tree[s].script
        l == Evaluated(e.left)
        r == Evaluated(e.right)
        V == Visits[Depth].expr
    IN /\ e.op = "latch" /\ Computed(s) # Panic /\ Dated({s} \cup V[e.left] \cup V[e.right])
       /\ ~Failed(l) /\ ~Failed(r) /\ l.type = r.type
       => Datum(Computed(s)) =
            Datum(IF LastEvent(e.left) >= LastEvent(e.right) THEN l ELSE r)

\* An if computes to the block of the first condition that is true.
FirstTrueBranch ==
  \A s \in Sinks(tree) :
    LET e == tree[s].script
        holds(i) == Evaluated(e.cases[i].cond).text = "true"
    IN e.op = "if" =>
         \A i \in DOMAIN e.cases :
           holds(i) /\ (\A j \in 1..(i - 1) : ~holds(j))
             => Datum(Computed(s))
                  = Datum(Evaluated(e.cases[i].then))

\* The conditions and the blocks of an if, and of the ifs that are blocks of it.
Conditions(e) == {c.cond : c \in Range(e.cases)}
Blocks(e) == {e.else} \cup {c.then : c \in Range(e.cases)}

ConditionsOf[e \in Expressions] ==
  IF e.op # "if" THEN {} ELSE Conditions(e) \cup UNION {ConditionsOf[d] : d \in Blocks(e)}
BlocksOf[e \in Expressions] ==
  IF e.op # "if" THEN {e} ELSE UNION {BlocksOf[d] : d \in Blocks(e)}

\* The block that an if takes, and the ifs inside, from there on, that take their else.
Holding(e) == {i \in DOMAIN e.cases : Evaluated(e.cases[i].cond) = Bool(TRUE)}
Taken(e) == IF Holding(e) = {} THEN e.else ELSE e.cases[Min(Holding(e))].then

ElsesTaken[e \in Expressions] ==
  IF e.op # "if" THEN {} ELSE IF Holding(e) = {} THEN {e} ELSE ElsesTaken[Taken(e)]

\* An if has a block for every case: when its conditions and its blocks can be
\* computed, so can it, but for the else of an if inside an if.
EveryCaseComputes ==
  \A s \in Sinks(tree) \cap Scripts(tree) :
    LET e == tree[s].script
    IN /\ e.op = "if" /\ Computed(s) # Panic
       /\ \A x \in BlocksOf[e] : ~Failed(Evaluated(x))
       /\ \A x \in ConditionsOf[e] : Evaluated(x).type = "boolean"
       => (Failed(Computed(s)) <=> ElsesTaken[Taken(e)] # {})

\* A number: of which type it is, and how much.
Number(v) == <<v.type, v.num>>

\* The floats that differ the least from n / d units.
Closest(n, d) == {m \in Floats : \A z \in Floats : Abs(m * d - n) <= Abs(z * d - n)}
AsFloats(x) == IF x[1] = "integer" THEN Closest(x[2] * One, 1) ELSE {x[2]}

\* What an operation on two numbers of a type should give: of integers, a number without
\* bounds, or none where it is not defined; of floats, any that is as close as a float can
\* be.  A quotient of integers is one of floats that are as close to them.
Results(op, x, y) ==
  LET a == x[2]
      b == y[2]
      Right(n, d) == IF x[1] = "integer" THEN {<<"integer", n>>} ELSE {"float"} \X Closest(n, d)
  IN CASE op = "add" -> Right(a + b, 1)
       [] op = "subtract" -> Right(a - b, 1)
       [] op = "multiply" -> Right(a * b, One)
       [] op = "divide" ->
            IF b = 0 THEN {}
            ELSE {"float"} \X UNION {Closest(p * One, q) : p \in AsFloats(x), q \in AsFloats(y)}
       [] op = "modulo" ->
            {<<"integer", m>> : m \in {i \in -Abs(b)..Abs(b) :
               /\ \E k \in -Abs(a)..Abs(a) : a = k * b + i
               /\ Abs(i) < Abs(b) /\ i * a >= 0}}

Exact[e \in Expressions] ==
  CASE e.op = "negate" -> {<<x[1], -x[2]>> : x \in Exact[e.arg]}
    [] e.op \in {"add", "subtract", "multiply", "divide", "modulo"} ->
         UNION {Results(e.op, x[1], x[2]) : x \in Exact[e.left] \X Exact[e.right]}
    [] OTHER -> {Number(Evaluated(e))}

\* Trees that have no minus sign in their scripts.
Unsigned ==
  \A t \in Trees : \A n \in Scripts(t) : \A d \in Within[t[n].script] : d.op # "negate"

\* An integer that a checked build computes is the right one, remainders of either sign and
\* what is at the ends of the range included.  A float is as close to what it should be as
\* every single operation lets it be; a quotient of integers that a float holds is rounded
\* once, and one of larger integers is that of floats as close to them.
NumbersTrue ==
  \A s \in Sinks(tree) \cap Scripts(tree) :
    checked /\ Computed(s).type \in {"integer", "float"}
      => Number(Computed(s)) \in Exact[tree[s].script]
=============================================================================
