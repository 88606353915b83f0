--------------------------- MODULE DataflowProofs ---------------------------
(***************************************************************************)
(* Theorems about Dataflow.  A sink that an event does not lead to does    *)
(* not change what it computes to, and so every sink shows what it would   *)
(* compute to now.  What it computes to does not depend on the room for    *)
(* calls and is the right value (DataflowValues): the block of an if that  *)
(* its conditions say, the exact number, the latch's later operand.        *)
(*                                                                         *)
(* The provers know no induction over a formula.  Here it is over a set of *)
(* numbers (Induction), which the well-foundedness of the naturals gives.  *)
(* That the recursive functions of Dataflow are what their definitions say *)
(* is proved with it: by the height of expressions, by the depth of calls, *)
(* by the length of a path.  What is computed is then known level by level:*)
(* a level needs no more of the one below than these lemmas say of it.     *)
(***************************************************************************)
EXTENDS DataflowValues, WellFoundedInduction, TLAPS

-----------------------------------------------------------------------------
\* A set of natural numbers has a least one.
LEMMA Least == ASSUME NEW T, T \subseteq Nat, T # {} PROVE \E m \in T : \A n \in T : m <= n
<1> DEFINE R == {x \in Nat \X Nat : x[1] < x[2]}
<1>1. IsWellFoundedOn(R, Nat)
  BY NatLessThanWellFounded, Zenon DEF OpToRel
<1>2. PICK m \in T : \A n \in T : <<n, m>> \notin R
  <2> HIDE DEF R
  <2> QED
    BY <1>1, WFMin
<1>3. \A n \in T : ~(n < m)
  BY <1>2
<1> QED
  BY <1>3

LEMMA LeastIsMin == ASSUME NEW T, T \subseteq Nat, T # {} PROVE Min(T) \in T
  BY Least, Zenon DEF Min

\* What holds of 0 and of each successor holds of all.
LEMMA Induction ==
  ASSUME NEW S, 0 \in S, \A k \in Nat : k \in S => k + 1 \in S PROVE Nat \subseteq S
<1> SUFFICES ASSUME Nat \ S # {} PROVE FALSE
  OBVIOUS
<1>1. PICK m \in Nat \ S : \A n \in Nat \ S : m <= n
  BY Least, Zenon
<1>2. m # 0 /\ m \in Nat /\ m - 1 \in Nat
  BY <1>1
<1>3. m - 1 \in S
  BY <1>1, <1>2
<1> QED
  BY <1>1, <1>2, <1>3

-----------------------------------------------------------------------------
\* A function that collects along the parts of expressions is what its definition says.
Lower(S, k) == {e \in S : Heights[e] < k}
Collect(f, base, below, e) == base[e] \cup UNION {f[d] : d \in below[e]}
Collects(f, S, base, below) == f = [e \in S |-> Collect(f, base, below, e)]

LEMMA LowerAll ==
  ASSUME NEW S \in SUBSET Expressions PROVE Lower(S, Depth + 1) = S /\ Lower(S, 0) = {}
<1> SUFFICES ASSUME NEW e \in S PROVE Heights[e] < Depth + 1 /\ ~(Heights[e] < 0)
  BY DEF Lower
<1>1. Heights[e] \in 0..Depth
  BY ExpressionAssumption
<1> QED
  BY <1>1, BoundAssumption

LEMMA Recursion ==
  ASSUME NEW S \in SUBSET Expressions, NEW base, NEW below,
         \A e \in S : \A d \in below[e] : d \in S /\ d \in Parts(e)
  PROVE \E f : Collects(f, S, base, below)
<1> DEFINE Low(k) == Lower(S, k)
           Is(f, k) == f = [e \in Low(k) |-> Collect(f, base, below, e)]
           K == {k \in Nat : \E f : Is(f, k)}
<1>1. 0 \in K
  <2>1. Low(0) = {}
    BY LowerAll
  <2>2. Is([e \in {} |-> e], 0)
    BY <2>1
  <2> QED
    BY <2>2
<1>2. ASSUME NEW k \in Nat, k \in K PROVE k + 1 \in K
  <2>1. PICK f : Is(f, k)
    BY <1>2
  <2> DEFINE g == [e \in Low(k + 1) |-> Collect(f, base, below, e)]
  <2>2. ASSUME NEW e \in Low(k + 1) PROVE Collect(f, base, below, e) = Collect(g, base, below, e)
    <3>1. \A d \in below[e] : d \in Low(k) /\ d \in Low(k + 1)
      <4> SUFFICES ASSUME NEW d \in below[e] PROVE d \in Low(k) /\ d \in Low(k + 1)
        OBVIOUS
      <4>1. d \in S /\ d \in Parts(e) /\ e \in Expressions /\ Heights[e] < k + 1
        BY DEF Lower
      <4>2. Heights[d] \in 0..Depth /\ Heights[e] \in 0..Depth /\ Heights[d] < Heights[e]
        BY <4>1, ExpressionAssumption
      <4> QED
        BY <4>1, <4>2, BoundAssumption DEF Lower
    <3>2. \A d \in below[e] : f[d] = g[d]
      <4> HIDE DEF Low
      <4> QED
        BY <2>1, <3>1, Zenon
    <3>3. {f[d] : d \in below[e]} = {g[d] : d \in below[e]}
      <4> HIDE DEF g
      <4> QED
        BY <3>2, Zenon
    <3> QED
      BY <3>3, Zenon DEF Collect
  <2>3. Is(g, k + 1)
    <3> HIDE DEF Low
    <3> QED
      BY <2>2, Zenon
  <2> HIDE DEF Is
  <2> QED
    BY <2>3
<1>3. \E f : Is(f, Depth + 1)
  <2> HIDE DEF Is
  <2> QED
    BY <1>1, <1>2, Induction, BoundAssumption
<1> QED
  BY <1>3, LowerAll DEF Collects

\* The paths of an expression are its own or those of its parts.
LEMMA PathsEquation ==
  Paths = [e \in Expressions |->
             IF e.op = "path" THEN {e.path} ELSE UNION {Paths[d] : d \in Parts(e)}]
<1> DEFINE Step(f, e) == IF e.op = "path" THEN {e.path} ELSE UNION {f[d] : d \in Parts(e)}
           base == [e \in Expressions |-> IF e.op = "path" THEN {e.path} ELSE {}]
           below == [e \in Expressions |-> IF e.op = "path" THEN {} ELSE Parts(e)]
<1>1. \A e \in Expressions : \A d \in below[e] : d \in Expressions /\ d \in Parts(e)
  BY ExpressionAssumption
<1>2. PICK f : Collects(f, Expressions, base, below)
  <2> HIDE DEF base, below
  <2>1. Expressions \in SUBSET Expressions
    OBVIOUS
  <2> QED
    BY <1>1, <2>1, Recursion, Zenon
<1>3. ASSUME NEW e \in Expressions PROVE Collect(f, base, below, e) = Step(f, e)
  <2>1. CASE e.op = "path"
    BY <2>1 DEF Collect
  <2>2. CASE e.op # "path"
    <3>1. base[e] = {} /\ below[e] = Parts(e)
      BY <2>2
    <3> HIDE DEF base, below
    <3> QED
      BY <2>2, <3>1, Zenon DEF Collect
  <2> QED
    BY <2>1, <2>2
<1>4. f = [e \in Expressions |-> Step(f, e)]
  <2> HIDE DEF base, below, Step
  <2> QED
    BY <1>2, <1>3, Zenon DEF Collects
<1> QED
  BY <1>4, Zenon DEF Paths

\* A path that is an expression has lookups that are expressions.
LEMMA LookupExpr ==
  ASSUME NEW e \in PathExprs PROVE \A d \in Parts(e) : d \in PathExprs
<1>1. e \in Expressions /\ e.op = "path"
  BY DEF PathExprs
<1>2. Parts(e) = {PathExpr(q) : q \in Lookups(e.path)}
  BY <1>1 DEF Parts
<1>3. \A q : PathExpr(q).op = "path"
  BY DEF PathExpr
<1> QED
  BY <1>1, <1>2, <1>3, ExpressionAssumption DEF PathExprs

\* The concrete inputs of a path are its own name or those of its lookups.
LEMMA InputsEquation ==
  ConcreteInputs = [e \in PathExprs |->
                      IF IsConcrete(e.path) THEN {Names(e.path)}
                      ELSE UNION {ConcreteInputs[d] : d \in Parts(e)}]
<1> DEFINE Step(f, e) == IF IsConcrete(e.path) THEN {Names(e.path)}
                         ELSE UNION {f[d] : d \in Parts(e)}
           base == [e \in PathExprs |-> IF IsConcrete(e.path) THEN {Names(e.path)} ELSE {}]
           below == [e \in PathExprs |-> IF IsConcrete(e.path) THEN {} ELSE Parts(e)]
<1>1. \A e \in PathExprs : \A d \in below[e] : d \in PathExprs /\ d \in Parts(e)
  BY LookupExpr
<1>2. PICK f : Collects(f, PathExprs, base, below)
  <2> HIDE DEF base, below
  <2>1. PathExprs \in SUBSET Expressions
    BY DEF PathExprs
  <2> QED
    BY <1>1, <2>1, Recursion, Zenon
<1>3. ASSUME NEW e \in PathExprs PROVE Collect(f, base, below, e) = Step(f, e)
  <2>1. CASE IsConcrete(e.path)
    <3>1. base[e] = {Names(e.path)} /\ below[e] = {}
      BY <2>1
    <3> HIDE DEF base, below
    <3> QED
      BY <2>1, <3>1 DEF Collect
  <2>2. CASE ~IsConcrete(e.path)
    <3>1. base[e] = {} /\ below[e] = Parts(e)
      BY <2>2
    <3> HIDE DEF base, below
    <3> QED
      BY <2>2, <3>1, Zenon DEF Collect
  <2> QED
    BY <2>1, <2>2
<1>4. f = [e \in PathExprs |-> Step(f, e)]
  <2> HIDE DEF base, below, Step
  <2> QED
    BY <1>2, <1>3, Zenon DEF Collects
<1> QED
  BY <1>4, Zenon DEF ConcreteInputs

-----------------------------------------------------------------------------
\* Evaluation is what its levels say.
LEMMA LevelsEquation ==
  ASSUME NEW t, NEW chk, NEW heard
  PROVE Levels(t, chk, heard) =
          [k \in 0..Depth |->
             IF k = 0 THEN StackFull(t) ELSE Level(t, chk, heard, Levels(t, chk, heard)[k - 1])]
<1> DEFINE Step(f, k) == IF k = 0 THEN StackFull(t) ELSE Level(t, chk, heard, f[k - 1])
           Is(f, m) == f = [k \in 0..m |-> Step(f, k)]
           K == {m \in Nat : \E f : Is(f, m)}
<1>1. 0 \in K
  <2>1. Is([k \in 0..0 |-> StackFull(t)], 0)
    OBVIOUS
  <2> HIDE DEF Is
  <2> QED
    BY <2>1
<1>2. ASSUME NEW m \in Nat, m \in K PROVE m + 1 \in K
  <2>1. PICK f : Is(f, m)
    BY <1>2
  <2> DEFINE g == [k \in 0..(m + 1) |-> Step(f, k)]
  <2>2. ASSUME NEW k \in 0..(m + 1) PROVE Step(f, k) = Step(g, k)
    <3>1. CASE k = 0
      BY <3>1
    <3>2. CASE k # 0
      <4>1. k - 1 \in 0..m /\ k - 1 \in 0..(m + 1)
        BY <3>2
      <4>2. f[k - 1] = g[k - 1]
        <5> HIDE DEF Step
        <5> QED
          BY <2>1, <4>1, Zenon
      <4> HIDE DEF g
      <4> QED
        BY <3>2, <4>2, Zenon
    <3> QED
      BY <3>1, <3>2
  <2>3. Is(g, m + 1)
    <3> HIDE DEF Step
    <3> QED
      BY <2>2, Zenon
  <2> HIDE DEF Is
  <2> QED
    BY <2>3
<1>3. PICK f : Is(f, Depth)
  <2> HIDE DEF Is
  <2> QED
    BY <1>1, <1>2, Induction, BoundAssumption
<1> QED
  BY <1>3, Zenon DEF Levels

\* Devirtualize is what its definition says, one component after the other.
Component(t, p, before, k) ==
  LET from == IF before = {} THEN {<<>>} ELSE before
  IN IF ~IsLookup(p[k]) THEN {Append(q, p[k].name) : q \in from}
     ELSE {n \in DOMAIN t \ {<<>>} : SubSeq(n, 1, Len(n) - 1) \in from}

LEMMA DevirtualizeEquation ==
  ASSUME NEW t, NEW p, Len(p) \in Nat
  PROVE /\ Devirtualize(t, p)[0] = {<<>>}
        /\ \A k \in 1..Len(p) :
             Devirtualize(t, p)[k] = Component(t, p, Devirtualize(t, p)[k - 1], k)
<1> DEFINE Step(f, k) ==
             LET before == IF k = 0 \/ f[k - 1] = {} THEN {<<>>} ELSE f[k - 1]
             IN IF k = 0 THEN {<<>>}
                ELSE IF ~IsLookup(p[k]) THEN {Append(q, p[k].name) : q \in before}
                ELSE {n \in DOMAIN t \ {<<>>} : SubSeq(n, 1, Len(n) - 1) \in before}
           Is(f, m) == f = [k \in 0..m |-> Step(f, k)]
           K == {m \in Nat : \E f : Is(f, m)}
<1>1. 0 \in K
  <2>1. Is([k \in 0..0 |-> {<<>>}], 0)
    OBVIOUS
  <2> HIDE DEF Is
  <2> QED
    BY <2>1
<1>2. ASSUME NEW m \in Nat, m \in K PROVE m + 1 \in K
  <2>1. PICK f : Is(f, m)
    BY <1>2
  <2> DEFINE g == [k \in 0..(m + 1) |-> Step(f, k)]
  <2>2. ASSUME NEW k \in 0..(m + 1) PROVE Step(f, k) = Step(g, k)
    <3>1. CASE k = 0
      BY <3>1
    <3>2. CASE k # 0
      <4>1. k - 1 \in 0..m /\ k - 1 \in 0..(m + 1)
        BY <3>2
      <4>2. f[k - 1] = g[k - 1]
        <5> HIDE DEF Step
        <5> QED
          BY <2>1, <4>1, Zenon
      <4> HIDE DEF g
      <4> QED
        BY <3>2, <4>2, Zenon
    <3> QED
      BY <3>1, <3>2
  <2>3. Is(g, m + 1)
    <3> HIDE DEF Step
    <3> QED
      BY <2>2, Zenon
  <2> HIDE DEF Is
  <2> QED
    BY <2>3
<1>3. PICK f : Is(f, Len(p))
  <2> HIDE DEF Is
  <2> QED
    BY <1>1, <1>2, Induction
<1>4. Is(Devirtualize(t, p), Len(p))
  BY <1>3, ZenonT(60) DEF Devirtualize
<1> DEFINE D == Devirtualize(t, p)
<1> HIDE DEF D
<1>5. \A k \in 0..Len(p) : D[k] = Step(D, k)
  <2> HIDE DEF Step
  <2> QED
    BY <1>4, Zenon DEF D
<1>6. D[0] = {<<>>}
  <2>1. 0 \in 0..Len(p)
    OBVIOUS
  <2>2. D[0] = Step(D, 0)
    <3> HIDE DEF Step
    <3> QED
      BY <1>5, <2>1
  <2> QED
    BY <2>2, Zenon
<1>7. ASSUME NEW k \in 1..Len(p) PROVE D[k] = Component(t, p, D[k - 1], k)
  <2>1. k \in 0..Len(p) /\ k # 0
    OBVIOUS
  <2>2. D[k] = Step(D, k)
    BY <1>5, <2>1
  <2> QED
    BY <2>1, <2>2, Zenon DEF Component
<1> QED
  BY <1>6, <1>7 DEF D

\* What a path that can be followed leads to is among what it may stand for.
LEMMA Landing ==
  ASSUME NEW t \in Trees, NEW p, p \in Seq(Range(p)), NEW names, DOMAIN names = DOMAIN p,
         \A i \in DOMAIN p : ~IsLookup(p[i]) => names[i] = Str(p[i].name),
         Stops(t, names) = {}
  PROVE /\ Prefix(names, Len(p)) \in DOMAIN t
        /\ Prefix(names, Len(p)) \in Devirtualize(t, p)[Len(p)]
<1> DEFINE n == Len(p)
           D == Devirtualize(t, p)
           Is(k) == k <= n => Prefix(names, k) \in D[k]
           K == {k \in Nat : Is(k)}
<1>1. n \in Nat /\ DOMAIN p = 1..n
  OBVIOUS
<1>2. \A i \in 1..n : Prefix(names, i) \in DOMAIN t
  BY <1>1 DEF Stops
<1>3. D[0] = {<<>>} /\ \A k \in 1..n : D[k] = Component(t, p, D[k - 1], k)
  BY <1>1, DevirtualizeEquation
<1>4. Prefix(names, 0) = <<>>
  BY DEF Prefix
<1>5. 0 \in K
  BY <1>3, <1>4
<1>6. ASSUME NEW k \in Nat, k \in K PROVE k + 1 \in K
  <2> SUFFICES ASSUME k + 1 <= n PROVE Prefix(names, k + 1) \in D[k + 1]
    OBVIOUS
  <2> DEFINE s == Prefix(names, k)
             x == ToStr(names[k + 1])
             T == {ToStr(names[j]) : j \in 1..(k + 1)}
  <2>1. s \in Seq(T) /\ x \in T /\ Len(s) = k
    BY DEF Prefix
  <2>2. Prefix(names, k + 1) = Append(s, x)
    BY <2>1 DEF Prefix
  <2>3. s \in D[k] /\ k + 1 \in 1..n /\ (k + 1) - 1 = k
    BY <1>1, <1>6
  <2>4. D[k + 1] = Component(t, p, D[k], k + 1)
    BY <1>3, <2>3
  <2>5. D[k] # {}
    BY <2>3
  <2> HIDE DEF D, s, x, T
  <2>6. CASE ~IsLookup(p[k + 1])
    <3>1. names[k + 1] = Str(p[k + 1].name)
      BY <1>1, <2>3, <2>6
    <3>2. x = p[k + 1].name
      BY <3>1 DEF x, ToStr, Str, Value
    <3> QED
      BY <2>2, <2>3, <2>4, <2>5, <2>6, <3>2 DEF Component
  <2>7. CASE IsLookup(p[k + 1])
    <3>1. Append(s, x) # <<>> /\ SubSeq(Append(s, x), 1, Len(Append(s, x)) - 1) = s
      BY <2>1
    <3>2. Append(s, x) \in DOMAIN t
      BY <1>2, <2>2, <2>3
    <3> QED
      BY <2>2, <2>3, <2>4, <2>5, <2>7, <3>1, <3>2 DEF Component
  <2> QED
    BY <2>6, <2>7
<1>7. Prefix(names, n) \in D[n]
  <2> HIDE DEF Is
  <2>1. Is(n)
    BY <1>1, <1>5, <1>6, Induction
  <2> QED
    BY <1>1, <2>1 DEF Is
<1>8. Prefix(names, n) \in DOMAIN t
  BY <1>1, <1>2, <1>4, TreeAssumption
<1> QED
  BY <1>7, <1>8

-----------------------------------------------------------------------------
LEMMA ReachClosed ==
  ASSUME NEW edges, NEW S
  PROVE /\ S \subseteq Reach(edges, S)
        /\ \A x \in edges : x[1] \in Reach(edges, S) => x[2] \in Reach(edges, S)
<1> DEFINE ends == {x[2] : x \in edges}
           Closed(X) == \A x \in edges : x[1] \in X => x[2] \in X
<1>1. Reach(edges, S) =
        {n \in S \cup ends : \A X \in SUBSET ends : Closed(S \cup X) => n \in S \cup X}
  BY Zenon DEF Reach
<1>2. S \subseteq Reach(edges, S)
  BY <1>1
<1>3. ASSUME NEW x \in edges, x[1] \in Reach(edges, S) PROVE x[2] \in Reach(edges, S)
  <2>1. x[2] \in S \cup ends
    OBVIOUS
  <2>2. ASSUME NEW X \in SUBSET ends, Closed(S \cup X) PROVE x[2] \in S \cup X
    <3>1. x[1] \in S \cup X
      <4> HIDE DEF Closed
      <4> QED
        BY <1>1, <1>3, <2>2
    <3> QED
      BY <2>2, <3>1
  <2> HIDE DEF Closed, ends
  <2> QED
    BY <1>1, <2>1, <2>2
<1> QED
  BY <1>2, <1>3

\* The paths of an expression are expressions.
LEMMA PathsAreExprs ==
  ASSUME NEW e \in Expressions PROVE \A p \in Paths[e] : PathExpr(p) \in PathExprs
<1> DEFINE Is(d) == \A p \in Paths[d] : PathExpr(p) \in PathExprs
           K == {k \in Nat : \A d \in Lower(Expressions, k) : Is(d)}
<1>1. 0 \in K
  BY LowerAll
<1>2. ASSUME NEW k \in Nat, k \in K PROVE k + 1 \in K
  <2> SUFFICES ASSUME NEW d \in Lower(Expressions, k + 1) PROVE Is(d)
    OBVIOUS
  <2>1. d \in Expressions /\ Heights[d] < k + 1
    BY DEF Lower
  <2>2. CASE d.op = "path"
    <3>1. Paths[d] = {d.path} /\ d = PathExpr(d.path)
      BY <2>1, <2>2, PathsEquation, ExpressionAssumption
    <3> QED
      BY <2>1, <2>2, <3>1 DEF PathExprs
  <2>3. CASE d.op # "path"
    <3>1. Paths[d] = UNION {Paths[c] : c \in Parts(d)}
      BY <2>1, <2>3, PathsEquation, Zenon
    <3>2. ASSUME NEW c \in Parts(d) PROVE c \in Lower(Expressions, k)
      <4>1. c \in Expressions /\ Heights[c] < Heights[d]
              /\ Heights[c] \in 0..Depth /\ Heights[d] \in 0..Depth
        BY <2>1, ExpressionAssumption
      <4> QED
        BY <2>1, <4>1, BoundAssumption DEF Lower
    <3> QED
      BY <1>2, <3>1, <3>2
  <2> QED
    BY <2>2, <2>3
<1>3. \A d \in Lower(Expressions, Depth + 1) : Is(d)
  <2> HIDE DEF Is
  <2>1. Depth + 1 \in Nat
    BY BoundAssumption
  <2> QED
    BY <1>1, <1>2, <2>1, Induction
<1> QED
  BY <1>3, LowerAll

\* A path, or an expression, that reads nothing of a set A of nodes.
Harmless(t, A, p) ==
  IF IsConcrete(p) THEN Names(p) \notin A
  ELSE /\ \A q \in Lookups(p) : IsConcrete(q) /\ Names(q) \notin A
       /\ Devirtualize(t, p)[Len(p)] \cap DOMAIN t \cap A = {}
Clear(t, A, e) == \A p \in Paths[e] : Harmless(t, A, p)

\* Two evaluations that agree on all that A has nothing to do with.
Same(t, A, b, c) ==
  /\ \A n \in DOMAIN t \ A : b.node[n] = c.node[n]
  /\ \A e \in Expressions, ready \in BOOLEAN :
       Clear(t, A, e) => b.expr[e, ready] = c.expr[e, ready]

\* A script that no edge from A leads to reads nothing of A.
LEMMA ScriptClear ==
  ASSUME NEW t \in Trees, FlatLookups, NEW n \in Scripts(t), NEW A,
         \A x \in Edges(t) : x[1] \in A => x[2] \in A, n \notin A
  PROVE Clear(t, A, t[n].script)
<1> DEFINE e == t[n].script
<1> SUFFICES ASSUME NEW p \in Paths[e] PROVE Harmless(t, A, p)
  BY DEF Clear
<1>1. e \in Expressions
  BY TreeAssumption
<1>2. PathExpr(p) \in PathExprs
  BY <1>1, PathsAreExprs
<1>3. ASSUME NEW m \in PathInputs(t, p) PROVE m \notin A
  <2>1. m \in Inputs(t, n)
    BY DEF Inputs
  <2>2. <<m, n>> \in Edges(t)
    BY <2>1 DEF Edges
  <2> QED
    BY <2>2
<1>4. PathExpr(p).path = p /\ PathExpr(p).op = "path"
  BY DEF PathExpr
<1>5. ConcreteInputs[PathExpr(p)] =
        IF IsConcrete(p) THEN {Names(p)}
        ELSE UNION {ConcreteInputs[d] : d \in Parts(PathExpr(p))}
  BY <1>2, <1>4, InputsEquation
<1>6. CASE IsConcrete(p)
  <2>1. Names(p) \in PathInputs(t, p)
    BY <1>5, <1>6 DEF PathInputs
  <2> QED
    BY <1>3, <1>6, <2>1 DEF Harmless
<1>7. CASE ~IsConcrete(p)
  <2>1. ASSUME NEW q \in Lookups(p) PROVE IsConcrete(q) /\ Names(q) \notin A
    <3>1. IsConcrete(q)
      BY DEF FlatLookups
    <3>2. PathExpr(q) \in Parts(PathExpr(p))
      BY <1>4 DEF Parts
    <3>3. PathExpr(q) \in PathExprs
      BY <1>2, <3>2, LookupExpr
    <3>4. PathExpr(q).path = q
      BY DEF PathExpr
    <3>5. ConcreteInputs[PathExpr(q)] = {Names(q)}
      BY <3>1, <3>3, <3>4, InputsEquation
    <3>6. Names(q) \in PathInputs(t, p)
      BY <1>5, <1>7, <3>2, <3>5 DEF PathInputs
    <3> QED
      BY <1>3, <3>1, <3>6
  <2>2. Devirtualize(t, p)[Len(p)] \cap DOMAIN t \cap A = {}
    BY <1>3 DEF PathInputs
  <2> QED
    BY <1>7, <2>1, <2>2 DEF Harmless
<1> QED
  BY <1>6, <1>7

\* What an expression is made of reads nothing that the expression does not read.
LEMMA PartClear ==
  ASSUME NEW t, NEW A, NEW e \in Expressions, Clear(t, A, e)
  PROVE /\ e.op = "path" => Harmless(t, A, e.path)
        /\ e.op # "path" => \A d \in Parts(e) : d \in Expressions /\ Clear(t, A, d)
<1>1. CASE e.op = "path"
  <2>1. Paths[e] = {e.path}
    BY <1>1, PathsEquation
  <2> QED
    BY <1>1, <2>1 DEF Clear
<1>2. CASE e.op # "path"
  <2>1. Paths[e] = UNION {Paths[d] : d \in Parts(e)}
    BY <1>2, PathsEquation, Zenon
  <2> QED
    BY <1>2, <2>1, ExpressionAssumption DEF Clear
<1> QED
  BY <1>1, <1>2

\* A path leads to the same node in both evaluations, and not into A.
LEMMA LookupSame ==
  ASSUME NEW t \in Trees, NEW A, NEW b, NEW c, Same(t, A, b, c),
         NEW e \in PathExprs, Harmless(t, A, e.path)
  PROVE /\ Lookup(t, b, e.path) = Lookup(t, c, e.path)
        /\ LET l == Lookup(t, b, e.path)
           IN ~Failed(l) => l.at \in DOMAIN t \ A
<1> DEFINE p == e.path
           names == NamesAlong(b, p)
<1>1. e \in Expressions /\ e = PathExpr(p) /\ p \in Seq(Range(p)) /\ e.op = "path"
  BY ExpressionAssumption DEF PathExprs
<1>2. ASSUME NEW i \in DOMAIN p, IsLookup(p[i])
      PROVE b.expr[PathExpr(p[i].lookup), TRUE] = c.expr[PathExpr(p[i].lookup), TRUE]
  <2> DEFINE q == p[i].lookup
  <2>1. q \in Lookups(p) /\ ~IsConcrete(p)
    BY <1>2 DEF Lookups, IsConcrete
  <2>2. IsConcrete(q) /\ Names(q) \notin A
    BY <2>1 DEF Harmless
  <2>3. PathExpr(q) \in Expressions
    <3>1. PathExpr(q) \in Parts(e)
      BY <1>1, <2>1 DEF Parts
    <3> QED
      BY <1>1, <3>1, ExpressionAssumption
  <2>4. Paths[PathExpr(q)] = {q}
    BY <2>3, PathsEquation DEF PathExpr
  <2>5. Clear(t, A, PathExpr(q))
    BY <2>2, <2>4 DEF Clear, Harmless
  <2> QED
    BY <2>3, <2>5 DEF Same
<1>3. NamesAlong(c, p) = names
  BY <1>2, Zenon DEF NamesAlong
<1>4. Lookup(t, b, p) = Lookup(t, c, p)
  BY <1>3, Zenon DEF Lookup
<1>5. ASSUME ~Failed(Lookup(t, b, p)) PROVE Lookup(t, b, p).at \in DOMAIN t \ A
  <2>1. Stops(t, names) = {} /\ Lookup(t, b, p).at = Prefix(names, Len(p))
    BY <1>5 DEF Lookup, Failed, Failure, Value, Node
  <2>2. DOMAIN names = DOMAIN p
    BY DEF NamesAlong
  <2>3. \A i \in DOMAIN p : ~IsLookup(p[i]) => names[i] = Str(p[i].name)
    BY DEF NamesAlong
  <2>4. /\ Prefix(names, Len(p)) \in DOMAIN t
        /\ Prefix(names, Len(p)) \in Devirtualize(t, p)[Len(p)]
    <3> HIDE DEF p, names
    <3> QED
      BY <1>1, <2>1, <2>2, <2>3, Landing
  <2>5. CASE IsConcrete(p)
    <3>1. DOMAIN p = 1..Len(p)
      BY <1>1
    <3>2. \A x : ToStr(Str(x)) = x
      BY DEF ToStr, Str, Value
    <3>3. \A i \in 1..Len(p) : ToStr(names[i]) = p[i].name
      <4> HIDE DEF p, names
      <4> QED
        BY <2>3, <2>5, <3>1, <3>2, Zenon DEF IsConcrete
    <3>4. Prefix(names, Len(p)) = Names(p)
      <4> HIDE DEF p, names
      <4> QED
        BY <3>1, <3>3, Zenon DEF Prefix, Names
    <3> QED
      BY <2>1, <2>4, <2>5, <3>4 DEF Harmless
  <2>6. CASE ~IsConcrete(p)
    BY <2>1, <2>4, <2>6 DEF Harmless
  <2> QED
    BY <2>5, <2>6
<1> QED
  BY <1>4, <1>5

\* An if takes the same block.
LEMMA BranchSame ==
  ASSUME NEW t, NEW A, NEW b, NEW c, Same(t, A, b, c),
         NEW e \in Expressions, e.op = "if", Clear(t, A, e), NEW ready \in BOOLEAN
  PROVE Branch(b, e, ready) = Branch(c, e, ready)
<1>1. Parts(e) = {e.else} \cup UNION {{x.cond, x.then} : x \in Range(e.cases)}
  BY DEF Parts
<1>2. ASSUME NEW d \in Parts(e), NEW r \in BOOLEAN PROVE b.expr[d, r] = c.expr[d, r]
  BY PartClear DEF Same
<1>3. ASSUME NEW i \in DOMAIN e.cases
      PROVE e.cases[i].cond \in Parts(e) /\ e.cases[i].then \in Parts(e)
  <2>1. e.cases[i] \in Range(e.cases)
    BY DEF Range
  <2> QED
    BY <1>1, <2>1
<1>4. Decisive(b, e, ready) = Decisive(c, e, ready)
  <2>1. \A i \in DOMAIN e.cases :
          b.expr[e.cases[i].cond, ready] = c.expr[e.cases[i].cond, ready]
    BY <1>2, <1>3
  <2> QED
    BY <2>1, Zenon DEF Decisive
<1>5. CASE Decisive(b, e, ready) = {}
  <2>1. b.expr[e.else, FALSE] = c.expr[e.else, FALSE]
    BY <1>1, <1>2
  <2> QED
    BY <1>4, <1>5, <2>1 DEF Branch
<1>6. CASE Decisive(b, e, ready) # {}
  <2> DEFINE i == Min(Decisive(b, e, ready))
  <2>1. i \in DOMAIN e.cases
    <3>1. Decisive(b, e, ready) \subseteq DOMAIN e.cases /\ DOMAIN e.cases \subseteq Nat
      <4>1. e.cases \in Seq(Range(e.cases))
        BY ExpressionAssumption
      <4>2. DOMAIN e.cases = 1..Len(e.cases) /\ Len(e.cases) \in Nat
        BY <4>1
      <4>3. Decisive(b, e, ready) \subseteq DOMAIN e.cases
        BY Zenon DEF Decisive
      <4> QED
        BY <4>2, <4>3
    <3>2. i \in Decisive(b, e, ready)
      BY <1>6, <3>1, LeastIsMin
    <3> QED
      BY <3>1, <3>2
  <2>2. /\ b.expr[e.cases[i].cond, ready] = c.expr[e.cases[i].cond, ready]
        /\ b.expr[e.cases[i].then, FALSE] = c.expr[e.cases[i].then, FALSE]
    BY <1>2, <1>3, <2>1
  <2>3. i = Min(Decisive(c, e, ready))
    BY <1>4
  <2> HIDE DEF i
  <2> QED
    BY <1>4, <1>6, <2>2, <2>3, Zenon DEF Branch, i
<1> QED
  BY <1>5, <1>6

\* One level of calls preserves agreement.
LEMMA ExprSame ==
  ASSUME NEW t \in Trees, NEW A, NEW b, NEW c, Same(t, A, b, c), NEW chk,
         NEW e \in Expressions, Clear(t, A, e), NEW ready \in BOOLEAN
  PROVE EvalExpr(t, chk, b, e, ready) = EvalExpr(t, chk, c, e, ready)
<1>1. CASE e.op = "value"
  BY <1>1 DEF EvalExpr
<1>2. CASE e.op = "path"
  <2> DEFINE l == Lookup(t, b, e.path)
  <2>1. e \in PathExprs /\ Harmless(t, A, e.path)
    BY <1>2, PartClear DEF PathExprs
  <2>2. l = Lookup(t, c, e.path) /\ (~Failed(l) => l.at \in DOMAIN t \ A)
    BY <2>1, LookupSame
  <2>3. ~Failed(l) => b.node[l.at] = c.node[l.at]
    <3> HIDE DEF l
    <3> QED
      BY <2>2 DEF Same
  <2>4. \A d : EvalExpr(t, chk, d, e, ready) =
               LET m == Lookup(t, d, e.path)
               IN IF Failed(m) THEN m ELSE WithGeneration(d.node[m.at], m.gen)
    BY <1>2 DEF EvalExpr
  <2> HIDE DEF l
  <2> QED
    BY <2>2, <2>3, <2>4, Zenon DEF l
<1>3. CASE e.op \in {"negate", "str"}
  <2>1. e.arg \in Parts(e)
    BY <1>3 DEF Parts
  <2>2. b.expr[e.arg, ready] = c.expr[e.arg, ready]
    BY <1>3, <2>1, PartClear DEF Same
  <2> QED
    BY <1>3, <2>2 DEF EvalExpr
<1>4. CASE e.op = "if"
  BY <1>4, BranchSame DEF EvalExpr
<1>5. CASE e.op \notin {"value", "path", "negate", "str", "if"}
  <2>1. e.left \in Parts(e) /\ e.right \in Parts(e)
    BY <1>5 DEF Parts
  <2>2. /\ b.expr[e.left, ready] = c.expr[e.left, ready]
        /\ b.expr[e.right, ready] = c.expr[e.right, ready]
    BY <1>5, <2>1, PartClear DEF Same
  <2> QED
    BY <1>5, <2>2 DEF EvalExpr
<1> QED
  BY <1>1, <1>2, <1>3, <1>4, <1>5

LEMMA LevelSame ==
  ASSUME NEW t \in Trees, NEW chk, NEW A, NEW heard1, NEW heard2, NEW b, NEW c,
         FlatLookups, Same(t, A, b, c),
         \A x \in Edges(t) : x[1] \in A => x[2] \in A,
         \A n \in Sources(t) : Append(n, "default") \in DOMAIN t => Append(n, "default") \notin A,
         \A n \in Sources(t) \ A : heard1[n] = heard2[n]
  PROVE Same(t, A, Level(t, chk, heard1, b), Level(t, chk, heard2, c))
<1>1. ASSUME NEW n \in DOMAIN t \ A
      PROVE ComputeNode(t, heard1, b, n) = ComputeNode(t, heard2, c, n)
  <2>1. CASE t[n].input = "script"
    <3>1. n \in Scripts(t)
      BY <2>1 DEF Scripts
    <3>2. t[n].script \in Expressions /\ Clear(t, A, t[n].script)
      BY <3>1, ScriptClear, TreeAssumption
    <3>3. b.expr[t[n].script, TRUE] = c.expr[t[n].script, TRUE]
      BY <3>2 DEF Same
    <3> QED
      BY <2>1, <3>3 DEF ComputeNode
  <2>2. CASE t[n].input = "source"
    <3>1. n \in Sources(t) \ A
      BY <2>2 DEF Sources
    <3>2. heard1[n] = heard2[n]
      BY <3>1
    <3>3. Append(n, "default") \in DOMAIN t
            => b.node[Append(n, "default")] = c.node[Append(n, "default")]
      BY <3>1 DEF Same
    <3> QED
      BY <2>2, <3>2, <3>3 DEF ComputeNode
  <2>3. CASE t[n].input \notin {"script", "source"}
    BY <2>3 DEF ComputeNode
  <2> QED
    BY <2>1, <2>2, <2>3
<1>2. \A e \in Expressions, ready \in BOOLEAN :
        Clear(t, A, e) => EvalExpr(t, chk, b, e, ready) = EvalExpr(t, chk, c, e, ready)
  BY ExprSame
<1> QED
  BY <1>1, <1>2 DEF Same, Level

\* A node that a source does not lead to computes to the same whatever the source says:
\* an event need not compute more sinks than the flow graph leads to from its source.
THEOREM Unaffected ==
  ASSUME FlatLookups, FixedDefaults, NEW t \in Trees, NEW chk, NEW src \in Sources(t),
         NEW heard1, NEW heard2, \A n \in Sources(t) \ {src} : heard1[n] = heard2[n],
         NEW m \in DOMAIN t, m \notin Reach(Edges(t), {src})
  PROVE Compute(t, chk, heard1, m) = Compute(t, chk, heard2, m)
<1> DEFINE A == Reach(Edges(t), {src})
           L == Levels(t, chk, heard1)
           M == Levels(t, chk, heard2)
           Is(k) == k <= Depth => Same(t, A, L[k], M[k])
           K == {k \in Nat : Is(k)}
<1>1. src \in A /\ \A x \in Edges(t) : x[1] \in A => x[2] \in A
  BY ReachClosed
<1>2. \A n \in Sources(t) : Append(n, "default") \in DOMAIN t => Append(n, "default") \notin A
  BY DEF FixedDefaults
<1>3. \A n \in Sources(t) \ A : heard1[n] = heard2[n]
  BY <1>1
<1>4. /\ L[0] = StackFull(t) /\ M[0] = StackFull(t)
      /\ \A k \in 1..Depth : /\ L[k] = Level(t, chk, heard1, L[k - 1])
                             /\ M[k] = Level(t, chk, heard2, M[k - 1])
  <2>1. ASSUME NEW h, NEW k \in 0..Depth
        PROVE Levels(t, chk, h)[k] =
                IF k = 0 THEN StackFull(t) ELSE Level(t, chk, h, Levels(t, chk, h)[k - 1])
    <3> DEFINE F == Levels(t, chk, h)
    <3>1. F = [i \in 0..Depth |-> IF i = 0 THEN StackFull(t) ELSE Level(t, chk, h, F[i - 1])]
      BY LevelsEquation
    <3> HIDE DEF F
    <3> QED
      BY <3>1, Zenon DEF F
  <2> QED
    BY <2>1, BoundAssumption
<1> HIDE DEF A, L, M
<1>5. 0 \in K
  BY <1>4 DEF Same
<1>6. ASSUME NEW k \in Nat, k \in K PROVE k + 1 \in K
  <2> SUFFICES ASSUME k + 1 <= Depth PROVE Same(t, A, L[k + 1], M[k + 1])
    OBVIOUS
  <2>1. k + 1 \in 1..Depth /\ (k + 1) - 1 = k
    BY BoundAssumption
  <2>2. Same(t, A, L[k], M[k])
    BY <1>6, BoundAssumption
  <2>3. L[k + 1] = Level(t, chk, heard1, L[k]) /\ M[k + 1] = Level(t, chk, heard2, M[k])
    BY <1>4, <2>1
  <2> QED
    BY <1>1, <1>2, <1>3, <2>2, <2>3, LevelSame
<1>7. Same(t, A, L[Depth], M[Depth])
  <2> HIDE DEF Is
  <2>1. Is(Depth)
    BY <1>5, <1>6, Induction, BoundAssumption
  <2> QED
    BY <2>1, BoundAssumption DEF Is
<1>8. m \in DOMAIN t \ A
  BY DEF A
<1> QED
  BY <1>7, <1>8 DEF Same, Compute, L, M

-----------------------------------------------------------------------------
\* More stack changes nothing but what there was too little of it for.

\* Whatever is no panic in b is the same in c.
More(t, b, c) ==
  /\ \A n \in DOMAIN t : b.node[n] # Panic => c.node[n] = b.node[n]
  /\ \A e \in Expressions, ready \in BOOLEAN :
       b.expr[e, ready] # Panic => c.expr[e, ready] = b.expr[e, ready]

LEMMA MinIs ==
  ASSUME NEW T, T \subseteq Nat, NEW m \in T, \A n \in T : m <= n
  PROVE  Min(T) = m
<1>1. \A k \in T : (\A n \in T : k <= n) => k = m
  <2> SUFFICES ASSUME NEW k \in T, \A n \in T : k <= n PROVE k = m
    OBVIOUS
  <2>1. k <= m /\ m <= k /\ k \in Nat /\ m \in Nat
    OBVIOUS
  <2> QED
    BY <2>1
<1> QED
  BY <1>1, Zenon DEF Min

LEMMA PanicFailed == Failed(Panic)
BY DEF Failed, Panic, Value

\* A path that leads somewhere still leads there.
LEMMA LookupMore ==
  ASSUME NEW t, NEW b, NEW c, More(t, b, c), NEW e \in PathExprs,
         Lookup(t, b, e.path) # Panic
  PROVE  Lookup(t, c, e.path) = Lookup(t, b, e.path)
<1> DEFINE p == e.path
           f == NamesAlong(b, p)
           g == NamesAlong(c, p)
<1>1. e \in Expressions /\ e = PathExpr(p) /\ p \in Seq(Range(p)) /\ e.op = "path"
  BY ExpressionAssumption DEF PathExprs
<1>2. DOMAIN p = 1..Len(p) /\ Len(p) \in Nat /\ DOMAIN f = DOMAIN p /\ DOMAIN g = DOMAIN p
  BY <1>1 DEF NamesAlong
<1>3. ASSUME NEW i \in DOMAIN p, f[i] # Panic PROVE g[i] = f[i]
  <2>1. CASE IsLookup(p[i])
    <3>1. p[i].lookup \in Lookups(p)
      BY <2>1 DEF Lookups
    <3>2. PathExpr(p[i].lookup) \in Parts(e)
      BY <1>1, <3>1 DEF Parts
    <3>3. PathExpr(p[i].lookup) \in Expressions
      BY <1>1, <3>2, ExpressionAssumption
    <3>4. f[i] = b.expr[PathExpr(p[i].lookup), TRUE] /\ g[i] = c.expr[PathExpr(p[i].lookup), TRUE]
      BY <2>1 DEF NamesAlong
    <3> QED
      BY <1>3, <3>3, <3>4 DEF More
  <2>2. CASE ~IsLookup(p[i])
    BY <2>2 DEF NamesAlong
  <2> QED
    BY <2>1, <2>2
<1>4. \A h : Lookup(t, h, p) =
              IF Stops(t, NamesAlong(h, p)) = {}
              THEN Node(Prefix(NamesAlong(h, p), Len(p)),
                        Max({0} \cup {NamesAlong(h, p)[i].gen : i \in DOMAIN p}))
              ELSE IF Failed(NamesAlong(h, p)[Min(Stops(t, NamesAlong(h, p)))])
                   THEN NamesAlong(h, p)[Min(Stops(t, NamesAlong(h, p)))] ELSE Failure
  BY Zenon DEF Lookup
<1>5. CASE Stops(t, f) = {}
  <2>1. \A i \in DOMAIN p : f[i] # Panic
    BY <1>2, <1>5, PanicFailed DEF Stops
  <2>2. g = f
    <3>1. \A i \in DOMAIN p : g[i] = f[i]
      BY <1>3, <2>1
    <3>2. f = [i \in DOMAIN p |-> f[i]] /\ g = [i \in DOMAIN p |-> g[i]]
      BY DEF NamesAlong
    <3> HIDE DEF f, g, p
    <3> QED
      BY <3>1, <3>2
  <2> QED
    BY <1>4, <2>2, Zenon
<1>6. CASE Stops(t, f) # {}
  <2> DEFINE m == Min(Stops(t, f))
  <2>1. Stops(t, f) \subseteq 1..Len(p) /\ m \in Stops(t, f)
    <3>1. Stops(t, f) \subseteq 1..Len(p)
      BY <1>2 DEF Stops
    <3> QED
      BY <1>2, <1>6, <3>1, LeastIsMin
  <2>2. \A i \in Stops(t, f) : m <= i
    <3>1. \E k \in Stops(t, f) : \A i \in Stops(t, f) : k <= i
      <4>1. Stops(t, f) \subseteq Nat
        BY <1>2, <2>1
      <4> QED
        BY <1>6, <4>1, Least, Zenon
    <3> QED
      BY <3>1, Zenon DEF Min
  <2> HIDE DEF m
  <2>3. f[m] # Panic
    <3> SUFFICES ASSUME f[m] = Panic PROVE FALSE
      OBVIOUS
    <3>1. Lookup(t, b, p) = Panic
      BY <1>4, <1>6, PanicFailed, Zenon DEF m
    <3> QED
      BY <3>1
  <2>4. \A i \in 1..(m - 1) : i \in DOMAIN p /\ ~Failed(f[i]) /\ f[i] # Panic
    <3> SUFFICES ASSUME NEW i \in 1..(m - 1) PROVE i \in DOMAIN p /\ ~Failed(f[i]) /\ f[i] # Panic
      OBVIOUS
    <3>1. i \in DOMAIN p /\ i \notin Stops(t, f)
      BY <1>2, <2>1, <2>2
    <3>2. ~Failed(f[i])
      BY <1>2, <3>1 DEF Stops
    <3> QED
      BY <3>1, <3>2, PanicFailed
  <2>5. m \in DOMAIN p /\ \A i \in 1..m : i \in DOMAIN p /\ g[i] = f[i]
    <3>1. m \in DOMAIN p /\ g[m] = f[m]
      BY <1>2, <1>3, <2>1, <2>3
    <3>2. \A i \in 1..m : i = m \/ i \in 1..(m - 1)
      BY <1>2, <2>1
    <3> HIDE DEF f, g, p
    <3> QED
      BY <1>3, <2>4, <3>1, <3>2
  <2>6. \A i \in 1..m : Prefix(g, i) = Prefix(f, i)
    <3> SUFFICES ASSUME NEW i \in 1..m PROVE Prefix(g, i) = Prefix(f, i)
      OBVIOUS
    <3>1. \A j \in 1..i : j \in 1..m
      BY <1>2, <2>1
    <3>2. \A j \in 1..i : g[j] = f[j]
      BY <2>5, <3>1
    <3> HIDE DEF f, g, p
    <3> QED
      BY <3>2 DEF Prefix
  <2>7. \A i \in 1..m : i \in Stops(t, g) <=> i \in Stops(t, f)
    <3> SUFFICES ASSUME NEW i \in 1..m PROVE i \in Stops(t, g) <=> i \in Stops(t, f)
      OBVIOUS
    <3>1. i \in DOMAIN f /\ i \in DOMAIN g /\ g[i] = f[i] /\ Prefix(g, i) = Prefix(f, i)
      BY <1>2, <2>5, <2>6
    <3> HIDE DEF f, g, p
    <3> QED
      BY <3>1 DEF Stops
  <2>8. m \in Stops(t, g) /\ Stops(t, g) \subseteq 1..Len(p) /\ \A i \in Stops(t, g) : m <= i
    <3>1. Stops(t, g) \subseteq 1..Len(p)
      BY <1>2 DEF Stops
    <3>2. m \in 1..m
      BY <1>2, <2>1
    <3>3. \A i \in Stops(t, g) : ~(i < m)
      <4> SUFFICES ASSUME NEW i \in Stops(t, g), i < m PROVE FALSE
        OBVIOUS
      <4>1. i \in 1..m
        BY <1>2, <2>1, <3>1
      <4>2. m <= i
        BY <2>2, <2>7, <4>1
      <4> QED
        BY <1>2, <2>1, <4>1, <4>2
    <3> HIDE DEF f, g, p
    <3> QED
      BY <1>2, <2>1, <2>7, <3>1, <3>2, <3>3
  <2>9. Min(Stops(t, g)) = m /\ Stops(t, g) # {}
    <3>1. Stops(t, g) \subseteq Nat
      BY <1>2, <2>8
    <3> QED
      BY <2>8, <3>1, MinIs
  <2>10. g[m] = f[m]
    BY <1>2, <1>3, <2>1, <2>3
  <2> QED
    BY <1>4, <1>6, <2>9, <2>10, Zenon DEF m
<1> QED
  BY <1>5, <1>6

\* An if that came to a block still comes to it.
LEMMA BranchMore ==
  ASSUME NEW t, NEW b, NEW c, More(t, b, c), NEW e \in Expressions, e.op = "if",
         NEW ready \in BOOLEAN, Branch(b, e, ready) # Panic
  PROVE  Branch(c, e, ready) = Branch(b, e, ready)
<1> DEFINE S == Decisive(b, e, ready)
           U == Decisive(c, e, ready)
           v(d, i) == d.expr[e.cases[i].cond, ready]
<1>1. /\ e.else \in Expressions
      /\ \A i \in DOMAIN e.cases :
           e.cases[i].cond \in Expressions /\ e.cases[i].then \in Expressions
  <2>1. Parts(e) = {e.else} \cup UNION {{x.cond, x.then} : x \in Range(e.cases)}
    BY DEF Parts
  <2>2. \A i \in DOMAIN e.cases : e.cases[i] \in Range(e.cases)
    BY DEF Range
  <2> QED
    BY <2>1, <2>2, ExpressionAssumption
<1>2. \A i \in DOMAIN e.cases : v(b, i) # Panic => v(c, i) = v(b, i)
  BY <1>1 DEF More
<1>3. DOMAIN e.cases \subseteq Nat /\ S \subseteq DOMAIN e.cases /\ U \subseteq DOMAIN e.cases
  <2>1. e.cases \in Seq(Range(e.cases))
    BY ExpressionAssumption
  <2>2. DOMAIN e.cases = 1..Len(e.cases)
    BY <2>1
  <2>3. S \subseteq DOMAIN e.cases /\ U \subseteq DOMAIN e.cases
    BY Zenon DEF Decisive
  <2> QED
    BY <2>2, <2>3
<1>4. \A i \in DOMAIN e.cases : /\ i \in S <=> v(b, i).type # "boolean" \/ v(b, i) = Bool(TRUE)
                                /\ i \in U <=> v(c, i).type # "boolean" \/ v(c, i) = Bool(TRUE)
  BY Zenon DEF Decisive
<1>5. Panic.type # "boolean"
  BY DEF Panic, Value
<1>6. \A i \in DOMAIN e.cases : i \notin S => i \notin U
  BY <1>2, <1>4, <1>5
<1>7. \A d : Branch(d, e, ready) =
              IF Decisive(d, e, ready) = {}
              THEN IF ready THEN d.expr[e.else, FALSE] ELSE Failure
              ELSE LET i == Min(Decisive(d, e, ready))
                   IN IF Failed(v(d, i)) THEN v(d, i)
                      ELSE IF v(d, i).type # "boolean" THEN Failure
                      ELSE d.expr[e.cases[i].then, FALSE]
  BY Zenon DEF Branch
<1> HIDE DEF S, U, v
<1>8. CASE S = {}
  <2>1. U = {}
    BY <1>3, <1>6, <1>8
  <2>2. ready => b.expr[e.else, FALSE] # Panic
    BY <1>7, <1>8, Zenon DEF S
  <2>3. ready => c.expr[e.else, FALSE] = b.expr[e.else, FALSE]
    BY <1>1, <2>2 DEF More
  <2> QED
    BY <1>7, <1>8, <2>1, <2>3, Zenon DEF S, U
<1>9. CASE S # {}
  <2> DEFINE m == Min(S)
  <2>1. m \in S /\ m \in DOMAIN e.cases /\ m \in Nat
    BY <1>3, <1>9, LeastIsMin
  <2>2. \A i \in S : m <= i
    <3>1. \E k \in S : \A i \in S : k <= i
      BY <1>3, <1>9, Least
    <3> QED
      BY <3>1, Zenon DEF Min
  <2> HIDE DEF m
  <2>3. v(b, m) # Panic
    BY <1>7, <1>9, PanicFailed, Zenon DEF m, S
  <2>4. v(c, m) = v(b, m)
    BY <1>2, <2>1, <2>3
  <2>5. m \in U
    BY <1>4, <2>1, <2>4
  <2>6. \A i \in U : i \in S
    BY <1>3, <1>6
  <2>7. Min(U) = m /\ U # {}
    BY <1>3, <2>2, <2>5, <2>6, MinIs
  <2>8. CASE Failed(v(b, m)) \/ v(b, m).type # "boolean"
    BY <1>7, <1>9, <2>4, <2>7, <2>8, Zenon DEF m, S, U
  <2>9. CASE ~Failed(v(b, m)) /\ v(b, m).type = "boolean"
    <3>1. b.expr[e.cases[m].then, FALSE] # Panic
      BY <1>7, <1>9, <2>9, Zenon DEF m, S
    <3>2. c.expr[e.cases[m].then, FALSE] = b.expr[e.cases[m].then, FALSE]
      BY <1>1, <2>1, <3>1 DEF More
    <3> QED
      BY <1>7, <1>9, <2>4, <2>7, <2>9, <3>2, Zenon DEF m, S, U
  <2> QED
    BY <2>8, <2>9
<1> QED
  BY <1>8, <1>9

LEMMA ExprMore ==
  ASSUME NEW t, NEW b, NEW c, More(t, b, c), NEW chk, NEW e \in Expressions,
         NEW ready \in BOOLEAN, EvalExpr(t, chk, b, e, ready) # Panic,
         e.op = "path" => LET l == Lookup(t, b, e.path)
                          IN ~Failed(l) => l.at \in DOMAIN t
  PROVE  EvalExpr(t, chk, c, e, ready) = EvalExpr(t, chk, b, e, ready)
<1>1. CASE e.op = "value"
  BY <1>1 DEF EvalExpr
<1>2. CASE e.op = "path"
  <2> DEFINE l == Lookup(t, b, e.path)
  <2>1. \A d : EvalExpr(t, chk, d, e, ready) =
               LET m == Lookup(t, d, e.path)
               IN IF Failed(m) THEN m ELSE WithGeneration(d.node[m.at], m.gen)
    BY <1>2 DEF EvalExpr
  <2>2. Lookup(t, b, e.path) # Panic
    BY <2>1, PanicFailed, Zenon
  <2>3. Lookup(t, c, e.path) = l
    BY <1>2, <2>2, LookupMore DEF PathExprs
  <2>4. ~Failed(l) => b.node[l.at] # Panic
    <3>1. \A gen : WithGeneration(Panic, gen) = Panic
      BY PanicFailed DEF WithGeneration
    <3> QED
      BY <2>1, <3>1, Zenon
  <2>5. ~Failed(l) => c.node[l.at] = b.node[l.at]
    BY <1>2, <2>4 DEF More
  <2> HIDE DEF l
  <2> QED
    BY <2>1, <2>3, <2>5, Zenon DEF l
<1>3. CASE e.op \in {"negate", "str"}
  <2>1. e.arg \in Expressions
    BY <1>3, ExpressionAssumption DEF Parts
  <2>2. b.expr[e.arg, ready] # Panic
    BY <1>3, PanicFailed DEF EvalExpr
  <2>3. c.expr[e.arg, ready] = b.expr[e.arg, ready]
    BY <2>1, <2>2 DEF More
  <2> QED
    BY <1>3, <2>3 DEF EvalExpr
<1>4. CASE e.op = "if"
  BY <1>4, BranchMore DEF EvalExpr
<1>5. CASE e.op \notin {"value", "path", "negate", "str", "if"}
  <2>1. e.left \in Expressions /\ e.right \in Expressions
    <3>1. e.left \in Parts(e) /\ e.right \in Parts(e)
      BY <1>5 DEF Parts
    <3> QED
      BY <3>1, ExpressionAssumption
  <2> DEFINE l(d) == d.expr[e.left, ready]
             r(d) == d.expr[e.right, ready]
  <2>2. \A d : EvalExpr(t, chk, d, e, ready) = Apply(chk, e.op, l(d), r(d))
    BY <1>5 DEF EvalExpr
  <2>3. \A x, y : /\ Failed(x) => Apply(chk, e.op, x, y) = x
                  /\ ~Failed(x) /\ Failed(y) => Apply(chk, e.op, x, y) = y
    BY Zenon DEF Apply
  <2>4. l(b) # Panic => l(c) = l(b)
    BY <2>1 DEF More
  <2>5. r(b) # Panic => r(c) = r(b)
    BY <2>1 DEF More
  <2> HIDE DEF l, r
  <2>6. l(b) # Panic
    <3> SUFFICES ASSUME l(b) = Panic PROVE FALSE
      OBVIOUS
    <3>1. EvalExpr(t, chk, b, e, ready) = Apply(chk, e.op, Panic, r(b))
      BY <2>2
    <3>2. Apply(chk, e.op, Panic, r(b)) = Panic
      BY <2>3, PanicFailed
    <3> QED
      BY <3>1, <3>2
  <2>7. CASE Failed(l(b))
    <3>1. /\ EvalExpr(t, chk, b, e, ready) = l(b)
          /\ EvalExpr(t, chk, c, e, ready) = Apply(chk, e.op, l(b), r(c))
      BY <2>2, <2>3, <2>4, <2>6, <2>7
    <3>2. Apply(chk, e.op, l(b), r(c)) = l(b)
      BY <2>3, <2>7
    <3> QED
      BY <3>1, <3>2
  <2>8. CASE ~Failed(l(b))
    <3>1. r(b) # Panic
      BY <2>2, <2>3, <2>8, PanicFailed, Zenon
    <3> QED
      BY <2>2, <2>4, <2>5, <2>6, <3>1, Zenon
  <2> QED
    BY <2>7, <2>8
<1> QED
  BY <1>1, <1>2, <1>3, <1>4, <1>5

\* A path that leads somewhere leads to a node of the tree.
LEMMA LookupNode ==
  ASSUME NEW t \in Trees, NEW b, NEW e \in PathExprs, ~Failed(Lookup(t, b, e.path))
  PROVE  Lookup(t, b, e.path).at \in DOMAIN t
<1> DEFINE p == e.path
           f == NamesAlong(b, p)
<1>1. p \in Seq(Range(p))
  BY ExpressionAssumption DEF PathExprs
<1>2. DOMAIN f = 1..Len(p) /\ Len(p) \in Nat
  BY <1>1 DEF NamesAlong
<1>3. Stops(t, f) = {} /\ Lookup(t, b, p).at = Prefix(f, Len(p))
  BY DEF Lookup, Failed, Failure, Value, Node
<1>4. CASE Len(p) = 0
  <2>1. Prefix(f, 0) = <<>>
    BY DEF Prefix
  <2> QED
    BY <1>3, <1>4, <2>1, TreeAssumption
<1>5. CASE Len(p) # 0
  <2>1. Len(p) \in DOMAIN f
    BY <1>2, <1>5
  <2> HIDE DEF f, p
  <2> QED
    BY <1>3, <2>1 DEF Stops, p
<1> QED
  BY <1>4, <1>5

LEMMA LevelMore ==
  ASSUME NEW t \in Trees, NEW chk, NEW heard, NEW b, NEW c, More(t, b, c)
  PROVE  More(t, Level(t, chk, heard, b), Level(t, chk, heard, c))
<1>1. ASSUME NEW n \in DOMAIN t, ComputeNode(t, heard, b, n) # Panic
      PROVE  ComputeNode(t, heard, c, n) = ComputeNode(t, heard, b, n)
  <2>1. CASE t[n].input = "script"
    <3>1. t[n].script \in Expressions
      BY <2>1, TreeAssumption DEF Scripts
    <3> QED
      BY <1>1, <2>1, <3>1 DEF ComputeNode, More
  <2>2. CASE t[n].input = "source"
    BY <1>1, <2>2 DEF ComputeNode, More
  <2>3. CASE t[n].input \notin {"script", "source"}
    BY <2>3 DEF ComputeNode
  <2> QED
    BY <2>1, <2>2, <2>3
<1>2. ASSUME NEW e \in Expressions, NEW ready \in BOOLEAN,
             EvalExpr(t, chk, b, e, ready) # Panic
      PROVE  EvalExpr(t, chk, c, e, ready) = EvalExpr(t, chk, b, e, ready)
  <2>1. e.op = "path" => e \in PathExprs
    BY DEF PathExprs
  <2> QED
    BY <1>2, <2>1, LookupNode, ExprMore
<1> QED
  BY <1>1, <1>2 DEF More, Level

\* Each level is computed from the one below it.
LEMMA LevelsAre ==
  ASSUME NEW t, NEW chk, NEW heard
  PROVE  LET L == Levels(t, chk, heard)
         IN L[0] = StackFull(t) /\ \A k \in 1..Depth : L[k] = Level(t, chk, heard, L[k - 1])
<1> DEFINE L == Levels(t, chk, heard)
<1>1. L = [k \in 0..Depth |-> IF k = 0 THEN StackFull(t) ELSE Level(t, chk, heard, L[k - 1])]
  BY LevelsEquation
<1> HIDE DEF L
<1>2. \A k \in 0..Depth :
        L[k] = IF k = 0 THEN StackFull(t) ELSE Level(t, chk, heard, L[k - 1])
  BY <1>1, Zenon
<1>3. L[0] = StackFull(t) /\ \A k \in 1..Depth : L[k] = Level(t, chk, heard, L[k - 1])
  BY <1>2, BoundAssumption
<1> QED
  BY <1>3 DEF L

LEMMA NoRoom ==
  ASSUME NEW t, NEW chk, NEW heard
  PROVE  LET L == Levels(t, chk, heard)
         IN /\ \A n \in DOMAIN t : L[0].node[n] = Panic
            /\ \A e \in Expressions, ready \in BOOLEAN : L[0].expr[e, ready] = Panic
<1> DEFINE L == Levels(t, chk, heard)
<1>1. L[0] = StackFull(t)
  BY LevelsAre
<1> HIDE DEF L
<1>2. /\ L[0].node = [n \in DOMAIN t |-> Panic]
      /\ L[0].expr = [x \in Expressions \X BOOLEAN |-> Panic]
  BY <1>1 DEF StackFull
<1> HIDE DEF Panic
<1>3. /\ \A n \in DOMAIN t : L[0].node[n] = Panic
      /\ \A e \in Expressions, ready \in BOOLEAN : L[0].expr[e, ready] = Panic
  BY <1>2
<1> QED
  BY <1>3 DEF L

Computes(t, chk, heard, below, level) ==
  /\ \A n \in DOMAIN t : level.node[n] = ComputeNode(t, heard, below, n)
  /\ \A e \in Expressions, ready \in BOOLEAN :
       level.expr[e, ready] = EvalExpr(t, chk, below, e, ready)

LEMMA LevelAt ==
  ASSUME NEW t, NEW chk, NEW heard, NEW k \in 1..Depth
  PROVE  Computes(t, chk, heard, Levels(t, chk, heard)[k - 1], Levels(t, chk, heard)[k])
<1> DEFINE L == Levels(t, chk, heard)
<1>1. L[k] = Level(t, chk, heard, L[k - 1])
  BY LevelsAre
<1> HIDE DEF L
<1>2. /\ L[k].node = [n \in DOMAIN t |-> ComputeNode(t, heard, L[k - 1], n)]
      /\ L[k].expr = [x \in Expressions \X BOOLEAN |->
                        EvalExpr(t, chk, L[k - 1], x[1], x[2])]
  BY <1>1 DEF Level
<1>3. Computes(t, chk, heard, L[k - 1], L[k])
  BY <1>2 DEF Computes
<1> QED
  BY <1>3 DEF L

LEMMA DeeperMore ==
  ASSUME NEW t \in Trees, NEW chk, NEW heard, NEW i \in 0..Depth, NEW j \in i..Depth
  PROVE  More(t, Levels(t, chk, heard)[i], Levels(t, chk, heard)[j])
<1> DEFINE L == Levels(t, chk, heard)
           Once(k) == k + 1 <= Depth => More(t, L[k], L[k + 1])
           Far(k) == i + k <= Depth => More(t, L[i], L[i + k])
<1>1. L[0] = StackFull(t) /\ \A k \in 1..Depth : L[k] = Level(t, chk, heard, L[k - 1])
  BY LevelsAre
<1>2. /\ \A m \in DOMAIN t : L[0].node[m] = Panic
      /\ \A e \in Expressions, ready \in BOOLEAN : L[0].expr[e, ready] = Panic
  BY NoRoom
<1> HIDE DEF L
<1>3. \A k \in Nat : Once(k)
  <2> DEFINE K == {k \in Nat : Once(k)}
  <2>1. 0 \in K
    <3>1. \A c : More(t, L[0], c)
      BY <1>2, Zenon DEF More
    <3> QED
      BY <3>1
  <2>2. ASSUME NEW k \in Nat, k \in K PROVE k + 1 \in K
    <3> SUFFICES ASSUME (k + 1) + 1 <= Depth PROVE More(t, L[k + 1], L[(k + 1) + 1])
      OBVIOUS
    <3>1. /\ k + 1 \in 1..Depth /\ (k + 1) - 1 = k
          /\ (k + 1) + 1 \in 1..Depth /\ ((k + 1) + 1) - 1 = k + 1
      BY BoundAssumption
    <3>2. More(t, L[k], L[k + 1])
      BY <2>2, BoundAssumption
    <3>3. L[k + 1] = Level(t, chk, heard, L[k]) /\ L[(k + 1) + 1] = Level(t, chk, heard, L[k + 1])
      BY <1>1, <3>1
    <3> QED
      BY <3>2, <3>3, LevelMore
  <2> HIDE DEF Once
  <2> QED
    BY <2>1, <2>2, Induction
<1>4. \A k \in Nat : Far(k)
  <2> DEFINE K == {k \in Nat : Far(k)}
  <2>1. 0 \in K
    <3>1. i + 0 = i
      OBVIOUS
    <3>2. More(t, L[i], L[i])
      BY DEF More
    <3> QED
      BY <3>1, <3>2
  <2>2. ASSUME NEW k \in Nat, k \in K PROVE k + 1 \in K
    <3> SUFFICES ASSUME i + (k + 1) <= Depth PROVE More(t, L[i], L[i + (k + 1)])
      OBVIOUS
    <3>1. i + k \in Nat /\ i + (k + 1) = (i + k) + 1 /\ i + k <= Depth
      BY BoundAssumption
    <3>2. More(t, L[i], L[i + k]) /\ More(t, L[i + k], L[(i + k) + 1])
      BY <1>3, <2>2, <3>1
    <3> QED
      BY <3>1, <3>2 DEF More
  <2> HIDE DEF Far
  <2> QED
    BY <2>1, <2>2, Induction
<1>5. More(t, L[i], L[j])
  <2>1. j - i \in Nat /\ i + (j - i) = j /\ j <= Depth
    BY BoundAssumption
  <2> QED
    BY <1>4, <2>1
<1> QED
  BY <1>5 DEF L

\* What a stack of i calls has room to compute is the same on every larger one: the bound
\* on the depth of calls decides which scripts are too deep, and nothing else.
THEOREM DeeperIsSame ==
  ASSUME NEW t \in Trees, NEW chk, NEW heard, NEW i \in 0..Depth, NEW j \in i..Depth,
         NEW n \in DOMAIN t, Levels(t, chk, heard)[i].node[n] # Panic
  PROVE  Levels(t, chk, heard)[j].node[n] = Levels(t, chk, heard)[i].node[n]
<1>1. More(t, Levels(t, chk, heard)[i], Levels(t, chk, heard)[j])
  BY DeeperMore
<1> QED
  BY <1>1 DEF More

-----------------------------------------------------------------------------
\* A value that is reported gets the generation of its event.
LEMMA Stamped ==
  ASSUME NEW t \in Trees, NEW n \in Sources(t), NEW v \in t[n].reports, NEW g \in Nat
  PROVE WithGeneration(v, g).gen = g
<1>1. v = Value(v.type, v.text, v.num, 0) /\ ~Failed(v)
  BY TreeAssumption DEF Given, Failed, Operators
<1>2. v.gen = 0
  BY <1>1 DEF Value
<1>3. Max({0, g}) = g
  BY DEF Max
<1>4. WithGeneration(v, g) = [v EXCEPT !.gen = Max({v.gen, g})]
  BY <1>1 DEF WithGeneration
<1>5. v = [type |-> v.type, text |-> v.text, num |-> v.num, gen |-> 0]
  BY <1>1, Zenon DEF Value
<1>6. \A x, y, z, m : [[type |-> x, text |-> y, num |-> z, gen |-> 0] EXCEPT !.gen = m].gen = m
  OBVIOUS
<1> QED
  BY <1>2, <1>3, <1>4, <1>5, <1>6


\* The types hold at first, and steps keep them.
LEMMA InitType == Init => TypeOK
<1> SUFFICES ASSUME Init PROVE TypeOK
  OBVIOUS
<1>1. tree \in Trees /\ generation = 0 /\ dropped = {} /\ checked \in Builds /\ panicked = FALSE
  BY DEF Init
<1>2. DOMAIN cache = Sources(tree) /\ DOMAIN shown = Sinks(tree)
  BY DEF Init
<1>3. \A s \in DOMAIN cache : cache[s] = Nothing
  BY DEF Init
<1>4. sinksOf \in [Sources(tree) -> SUBSET Sinks(tree)]
  BY DEF Init, MapInputsToOutputs
<1>5. generation \in 0..MaxEvents /\ dropped \subseteq Sinks(tree)
  BY <1>1, BoundAssumption
<1>6. \A s \in DOMAIN cache : s \in {n \in DOMAIN cache : cache[n] = Nothing}
  BY <1>3
<1> HIDE DEF Init
<1> QED
  BY <1>1, <1>2, <1>3, <1>4, <1>5, <1>6, Zenon DEF TypeOK

LEMMA NextType == TypeOK /\ [Next]_vars => TypeOK'
<1> SUFFICES ASSUME TypeOK, [Next]_vars PROVE TypeOK'
  OBVIOUS
<1> USE DEF TypeOK
<1>1. ASSUME NEW src \in Sources(tree), NEW v \in tree[src].reports, HandleEvent(src, v)
      PROVE TypeOK'
  <2> DEFINE new == WithGeneration(v, generation + 1)
  <2>1. /\ UNCHANGED <<tree, sinksOf, checked>> /\ generation' = generation + 1
        /\ generation \in Nat /\ generation' \in 0..MaxEvents
        /\ cache' = [cache EXCEPT ![src] = new]
    BY <1>1, BoundAssumption DEF HandleEvent, evalVars
  <2>2. dropped' \subseteq Sinks(tree') /\ panicked' \in BOOLEAN /\ DOMAIN shown' = Sinks(tree')
    <3>1. sinksOf[src] \subseteq Sinks(tree)
      OBVIOUS
    <3> QED
      BY <1>1, <2>1, <3>1 DEF HandleEvent
  <2>3. new.gen = generation + 1
    <3>1. tree \in Trees /\ generation + 1 \in Nat
      BY <2>1
    <3> QED
      BY <3>1, Stamped
  <2> HIDE DEF new
  <2>4. cache'[src] = new /\ \A s \in DOMAIN cache \ {src} : cache'[s] = cache[s]
    BY <2>1
  <2>5. DOMAIN cache' = DOMAIN cache /\ DOMAIN cache = Sources(tree)
    BY <2>1
  <2>6. ASSUME NEW s \in DOMAIN cache', cache'[s] # Nothing
        PROVE \E u \in tree'[s].reports, g \in 1..generation' : cache'[s] = WithGeneration(u, g)
    <3>1. CASE s = src
      BY <2>1, <2>4, <3>1 DEF new
    <3>2. CASE s # src
      <4>1. cache'[s] = cache[s] /\ s \in DOMAIN cache
        BY <2>4, <2>5, <3>2
      <4>2. PICK u \in tree[s].reports, g \in 1..generation : cache[s] = WithGeneration(u, g)
        BY <2>6, <4>1
      <4> QED
        BY <2>1, <4>1, <4>2
    <3> QED
      BY <3>1, <3>2
  <2>7. ASSUME NEW s \in DOMAIN cache, cache[s] # Nothing PROVE cache[s].gen \in 1..generation
    <3>1. PICK u \in tree[s].reports, g \in 1..generation : cache[s] = WithGeneration(u, g)
      BY <2>7
    <3> QED
      BY <2>1, <2>5, <3>1, Stamped
  <2>8. ASSUME NEW s \in DOMAIN cache', NEW r \in DOMAIN cache',
               cache'[s] # Nothing, cache'[r] # Nothing, s # r
        PROVE cache'[s].gen # cache'[r].gen
    <3>1. CASE s # src /\ r # src
      BY <2>4, <2>5, <2>8, <3>1
    <3>2. CASE s = src
      BY <2>1, <2>3, <2>4, <2>5, <2>7, <2>8, <3>2
    <3>3. CASE r = src
      BY <2>1, <2>3, <2>4, <2>5, <2>7, <2>8, <3>3
    <3> QED
      BY <3>1, <3>2, <3>3
  <2> QED
    BY <2>1, <2>2, <2>5, <2>6, <2>8
<1>2. CASE RefuseEvent
  BY <1>2, BoundAssumption DEF RefuseEvent, evalVars
<1>3. CASE UNCHANGED vars
  BY <1>3 DEF vars, evalVars
<1> QED
  BY <1>1, <1>2, <1>3 DEF Next

\* Values in the cache carry the number of their event, and no two of them the same.
THEOREM TypeCorrect == Spec => []TypeOK
  BY InitType, NextType, PTL DEF Spec

-----------------------------------------------------------------------------
\* The sinks kept with the sources are those of the tree.
FlowKept == sinksOf = MapInputsToOutputs(tree)
FlowInv == TypeOK /\ FlowKept

LEMMA InitFlow == Init => FlowInv /\ ShownIsCurrent
<1> SUFFICES ASSUME Init PROVE FlowKept /\ ShownIsCurrent
  BY InitType DEF FlowInv
<1>1. FlowKept
  BY DEF Init, FlowKept
<1>2. \A s \in DOMAIN shown : shown[s] = Nothing
  BY DEF Init
<1> QED
  BY <1>1, <1>2 DEF ShownIsCurrent

LEMMA NextFlow == FlowInv /\ [Next]_vars => FlowInv'
<1> SUFFICES ASSUME FlowInv, [Next]_vars PROVE FlowKept'
  BY NextType DEF FlowInv
<1>1. UNCHANGED <<tree, sinksOf>>
  BY DEF Next, HandleEvent, RefuseEvent, vars, evalVars
<1> QED
  BY <1>1 DEF FlowInv, FlowKept

\* After an event the sinks it leads to have been given what they compute to, or have not
\* been answered; what the others compute to has not changed.
LEMMA EventCurrent ==
  ASSUME FlatLookups, FixedDefaults, FlowInv, ShownIsCurrent,
         NEW src \in Sources(tree), NEW v \in tree[src].reports, HandleEvent(src, v)
  PROVE ShownIsCurrent'
<1>1. /\ tree \in Trees /\ tree' = tree /\ checked' = checked
      /\ DOMAIN cache = Sources(tree) /\ DOMAIN shown = Sinks(tree)
      /\ cache' = [cache EXCEPT ![src] = WithGeneration(v, generation + 1)]
  BY DEF HandleEvent, evalVars, FlowInv, TypeOK
<1>2. PICK old : old = cache
  OBVIOUS
<1>3. PICK new : new = cache'
  OBVIOUS
<1>4. \A n \in Sources(tree) \ {src} : old[n] = new[n]
  BY <1>1, <1>2, <1>3
<1>5. sinksOf[src] = Reach(Edges(tree), {src}) \cap Sinks(tree)
  BY DEF FlowInv, FlowKept, MapInputsToOutputs
<1>6. ASSUME NEW s \in Sinks(tree), s \notin sinksOf[src]
      PROVE Compute(tree, checked, old, s) = Compute(tree, checked, new, s)
  <2>1. s \in DOMAIN tree /\ s \notin Reach(Edges(tree), {src})
    BY <1>5, <1>6 DEF Sinks
  <2>2. PICK t, chk : t = tree /\ chk = checked
    OBVIOUS
  <2>3. t \in Trees /\ src \in Sources(t) /\ s \in DOMAIN t /\ s \notin Reach(Edges(t), {src})
    BY <1>1, <2>1, <2>2
  <2>4. \A n \in Sources(t) \ {src} : old[n] = new[n]
    BY <1>4, <2>2
  <2>5. Compute(t, chk, old, s) = Compute(t, chk, new, s)
    BY <2>3, <2>4, Unaffected
  <2> QED
    BY <2>2, <2>5
<1> DEFINE value == [s \in sinksOf[src] |-> Compute(tree, checked, new, s)]
           Ends(how) == \E s \in sinksOf[src] : value[s].type = how
<1>7. \/ panicked' = TRUE
      \/ dropped' = dropped \cup sinksOf[src] /\ UNCHANGED <<shown, panicked>>
      \/ /\ dropped' = dropped \ sinksOf[src] /\ UNCHANGED panicked
         /\ shown' = [s \in DOMAIN shown |->
                        IF s \in sinksOf[src] THEN Datum(value[s]) ELSE shown[s]]
  BY <1>3, Zenon DEF HandleEvent
<1>8. ASSUME NEW s \in DOMAIN shown', shown'[s] # Nothing, s \notin dropped', ~panicked'
      PROVE shown'[s] = Datum(Compute(tree, checked, new, s))
  <2>1. s \in Sinks(tree)
    BY <1>1, <1>7, <1>8
  <2>2. CASE s \in sinksOf[src]
    BY <1>1, <1>7, <1>8, <2>1, <2>2
  <2>3. CASE s \notin sinksOf[src]
    <3>1. shown'[s] = shown[s] /\ s \notin dropped /\ ~panicked
      <4>1. CASE dropped' = dropped \cup sinksOf[src] /\ UNCHANGED <<shown, panicked>>
        BY <1>8, <4>1
      <4>2. CASE /\ dropped' = dropped \ sinksOf[src] /\ UNCHANGED panicked
                 /\ shown' = [x \in DOMAIN shown |->
                                IF x \in sinksOf[src] THEN Datum(value[x]) ELSE shown[x]]
        <5> HIDE DEF value
        <5> QED
          BY <1>1, <1>8, <2>1, <2>3, <4>2
      <4> QED
        BY <1>7, <1>8, <4>1, <4>2
    <3>2. shown[s] = Datum(Compute(tree, checked, old, s))
      BY <1>1, <1>2, <1>8, <2>1, <3>1 DEF ShownIsCurrent
    <3> QED
      BY <1>6, <2>1, <2>3, <3>1, <3>2
  <2> QED
    BY <2>2, <2>3
<1> QED
  BY <1>1, <1>3, <1>8 DEF ShownIsCurrent

LEMMA NextCurrent ==
  ASSUME FlatLookups, FixedDefaults
  PROVE FlowInv /\ ShownIsCurrent /\ [Next]_vars => ShownIsCurrent'
<1> SUFFICES ASSUME FlowInv, ShownIsCurrent, [Next]_vars PROVE ShownIsCurrent'
  OBVIOUS
<1>1. CASE RefuseEvent
  BY <1>1 DEF RefuseEvent, evalVars, ShownIsCurrent
<1>2. CASE UNCHANGED vars
  BY <1>2 DEF vars, evalVars, ShownIsCurrent
<1> QED
  BY <1>1, <1>2, EventCurrent DEF Next

\* In trees without lookups inside lookups, and whose defaults change with no source, a
\* sink that was given a value and has not been left without an answer since shows what
\* it would compute to now: an event computes all the sinks that it can change.
THEOREM AlwaysCurrent == FlatLookups /\ FixedDefaults /\ Spec => []ShownIsCurrent
<1> SUFFICES ASSUME FlatLookups, FixedDefaults PROVE Spec => []ShownIsCurrent
  OBVIOUS
<1>1. FlowInv /\ ShownIsCurrent /\ [Next]_vars => FlowInv' /\ ShownIsCurrent'
  BY NextFlow, NextCurrent
<1> QED
  BY <1>1, InitFlow, PTL DEF Spec

-----------------------------------------------------------------------------
\* What an if computes to.  The levels of the tree as it is now:
Now(k) == Levels(tree, checked, cache)[k]

LEMMA NowLevels ==
  ASSUME tree \in Trees
  PROVE  /\ \A n : Computed(n) = Now(Depth).node[n]
         /\ \A e : Evaluated(e) = Now(Depth).expr[e, TRUE]
         /\ \A n \in DOMAIN tree : Now(0).node[n] = Panic
         /\ \A e \in Expressions, ready \in BOOLEAN : Now(0).expr[e, ready] = Panic
         /\ \A k \in 1..Depth :
              /\ \A n \in DOMAIN tree : Now(k).node[n] = ComputeNode(tree, cache, Now(k - 1), n)
              /\ \A e \in Expressions, ready \in BOOLEAN :
                   Now(k).expr[e, ready] = EvalExpr(tree, checked, Now(k - 1), e, ready)
<1>1. PICK t, chk, heard : t = tree /\ chk = checked /\ heard = cache
  OBVIOUS
<1>2. \A k : Now(k) = Levels(t, chk, heard)[k]
  BY <1>1 DEF Now
<1>3. /\ \A n \in DOMAIN t : Levels(t, chk, heard)[0].node[n] = Panic
      /\ \A e \in Expressions, ready \in BOOLEAN : Levels(t, chk, heard)[0].expr[e, ready] = Panic
  BY NoRoom
<1>4. \A k \in 1..Depth :
        Computes(t, chk, heard, Levels(t, chk, heard)[k - 1], Levels(t, chk, heard)[k])
  BY LevelAt
<1>5. \A k \in 1..Depth : Computes(tree, checked, cache, Now(k - 1), Now(k))
  BY <1>1, <1>2, <1>4
<1>6. /\ \A n : Computed(n) = Now(Depth).node[n]
      /\ \A e : Evaluated(e) = Now(Depth).expr[e, TRUE]
  BY DEF Computed, Evaluated, Compute, Eval, Now
<1> QED
  BY <1>1, <1>2, <1>3, <1>5, <1>6, Zenon DEF Computes

\* Deeper levels take back nothing that is computed.
LEMMA NowMore ==
  ASSUME tree \in Trees, NEW k \in 0..Depth
  PROVE  /\ \A n \in DOMAIN tree : Now(k).node[n] # Panic => Now(Depth).node[n] = Now(k).node[n]
         /\ \A e \in Expressions, ready \in BOOLEAN :
              Now(k).expr[e, ready] # Panic => Now(Depth).expr[e, ready] = Now(k).expr[e, ready]
<1>1. PICK t, chk, heard : t = tree /\ chk = checked /\ heard = cache
  OBVIOUS
<1>2. Now(k) = Levels(t, chk, heard)[k] /\ Now(Depth) = Levels(t, chk, heard)[Depth]
  BY <1>1 DEF Now
<1>3. t \in Trees /\ Depth \in k..Depth
  BY <1>1, BoundAssumption
<1>4. More(t, Levels(t, chk, heard)[k], Levels(t, chk, heard)[Depth])
  BY <1>3, DeeperMore
<1>5. More(tree, Now(k), Now(Depth))
  BY <1>1, <1>2, <1>4
<1> QED
  BY <1>5 DEF More

\* What an expression is made of.
LEMMA Operands ==
  ASSUME NEW e \in Expressions
  PROVE  /\ e.op \in {"str", "negate"} => e.arg \in Parts(e) /\ e.arg \in Expressions
         /\ e.op \notin {"value", "path", "negate", "str", "if"} =>
              /\ e.left \in Parts(e) /\ e.left \in Expressions
              /\ e.right \in Parts(e) /\ e.right \in Expressions
         /\ e.op = "if" =>
              /\ e.else \in Parts(e) /\ e.else \in Expressions
              /\ DOMAIN e.cases \subseteq Nat
              /\ \A i \in DOMAIN e.cases :
                   /\ e.cases[i] \in Range(e.cases)
                   /\ e.cases[i].cond \in Parts(e) /\ e.cases[i].cond \in Expressions
                   /\ e.cases[i].cond.op # "if"
                   /\ e.cases[i].then \in Parts(e) /\ e.cases[i].then \in Expressions
<1>1. CASE e.op \in {"str", "negate"}
  BY <1>1, ExpressionAssumption DEF Parts
<1>2. CASE e.op \notin {"value", "path", "negate", "str", "if"}
  BY <1>2, ExpressionAssumption DEF Parts
<1>3. CASE e.op = "if"
  <2>1. Parts(e) = {e.else} \cup UNION {{c.cond, c.then} : c \in Range(e.cases)}
    BY <1>3 DEF Parts
  <2>2. \A i \in DOMAIN e.cases : e.cases[i] \in Range(e.cases)
    BY DEF Range
  <2>3. e.cases \in Seq(Range(e.cases))
    BY <1>3, ExpressionAssumption
  <2>4. DOMAIN e.cases \subseteq Nat
    BY <2>3
  <2>5. \A c \in Range(e.cases) : c.cond \in Parts(e) /\ c.then \in Parts(e)
    BY <2>1
  <2>6. \A c \in Range(e.cases) : c.cond.op # "if"
    BY <2>5, ExpressionAssumption
  <2>7. \A d \in Parts(e) : d \in Expressions
    BY ExpressionAssumption
  <2> QED
    BY <1>3, <2>1, <2>2, <2>4, <2>5, <2>6, <2>7
<1>4. CASE e.op \in {"value", "path"}
  BY <1>4
<1> QED
  BY <1>1, <1>2, <1>3, <1>4

\* What is no if computes the same in a script and in a block.
ReadyAlike(k) ==
  \A e \in Expressions : e.op # "if" => Now(k).expr[e, TRUE] = Now(k).expr[e, FALSE]

\* By induction over the levels; an operand of what is no if is no if.
LEMMA ReadyMatters ==
  ASSUME tree \in Trees, NEW k \in 0..Depth, NEW e \in Expressions, e.op # "if"
  PROVE  Now(k).expr[e, TRUE] = Now(k).expr[e, FALSE]
<1> DEFINE Is(m) == m <= Depth => ReadyAlike(m)
           K == {m \in Nat : Is(m)}
<1>1. 0 \in K
  <2>1. ReadyAlike(0)
    BY NowLevels DEF ReadyAlike
  <2> QED
    BY <2>1
<1>2. ASSUME NEW m \in Nat, m \in K PROVE m + 1 \in K
  <2> SUFFICES ASSUME m + 1 <= Depth PROVE ReadyAlike(m + 1)
    OBVIOUS
  <2>0. ReadyAlike(m)
    BY <1>2, BoundAssumption
  <2> SUFFICES ASSUME NEW d \in Expressions, d.op # "if"
               PROVE  Now(m + 1).expr[d, TRUE] = Now(m + 1).expr[d, FALSE]
    BY DEF ReadyAlike
  <2>1. m + 1 \in 1..Depth /\ (m + 1) - 1 = m /\ m <= Depth
    BY BoundAssumption
  <2>2. \A ready \in BOOLEAN :
          Now(m + 1).expr[d, ready] = EvalExpr(tree, checked, Now(m), d, ready)
    BY <2>1, NowLevels
  <2>3. \A c \in Parts(d) : Now(m).expr[c, TRUE] = Now(m).expr[c, FALSE]
    <3>1. \A c \in Parts(d) : c \in Expressions /\ c.op # "if"
      BY ExpressionAssumption
    <3> QED
      BY <2>0, <3>1 DEF ReadyAlike
  <2>4. EvalExpr(tree, checked, Now(m), d, TRUE) = EvalExpr(tree, checked, Now(m), d, FALSE)
    <3>1. CASE d.op \in {"value", "path"}
      BY <3>1 DEF EvalExpr
    <3>2. CASE d.op \in {"negate", "str"}
      <4>1. Now(m).expr[d.arg, TRUE] = Now(m).expr[d.arg, FALSE]
        BY <2>3, <3>2, Operands
      <4> QED
        BY <3>2, <4>1 DEF EvalExpr
    <3>3. CASE d.op \notin {"value", "path", "negate", "str"}
      <4>1. /\ Now(m).expr[d.left, TRUE] = Now(m).expr[d.left, FALSE]
            /\ Now(m).expr[d.right, TRUE] = Now(m).expr[d.right, FALSE]
        BY <2>3, <3>3, Operands
      <4> QED
        BY <3>3, <4>1 DEF EvalExpr
    <3> QED
      BY <3>1, <3>2, <3>3
  <2> QED
    BY <2>2, <2>4
<1>3. k \in Nat /\ k <= Depth
  BY BoundAssumption
<1>4. Is(k)
  <2> HIDE DEF Is
  <2> QED
    BY <1>1, <1>2, <1>3, Induction
<1> QED
  BY <1>3, <1>4 DEF ReadyAlike

-----------------------------------------------------------------------------
\* The blocks of an if are parts of it.
LEMMA BlocksAreParts ==
  ASSUME NEW e \in Expressions, e.op = "if"
  PROVE  \A d \in Blocks(e) : d \in Expressions /\ d \in Parts(e)
<1>1. Parts(e) = {e.else} \cup UNION {{c.cond, c.then} : c \in Range(e.cases)}
  BY DEF Parts
<1>2. \A d \in Blocks(e) : d \in Parts(e)
  BY <1>1 DEF Blocks
<1> QED
  BY <1>2, ExpressionAssumption

\* The blocks of an if are those of its blocks.
LEMMA BlocksEquation ==
  BlocksOf = [e \in Expressions |->
                IF e.op # "if" THEN {e} ELSE UNION {BlocksOf[d] : d \in Blocks(e)}]
<1> DEFINE Step(f, e) == IF e.op # "if" THEN {e} ELSE UNION {f[d] : d \in Blocks(e)}
           base == [e \in Expressions |-> IF e.op # "if" THEN {e} ELSE {}]
           below == [e \in Expressions |-> IF e.op # "if" THEN {} ELSE Blocks(e)]
<1>1. \A e \in Expressions : \A d \in below[e] : d \in Expressions /\ d \in Parts(e)
  BY BlocksAreParts
<1>2. PICK f : Collects(f, Expressions, base, below)
  <2> HIDE DEF base, below
  <2>1. Expressions \in SUBSET Expressions
    OBVIOUS
  <2> QED
    BY <1>1, <2>1, Recursion, Zenon
<1>3. ASSUME NEW e \in Expressions PROVE Collect(f, base, below, e) = Step(f, e)
  <2>1. CASE e.op # "if"
    BY <2>1 DEF Collect
  <2>2. CASE e.op = "if"
    <3>1. base[e] = {} /\ below[e] = Blocks(e)
      BY <2>2
    <3> HIDE DEF base, below
    <3> QED
      BY <2>2, <3>1, Zenon DEF Collect
  <2> QED
    BY <2>1, <2>2
<1>4. f = [e \in Expressions |-> Step(f, e)]
  <2> HIDE DEF base, below, Step
  <2> QED
    BY <1>2, <1>3, Zenon DEF Collects
<1> QED
  BY <1>4, Zenon DEF BlocksOf

\* The conditions of an if are its own and those of its blocks.
LEMMA ConditionsEquation ==
  ConditionsOf =
    [e \in Expressions |->
       IF e.op # "if" THEN {} ELSE Conditions(e) \cup UNION {ConditionsOf[d] : d \in Blocks(e)}]
<1> DEFINE Step(f, e) ==
             IF e.op # "if" THEN {} ELSE Conditions(e) \cup UNION {f[d] : d \in Blocks(e)}
           base == [e \in Expressions |-> IF e.op # "if" THEN {} ELSE Conditions(e)]
           below == [e \in Expressions |-> IF e.op # "if" THEN {} ELSE Blocks(e)]
<1>1. \A e \in Expressions : \A d \in below[e] : d \in Expressions /\ d \in Parts(e)
  BY BlocksAreParts
<1>2. PICK f : Collects(f, Expressions, base, below)
  <2> HIDE DEF base, below
  <2>1. Expressions \in SUBSET Expressions
    OBVIOUS
  <2> QED
    BY <1>1, <2>1, Recursion, Zenon
<1>3. ASSUME NEW e \in Expressions PROVE Collect(f, base, below, e) = Step(f, e)
  <2>1. CASE e.op # "if"
    BY <2>1 DEF Collect
  <2>2. CASE e.op = "if"
    <3>1. base[e] = Conditions(e) /\ below[e] = Blocks(e)
      BY <2>2
    <3> HIDE DEF base, below
    <3> QED
      BY <2>2, <3>1, Zenon DEF Collect
  <2> QED
    BY <2>1, <2>2
<1>4. f = [e \in Expressions |-> Step(f, e)]
  <2> HIDE DEF base, below, Step
  <2> QED
    BY <1>2, <1>3, Zenon DEF Collects
<1> QED
  BY <1>4, Zenon DEF ConditionsOf

\* The block that an if takes is one of its blocks.
LEMMA TakenIsBlock ==
  ASSUME NEW e \in Expressions, e.op = "if" PROVE Taken(e) \in Blocks(e)
<1>1. CASE Holding(e) = {}
  BY <1>1 DEF Taken, Blocks
<1>2. CASE Holding(e) # {}
  <2>1. Holding(e) \subseteq DOMAIN e.cases /\ DOMAIN e.cases \subseteq Nat
    <3>1. Holding(e) \subseteq DOMAIN e.cases
      BY Zenon DEF Holding
    <3> QED
      BY <3>1, Operands
  <2>2. Min(Holding(e)) \in DOMAIN e.cases
    <3>1. Holding(e) \subseteq Nat
      BY <2>1
    <3>2. Min(Holding(e)) \in Holding(e)
      BY <1>2, <3>1, LeastIsMin
    <3> QED
      BY <2>1, <3>2
  <2>3. e.cases[Min(Holding(e))] \in Range(e.cases)
    BY <2>2, Operands
  <2> QED
    BY <1>2, <2>3 DEF Taken, Blocks
<1> QED
  BY <1>1, <1>2

\* The elses that are taken are those on the way from block to block.
LEMMA ElsesEquation ==
  ElsesTaken =
    [e \in Expressions |->
       IF e.op # "if" THEN {} ELSE IF Holding(e) = {} THEN {e} ELSE ElsesTaken[Taken(e)]]
<1> DEFINE Step(f, e) == IF e.op # "if" THEN {}
                         ELSE IF Holding(e) = {} THEN {e} ELSE f[Taken(e)]
           ends(e) == e.op = "if" /\ Holding(e) = {}
           goes(e) == e.op = "if" /\ Holding(e) # {}
           base == [e \in Expressions |-> IF ends(e) THEN {e} ELSE {}]
           below == [e \in Expressions |-> IF goes(e) THEN {Taken(e)} ELSE {}]
<1>1. \A e \in Expressions : \A d \in below[e] : d \in Expressions /\ d \in Parts(e)
  BY BlocksAreParts, TakenIsBlock
<1>2. PICK f : Collects(f, Expressions, base, below)
  <2> HIDE DEF base, below
  <2>1. Expressions \in SUBSET Expressions
    OBVIOUS
  <2> QED
    BY <1>1, <2>1, Recursion, Zenon
<1>3. ASSUME NEW e \in Expressions PROVE Collect(f, base, below, e) = Step(f, e)
  <2>1. CASE ends(e)
    <3>1. base[e] = {e} /\ below[e] = {}
      BY <2>1
    <3> HIDE DEF base, below
    <3> QED
      BY <2>1, <3>1 DEF Collect
  <2>2. CASE goes(e)
    <3>1. base[e] = {} /\ below[e] = {Taken(e)}
      BY <2>2
    <3> HIDE DEF base, below
    <3>2. Collect(f, base, below, e) = f[Taken(e)]
      BY <3>1 DEF Collect
    <3> QED
      BY <2>2, <3>2, Zenon
  <2>3. CASE e.op # "if"
    <3>1. base[e] = {} /\ below[e] = {}
      BY <2>3
    <3> HIDE DEF base, below
    <3> QED
      BY <2>3, <3>1 DEF Collect
  <2> QED
    BY <2>1, <2>2, <2>3
<1>4. f = [e \in Expressions |-> Step(f, e)]
  <2> HIDE DEF base, below, Step
  <2> QED
    BY <1>2, <1>3, Zenon DEF Collects
<1> QED
  BY <1>4, Zenon DEF ElsesTaken

\* The numbers of the levels.
LEMMA Counting ==
  /\ Depth \in 0..Depth
  /\ \A k \in 1..Depth : k - 1 \in 0..Depth /\ k \in 0..Depth
  /\ Depth # 0 => Depth \in 1..Depth
  /\ Depth # 0 /\ Depth - 1 # 0 => Depth - 1 \in 1..Depth
BY BoundAssumption

\* An if whose conditions are computed takes the block that they say, unless it has to be
\* ready for it and is not, or the stack is full.
LEMMA BranchTakes ==
  ASSUME tree \in Trees, NEW e \in Expressions, e.op = "if", NEW ready \in BOOLEAN,
         \A i \in DOMAIN e.cases : Evaluated(e.cases[i].cond).type = "boolean",
         NEW k \in 1..Depth, Now(k).expr[e, ready] # Panic
  PROVE  Now(k).expr[e, ready] =
           IF Holding(e) = {} /\ ~ready THEN Failure ELSE Now(k - 1).expr[Taken(e), FALSE]
<1> DEFINE b == Now(k - 1)
           v(i) == b.expr[e.cases[i].cond, ready]
           w(i) == Evaluated(e.cases[i].cond)
           S == Decisive(b, e, ready)
           H == Holding(e)
<1>1. k - 1 \in 0..Depth
  BY Counting
<1>2. Now(k).expr[e, ready] = Branch(b, e, ready)
  <2>1. Now(k).expr[e, ready] = EvalExpr(tree, checked, b, e, ready)
    BY NowLevels
  <2> QED
    BY <2>1 DEF EvalExpr
<1>3. ASSUME NEW i \in DOMAIN e.cases PROVE v(i) = Panic \/ v(i) = w(i)
  <2>1. e.cases[i].cond \in Expressions /\ e.cases[i].cond.op # "if"
    BY Operands
  <2>2. w(i) = Now(Depth).expr[e.cases[i].cond, ready]
    <3>1. w(i) = Now(Depth).expr[e.cases[i].cond, TRUE]
      BY NowLevels
    <3>2. Depth \in 0..Depth
      BY Counting
    <3>3. Now(Depth).expr[e.cases[i].cond, TRUE] = Now(Depth).expr[e.cases[i].cond, FALSE]
      BY <2>1, <3>2, ReadyMatters
    <3> QED
      BY <3>1, <3>3
  <2> QED
    BY <1>1, <2>1, <2>2, NowMore
<1>4. \A i \in DOMAIN e.cases : /\ i \in S <=> v(i).type # "boolean" \/ v(i) = Bool(TRUE)
                                /\ i \in H <=> w(i) = Bool(TRUE)
  BY Zenon DEF Decisive, Holding
<1>5. S \subseteq DOMAIN e.cases /\ H \subseteq DOMAIN e.cases /\ DOMAIN e.cases \subseteq Nat
  <2>1. S \subseteq DOMAIN e.cases /\ H \subseteq DOMAIN e.cases
    BY Zenon DEF Decisive, Holding
  <2> QED
    BY <2>1, Operands
<1>6. Branch(b, e, ready) =
        IF S = {} THEN IF ready THEN b.expr[e.else, FALSE] ELSE Failure
        ELSE IF Failed(v(Min(S))) THEN v(Min(S))
        ELSE IF v(Min(S)).type # "boolean" THEN Failure
        ELSE b.expr[e.cases[Min(S)].then, FALSE]
  BY Zenon DEF Branch
<1>7. Panic.type # "boolean" /\ Bool(TRUE).type = "boolean"
  BY DEF Panic, Bool, Value
<1>8. \A i \in DOMAIN e.cases : w(i).type = "boolean"
  OBVIOUS
<1>9. \A i \in H : i \in S
  BY <1>3, <1>4, <1>5, <1>7
<1> HIDE DEF S, H, v, w, b
<1>10. CASE S = {}
  <2>1. H = {}
    BY <1>5, <1>9, <1>10
  <2> QED
    BY <1>2, <1>6, <1>10, <2>1 DEF Taken, H, b
<1>11. CASE S # {}
  <2> DEFINE m == Min(S)
  <2>1. m \in S /\ m \in DOMAIN e.cases /\ m \in Nat
    <3>1. S \subseteq Nat
      BY <1>5
    <3>2. m \in S
      BY <1>11, <3>1, LeastIsMin
    <3> QED
      BY <1>5, <3>2
  <2>2. \A i \in S : m <= i
    <3>1. S \subseteq Nat
      BY <1>5
    <3>2. \E j \in S : \A i \in S : j <= i
      BY <1>11, <3>1, Least
    <3> QED
      BY <3>2, Zenon DEF Min
  <2> HIDE DEF m
  <2>3. v(m) # Panic
    BY <1>2, <1>6, <1>11, PanicFailed, Zenon DEF m
  <2>4. v(m) = w(m)
    BY <1>3, <2>1, <2>3 DEF v, w
  <2>5. v(m).type = "boolean" /\ v(m) = Bool(TRUE) /\ m \in H
    BY <1>4, <1>8, <2>1, <2>4
  <2>6. Min(H) = m /\ H # {}
    <3>1. H \subseteq Nat /\ \A i \in H : m <= i
      BY <1>5, <1>9, <2>2
    <3> QED
      BY <2>5, <3>1, MinIs
  <2>7. ~Failed(v(m))
    BY <2>5 DEF Failed
  <2>8. Branch(b, e, ready) = b.expr[e.cases[m].then, FALSE]
    BY <1>6, <1>11, <2>5, <2>7, Zenon DEF m
  <2> QED
    BY <1>2, <2>6, <2>8 DEF Taken, H, b
<1> QED
  BY <1>10, <1>11

\* All blocks and conditions of an expression can be computed.
Computable(e) ==
  /\ \A x \in BlocksOf[e] : ~Failed(Evaluated(x))
  /\ \A x \in ConditionsOf[e] : Evaluated(x).type = "boolean"

\* If all its blocks and conditions can be computed, so can those of every block.
LEMMA ComputableParts ==
  ASSUME NEW e \in Expressions, e.op = "if", Computable(e)
  PROVE  /\ \A d \in Blocks(e) : Computable(d)
         /\ \A i \in DOMAIN e.cases : Evaluated(e.cases[i].cond).type = "boolean"
<1>1. BlocksOf[e] = UNION {BlocksOf[d] : d \in Blocks(e)}
  BY BlocksEquation, Zenon
<1>2. ConditionsOf[e] = Conditions(e) \cup UNION {ConditionsOf[d] : d \in Blocks(e)}
  BY ConditionsEquation, Zenon
<1>3. \A d \in Blocks(e) : BlocksOf[d] \subseteq BlocksOf[e] /\ ConditionsOf[d] \subseteq ConditionsOf[e]
  BY <1>1, <1>2
<1>4. \A i \in DOMAIN e.cases : e.cases[i].cond \in ConditionsOf[e]
  <2>1. \A i \in DOMAIN e.cases : e.cases[i].cond \in Conditions(e)
    BY DEF Conditions, Range
  <2> QED
    BY <1>2, <2>1
<1> QED
  BY <1>3, <1>4, Zenon DEF Computable

\* A block is computed, unless it comes to an else: blocks are not marked ready.
BlockRight(k, e) ==
  Computable(e) /\ Now(k).expr[e, FALSE] # Panic
    => (Failed(Now(k).expr[e, FALSE]) <=> ElsesTaken[e] # {})

\* By induction over the levels: an if that is a block takes another block.
LEMMA BlockComputes ==
  ASSUME tree \in Trees, NEW k \in 0..Depth, NEW e \in Expressions PROVE BlockRight(k, e)
<1> DEFINE Is(m) == m <= Depth => \A d \in Expressions : BlockRight(m, d)
           K == {m \in Nat : Is(m)}
<1>1. ASSUME NEW m \in 0..Depth, NEW d \in Expressions, d.op # "if" PROVE BlockRight(m, d)
  <2> SUFFICES ASSUME Computable(d), Now(m).expr[d, FALSE] # Panic
               PROVE  ~Failed(Now(m).expr[d, FALSE]) /\ ElsesTaken[d] = {}
    BY DEF BlockRight
  <2>1. ElsesTaken[d] = {}
    BY <1>1, ElsesEquation, Zenon
  <2>2. BlocksOf[d] = {d}
    BY <1>1, BlocksEquation, Zenon
  <2>3. ~Failed(Now(Depth).expr[d, TRUE])
    <3>1. ~Failed(Evaluated(d))
      BY <2>2 DEF Computable
    <3>2. Evaluated(d) = Now(Depth).expr[d, TRUE]
      BY NowLevels
    <3> QED
      BY <3>1, <3>2
  <2>4. Now(Depth).expr[d, TRUE] = Now(Depth).expr[d, FALSE]
    BY <1>1, ReadyMatters, Counting
  <2>5. Now(Depth).expr[d, FALSE] = Now(m).expr[d, FALSE]
    BY NowMore
  <2> QED
    BY <2>1, <2>3, <2>4, <2>5
<1>2. 0 \in K
  <2>1. \A d \in Expressions : BlockRight(0, d)
    BY NowLevels DEF BlockRight
  <2> QED
    BY <2>1
<1>3. ASSUME NEW m \in Nat, m \in K PROVE m + 1 \in K
  <2> SUFFICES ASSUME m + 1 <= Depth, NEW d \in Expressions PROVE BlockRight(m + 1, d)
    OBVIOUS
  <2>1. m + 1 \in 1..Depth /\ m + 1 \in 0..Depth /\ (m + 1) - 1 = m /\ m <= Depth
    BY BoundAssumption
  <2>2. \A c \in Expressions : BlockRight(m, c)
    BY <1>3, <2>1
  <2>3. CASE d.op # "if"
    BY <1>1, <2>1, <2>3
  <2>4. CASE d.op = "if"
    <3> SUFFICES ASSUME Computable(d), Now(m + 1).expr[d, FALSE] # Panic
                 PROVE  Failed(Now(m + 1).expr[d, FALSE]) <=> ElsesTaken[d] # {}
      BY DEF BlockRight
    <3>1. Now(m + 1).expr[d, FALSE] =
            IF Holding(d) = {} THEN Failure ELSE Now(m).expr[Taken(d), FALSE]
      BY <2>1, <2>4, BranchTakes, ComputableParts
    <3>2. ElsesTaken[d] = IF Holding(d) = {} THEN {d} ELSE ElsesTaken[Taken(d)]
      BY <2>4, ElsesEquation, Zenon
    <3>3. Taken(d) \in Blocks(d) /\ Taken(d) \in Expressions /\ Computable(Taken(d))
      BY <2>4, TakenIsBlock, BlocksAreParts, ComputableParts
    <3>4. Failed(Failure)
      BY DEF Failed, Failure, Value
    <3>5. CASE Holding(d) = {}
      BY <3>1, <3>2, <3>4, <3>5
    <3>6. CASE Holding(d) # {}
      <4>1. BlockRight(m, Taken(d))
        BY <2>2, <3>3
      <4>2. /\ Now(m + 1).expr[d, FALSE] = Now(m).expr[Taken(d), FALSE]
            /\ ElsesTaken[d] = ElsesTaken[Taken(d)]
        BY <3>1, <3>2, <3>6
      <4> QED
        BY <3>3, <4>1, <4>2 DEF BlockRight
    <3> QED
      BY <3>5, <3>6
  <2> QED
    BY <2>3, <2>4
<1>4. k \in Nat /\ k <= Depth
  BY BoundAssumption
<1>5. Is(k)
  <2> HIDE DEF Is
  <2> QED
    BY <1>2, <1>3, <1>4, Induction
<1> QED
  BY <1>4, <1>5

\* What a sink is computed from, two calls below.
LEMMA SinkScript ==
  ASSUME tree \in Trees, NEW s \in Sinks(tree) \cap Scripts(tree), Computed(s) # Panic
  PROVE  /\ Depth - 1 \in 1..Depth /\ (Depth - 1) - 1 \in 0..Depth
         /\ tree[s].script \in Expressions
         /\ Computed(s) = Now(Depth - 1).expr[tree[s].script, TRUE]
<1>1. s \in DOMAIN tree /\ tree[s].input = "script"
  BY DEF Sinks, Scripts
<1>2. tree[s].script \in Expressions
  BY TreeAssumption
<1>3. Depth # 0
  BY <1>1, NowLevels
<1>4. Depth \in 1..Depth /\ Depth - 1 \in 0..Depth
  BY <1>3, Counting
<1>5. Computed(s) = ComputeNode(tree, cache, Now(Depth - 1), s)
  BY <1>1, <1>4, NowLevels
<1>6. Computed(s) = Now(Depth - 1).expr[tree[s].script, TRUE]
  BY <1>1, <1>5 DEF ComputeNode
<1>7. Depth - 1 # 0
  BY <1>2, <1>6, NowLevels
<1> QED
  BY <1>2, <1>3, <1>6, <1>7, Counting

\* The if of a script is marked ready, so only the ifs inside come to an else.
LEMMA EveryCase == TypeOK => EveryCaseComputes
<1> SUFFICES ASSUME TypeOK, NEW s \in Sinks(tree) \cap Scripts(tree),
                    tree[s].script.op = "if", Computed(s) # Panic,
                    Computable(tree[s].script)
             PROVE  Failed(Computed(s)) <=> ElsesTaken[Taken(tree[s].script)] # {}
  BY DEF EveryCaseComputes, Computable
<1> DEFINE e == tree[s].script
           d == Taken(e)
<1>1. tree \in Trees
  BY DEF TypeOK
<1>2. /\ Depth - 1 \in 1..Depth /\ (Depth - 1) - 1 \in 0..Depth
      /\ e \in Expressions /\ Computed(s) = Now(Depth - 1).expr[e, TRUE]
  BY <1>1, SinkScript
<1>3. d \in Blocks(e) /\ d \in Expressions /\ Computable(d)
  BY <1>2, TakenIsBlock, BlocksAreParts, ComputableParts
<1>4. Computed(s) = Now((Depth - 1) - 1).expr[d, FALSE]
  BY <1>1, <1>2, BranchTakes, ComputableParts
<1>5. BlockRight((Depth - 1) - 1, d)
  BY <1>1, <1>2, <1>3, BlockComputes
<1> HIDE DEF e, d
<1> QED
  BY <1>3, <1>4, <1>5 DEF BlockRight, d, e

\* Every if has a block for every case: when its conditions and its blocks can be computed,
\* so can it, but for the else of an if inside an if, for any ifs in ifs.
THEOREM EveryCaseAlways == Spec => []EveryCaseComputes
BY EveryCase, TypeCorrect, PTL

-----------------------------------------------------------------------------
\* What is computed is a value, an error or a panic.
Width == -IntLimit..(IntLimit - 1)
IsValue(v) ==
  /\ v = Value(v.type, v.text, v.num, v.gen) /\ v.type \in DOMAIN Operators
  /\ v.gen \in 0..MaxEvents
  /\ v.type = "integer" => v.num \in Width
  /\ v.type = "float" => v.num \in Floats
WellFormed(v) == IsValue(v) \/ v = Failure \/ v = Panic

\* A set of numbers that are not above N has a greatest.
LEMMA Greatest ==
  ASSUME NEW N \in Nat, NEW T, T \subseteq 0..N, T # {}
  PROVE  Max(T) \in T /\ \A x \in T : x <= Max(T)
<1> DEFINE R == {N - x : x \in T}
<1>1. R \subseteq Nat /\ R # {}
  <2>1. \A x \in T : N - x \in Nat
    OBVIOUS
  <2> QED
    BY <2>1
<1>2. PICK m \in R : \A n \in R : m <= n
  <2> HIDE DEF R
  <2> QED
    BY <1>1, Least
<1>3. PICK y \in T : m = N - y
  BY <1>2
<1>4. \A x \in T : x <= y
  <2> SUFFICES ASSUME NEW x \in T PROVE x <= y
    OBVIOUS
  <2>1. m <= N - x /\ x \in 0..N /\ y \in 0..N
    BY <1>2
  <2> QED
    BY <1>3, <2>1
<1>5. \E z \in T : \A x \in T : z >= x
  BY <1>4
<1>6. Max(T) \in T /\ \A x \in T : Max(T) >= x
  BY <1>5, Zenon DEF Max
<1> QED
  BY <1>6

\* Max is the member that is no less than any.
LEMMA MaxIs ==
  ASSUME NEW T, T \subseteq Nat, NEW m \in T, \A n \in T : n <= m
  PROVE  Max(T) = m
<1>1. \A k \in T : (\A n \in T : k >= n) => k = m
  <2> SUFFICES ASSUME NEW k \in T, \A n \in T : k >= n PROVE k = m
    OBVIOUS
  <2>1. k <= m /\ m <= k /\ k \in Nat /\ m \in Nat
    OBVIOUS
  <2> QED
    BY <2>1
<1>2. \A n \in T : m >= n
  OBVIOUS
<1> QED
  BY <1>1, <1>2, Zenon DEF Max

\* What a value is made of.
LEMMA Fields ==
  ASSUME NEW type, NEW text, NEW num, NEW gen
  PROVE  LET v == Value(type, text, num, gen)
         IN v.type = type /\ v.text = text /\ v.num = num /\ v.gen = gen
BY DEF Value

\* Errors and panics are no values.
LEMMA Kinds ==
  /\ DOMAIN Operators = {"string", "boolean", "integer", "float"}
  /\ Failed(Failure) /\ Failed(Panic)
  /\ \A v : IsValue(v) => ~Failed(v)
<1>1. DOMAIN Operators = {"string", "boolean", "integer", "float"}
  BY DEF Operators
<1> QED
  BY <1>1 DEF Failed, Failure, Panic, Value, IsValue

\* The ways to make a value.
LEMMA MadeAny ==
  /\ \A x : IsValue(Str(x)) /\ Str(x).type = "string" /\ Str(x).gen = 0
  /\ \A b : IsValue(Bool(b)) /\ Bool(b).type = "boolean" /\ Bool(b).gen = 0
  /\ \A n \in Width : IsValue(Whole(n)) /\ Whole(n).type = "integer" /\ Whole(n).num = n
                       /\ Whole(n).gen = 0
  /\ \A m \in Floats : LET v == Value("float", "", m, 0)
                       IN IsValue(v) /\ v.type = "float" /\ v.num = m /\ v.gen = 0
<1>1. 0 \in 0..MaxEvents
  BY BoundAssumption
<1>2. \A x, y, z : Value(x, y, z, 0) =
          Value(Value(x, y, z, 0).type, Value(x, y, z, 0).text, Value(x, y, z, 0).num,
                Value(x, y, z, 0).gen)
  BY DEF Value
<1>3. ASSUME NEW x \in DOMAIN Operators, NEW y, NEW z,
             x = "integer" => z \in Width, x = "float" => z \in Floats
      PROVE  IsValue(Value(x, y, z, 0)) /\ Value(x, y, z, 0).type = x
               /\ Value(x, y, z, 0).num = z /\ Value(x, y, z, 0).gen = 0
  <2>1. Value(x, y, z, 0).type = x /\ Value(x, y, z, 0).num = z /\ Value(x, y, z, 0).gen = 0
    BY Fields
  <2> QED
    BY <1>1, <1>2, <1>3, <2>1, Zenon DEF IsValue
<1>4. \A x : IsValue(Str(x)) /\ Str(x).type = "string" /\ Str(x).gen = 0
  BY <1>3, Kinds DEF Str
<1>5. \A b : IsValue(Bool(b)) /\ Bool(b).type = "boolean" /\ Bool(b).gen = 0
  BY <1>3, Kinds DEF Bool
<1>6. \A n \in Width : IsValue(Whole(n)) /\ Whole(n).type = "integer" /\ Whole(n).num = n
                        /\ Whole(n).gen = 0
  <2> SUFFICES ASSUME NEW n \in Width
               PROVE  IsValue(Whole(n)) /\ Whole(n).type = "integer" /\ Whole(n).num = n
                        /\ Whole(n).gen = 0
    OBVIOUS
  <2>1. Whole(n) = Value("integer", "", n, 0)
    BY DEF Whole
  <2>2. "integer" \in DOMAIN Operators /\ "integer" # "float"
    BY Kinds
  <2>3. /\ IsValue(Value("integer", "", n, 0)) /\ Value("integer", "", n, 0).type = "integer"
        /\ Value("integer", "", n, 0).num = n /\ Value("integer", "", n, 0).gen = 0
    <3>1. /\ Value("integer", "", n, 0).type = "integer"
          /\ Value("integer", "", n, 0).num = n /\ Value("integer", "", n, 0).gen = 0
      BY DEF Value
    <3>2. Value("integer", "", n, 0).type = "float" => Value("integer", "", n, 0).num \in Floats
      BY <2>2, <3>1, Zenon
    <3> QED
      BY <1>1, <1>2, <2>2, <3>1, <3>2, Zenon DEF IsValue
  <2> QED
    BY <2>1, <2>3, Zenon
<1>7. \A m \in Floats : LET v == Value("float", "", m, 0)
                        IN IsValue(v) /\ v.type = "float" /\ v.num = m /\ v.gen = 0
  <2>1. "float" \in DOMAIN Operators /\ "integer" # "float"
    BY Kinds
  <2> QED
    BY <1>3, <2>1, Zenon
<1> QED
  BY <1>4, <1>5, <1>6, <1>7

\* The same, one kind of value at a time.
LEMMA Made ==
  /\ \A x : IsValue(Str(x)) /\ Str(x).type = "string" /\ Str(x).gen = 0
  /\ \A b : IsValue(Bool(b)) /\ Bool(b).type = "boolean" /\ Bool(b).gen = 0
BY MadeAny, Zenon

\* Of integers.
LEMMA MadeWhole ==
  \A n \in Width : IsValue(Whole(n)) /\ Whole(n).type = "integer" /\ Whole(n).num = n
                   /\ Whole(n).gen = 0
BY MadeAny, Zenon

\* Of floats.
LEMMA MadeFloat ==
  \A m \in Floats : LET v == Value("float", "", m, 0)
                    IN IsValue(v) /\ v.type = "float" /\ v.num = m /\ v.gen = 0
BY MadeAny, Zenon

\* What is written in a script or reported is a value of generation 0.
LEMMA Given0 == \A v : Given(v) => IsValue(v) /\ v.gen = 0
<1> SUFFICES ASSUME NEW v, Given(v) PROVE IsValue(v) /\ v.gen = 0
  OBVIOUS
<1>1. v.gen = Value(v.type, v.text, v.num, 0).gen
  BY Zenon DEF Given
<1>2. v.gen = 0
  BY <1>1, Fields
<1>3. 0 \in 0..MaxEvents
  BY BoundAssumption
<1> QED
  BY <1>2, <1>3, Zenon DEF Given, IsValue, Width

\* A value that is given a generation has the later one.
LEMMA Generation ==
  ASSUME NEW v, IsValue(v), NEW g \in 0..MaxEvents
  PROVE  LET w == WithGeneration(v, g)
         IN /\ IsValue(w) /\ w.type = v.type /\ w.text = v.text /\ w.num = v.num
            /\ w.gen \in {v.gen, g} /\ v.gen <= w.gen /\ g <= w.gen
<1> DEFINE m == Max({v.gen, g})
           w == WithGeneration(v, g)
<1>1. m \in {v.gen, g} /\ v.gen <= m /\ g <= m
  <2>1. MaxEvents \in Nat /\ {v.gen, g} \subseteq 0..MaxEvents /\ {v.gen, g} # {}
    BY BoundAssumption DEF IsValue
  <2> QED
    BY <2>1, Greatest
<1>2. w = [v EXCEPT !.gen = m]
  BY Kinds DEF WithGeneration
<1>3. v = [type |-> v.type, text |-> v.text, num |-> v.num, gen |-> v.gen]
  BY Zenon DEF IsValue, Value
<1> HIDE DEF m, w
<1>4. w = Value(v.type, v.text, v.num, m)
  BY <1>2, <1>3 DEF Value
<1>5. w.type = v.type /\ w.text = v.text /\ w.num = v.num /\ w.gen = m
  BY <1>4, Fields
<1>6. m \in 0..MaxEvents
  BY <1>1 DEF IsValue
<1>7. IsValue(w)
  BY <1>4, <1>5, <1>6, Zenon DEF IsValue
<1> QED
  BY <1>1, <1>5, <1>7 DEF w

-----------------------------------------------------------------------------
\* What the operators of arithmetic compute to.
Arith == {"add", "subtract", "multiply", "divide", "modulo"}

\* There are floats nearest to a number, and rounding takes one of them.
LEMMA RoundedIs ==
  ASSUME NEW n \in Int, NEW d \in Int PROVE Rounded(n, d) \in Nearest(n, d)
<1> DEFINE all == Extended
           far(m) == Abs(m * d - n)
           R == {far(m) : m \in all}
<1>1. all # {} /\ \A m \in all : far(m) \in Nat
  BY FloatAssumption DEF Abs, Extended
<1>2. PICK k \in R : \A j \in R : k <= j
  <2>1. R \subseteq Nat
    <3> HIDE DEF far, all
    <3> QED
      BY <1>1
  <2>2. R # {}
    <3> HIDE DEF far, all
    <3> QED
      BY <1>1
  <2> HIDE DEF R
  <2> QED
    BY <2>1, <2>2, Least
<1>3. \E m \in all : \A z \in all : far(m) <= far(z)
  <2> HIDE DEF far, all
  <2> QED
    BY <1>2
<1>4. PICK near : near = Nearest(n, d)
  OBVIOUS
<1>5. near # {}
  BY <1>3, <1>4, Zenon DEF Nearest
<1>6. PICK even \in SUBSET near : Rounded(n, d) = CHOOSE m \in near : m \in even \/ even = {}
  <2> DEFINE E == Even(near)
  <2>1. Rounded(n, d) = CHOOSE m \in near : m \in E \/ E = {}
    BY <1>4, Zenon DEF Rounded, Rounding
  <2>2. E \in SUBSET near
    BY Zenon DEF Even
  <2> HIDE DEF E
  <2> QED
    BY <2>1, <2>2
<1>7. \E m \in near : m \in even \/ even = {}
  BY <1>5
<1>8. Rounded(n, d) \in near
  BY <1>6, <1>7, Zenon
<1> QED
  BY <1>4, <1>8

\* A float that is made is as close as a float can be.
LEMMA FloatIs ==
  ASSUME NEW n \in Int, NEW d \in Int
  PROVE  LET v == Float(n, d)
         IN v = Panic \/ (IsValue(v) /\ v.gen = 0 /\ Number(v) \in {"float"} \X Closest(n, d))
<1>1. PICK m : m = Rounded(n, d)
  OBVIOUS
<1>2. m \in Nearest(n, d)
  BY <1>1, RoundedIs
<1>3. m \in Floats => m \in Closest(n, d)
  BY <1>2, Zenon DEF Nearest, Extended, Closest
<1>4. Float(n, d) = IF m \in Floats THEN Value("float", "", m, 0) ELSE Panic
  BY <1>1 DEF Float
<1>5. CASE m \in Floats
  <2>1. PICK v : v = Value("float", "", m, 0)
    OBVIOUS
  <2>2. IsValue(v) /\ v.type = "float" /\ v.num = m /\ v.gen = 0
    BY <1>5, <2>1, MadeFloat
  <2>3. Float(n, d) = v
    BY <1>4, <1>5, <2>1
  <2> QED
    BY <1>3, <1>5, <2>2, <2>3 DEF Number
<1> QED
  BY <1>4, <1>5

\* Division and remainder.
LEMMA DivMod ==
  ASSUME NEW a \in Int, NEW c \in Int, c > 0
  PROVE  /\ a \div c \in Int /\ a % c \in Int /\ 0 <= a % c /\ a % c < c
         /\ a = c * (a \div c) + (a % c)
<1>1. a \div c \in Int /\ a % c \in Int /\ 0 <= a % c /\ a % c < c
  BY SMT
<1>2. a = c * (a \div c) + (a % c)
  BY SMTT(30)
<1> QED
  BY <1>1, <1>2, Zenon

\* Of natural numbers, both are natural.
LEMMA Quotient ==
  ASSUME NEW a \in Nat, NEW c \in Nat \ {0}
  PROVE  a \div c \in 0..a /\ a % c \in 0..(c - 1) /\ a = (a \div c) * c + (a % c)
<1> DEFINE q == a \div c
           m == a % c
<1>1. q \in Int /\ m \in Int /\ 0 <= m /\ m < c /\ a = c * q + m
  BY DivMod
<1> HIDE DEF q, m
<1>2. q >= 0
  <2> SUFFICES ASSUME q <= -1 PROVE FALSE
    BY <1>1
  <2>1. q * c <= -c
    BY <1>1
  <2> QED
    BY <1>1, <2>1
<1>3. q <= q * c
  BY <1>1, <1>2
<1>4. c * q = q * c
  BY <1>1
<1>5. q \in 0..a /\ m \in 0..(c - 1) /\ a = q * c + m
  BY <1>1, <1>2, <1>3, <1>4
<1> QED
  BY <1>5, Zenon DEF q, m

\* The remainder of a division that rounds to 0 has the sign of the dividend.
LEMMA RemainderIs ==
  ASSUME NEW a \in Int, NEW c \in Int, c # 0
  PROVE  LET x == Remainder(a, c)
         IN /\ x \in -Abs(c)..Abs(c) /\ Abs(x) < Abs(c) /\ x * a >= 0
            /\ \E k \in -Abs(a)..Abs(a) : a = k * c + x
<1> DEFINE x == Remainder(a, c)
           q == Abs(a) \div Abs(c)
           m == Abs(a) % Abs(c)
<1>1. Abs(a) \in Nat /\ Abs(c) \in Nat \ {0}
  BY DEF Abs
<1>2. q \in 0..Abs(a) /\ m \in 0..(Abs(c) - 1) /\ Abs(a) = q * Abs(c) + m
  BY <1>1, Quotient
<1>3. x = IF a < 0 THEN 0 - m ELSE m
  BY DEF Remainder, Abs
<1> HIDE DEF x, q, m
<1>4. x \in -Abs(c)..Abs(c) /\ Abs(x) < Abs(c)
  BY <1>1, <1>2, <1>3 DEF Abs
<1>5. x * a >= 0
  BY <1>2, <1>3 DEF Abs
<1>6. \E k \in -Abs(a)..Abs(a) : a = k * c + x
  <2>1. q \in -Abs(a)..Abs(a) /\ 0 - q \in -Abs(a)..Abs(a)
    BY <1>1, <1>2
  <2>2. a = q * c + x \/ a = (0 - q) * c + x
    <3>1. (0 - q) * c = 0 - q * c /\ q * (0 - c) = 0 - q * c
      BY <1>2
    <3>2. q * Abs(c) = q * c \/ q * Abs(c) = 0 - q * c
      BY <3>1 DEF Abs
    <3>3. q * c \in Int /\ q * Abs(c) \in Int /\ m \in Int
      BY <1>1, <1>2
    <3> QED
      BY <1>2, <1>3, <3>1, <3>2, <3>3 DEF Abs
  <2> QED
    BY <2>1, <2>2
<1> QED
  BY <1>4, <1>5, <1>6 DEF x

\* An integer is the right one, or what is left of it when nothing is checked.
LEMMA FittedIs ==
  ASSUME NEW chk, NEW n \in Int
  PROVE  LET v == Fitted(chk, n)
         IN /\ WellFormed(v) /\ (v # Panic => v.type = "integer" /\ v.gen = 0)
            /\ chk /\ v # Panic => v.num = n
<1>1. Around(n) \in Width
  <2>1. PICK m, r : m = 2 * IntLimit /\ r = (n + IntLimit) % m
    OBVIOUS
  <2>2. m \in Int /\ m > 0 /\ n + IntLimit \in Int
    BY <2>1, BoundAssumption
  <2>3. r \in Int /\ 0 <= r /\ r < m
    BY <2>1, <2>2, DivMod
  <2>4. Around(n) = r - IntLimit
    BY <2>1 DEF Around
  <2> QED
    BY <2>1, <2>3, <2>4, BoundAssumption DEF Width
<1>2. \A m \in Width : IsValue(Whole(m)) /\ Whole(m).num = m /\ Whole(m).type = "integer"
                        /\ Whole(m).gen = 0
  BY MadeWhole
<1>3. \/ n \in Width /\ Fitted(chk, n) = Whole(n)
      \/ Fitted(chk, n) = Panic
      \/ ~chk /\ Fitted(chk, n) = Whole(Around(n))
  BY DEF Fitted, Width
<1> QED
  BY <1>1, <1>2, <1>3, Zenon DEF WellFormed

Numbers(l, r) ==
  /\ IsValue(l) /\ IsValue(r) /\ l.type = r.type /\ l.type \in {"integer", "float"}

\* What numbers are.
LEMMA NumbersAre ==
  ASSUME NEW l, NEW r, Numbers(l, r)
  PROVE  /\ l.num \in Int /\ r.num \in Int
         /\ l.type = "integer" => l.num \in Width /\ r.num \in Width
         /\ l.type = "float" => l.num \in Floats /\ r.num \in Floats
<1>1. \A n \in Width : n \in Int
  BY BoundAssumption DEF Width
<1> QED
  BY <1>1, FloatAssumption DEF Numbers, IsValue

\* An integer that is rounded gives a float as close to it as a float can be.
LEMMA WholeRounded ==
  ASSUME NEW n \in Width
  PROVE  Rounded(n * One, 1) \in Closest(n * One, 1) /\ Rounded(n * One, 1) \in Int
<1>1. n * One \in Int
  BY FloatAssumption, BoundAssumption DEF Width
<1>2. PICK m : m = Rounded(n * One, 1)
  OBVIOUS
<1>3. m \in Nearest(n * One, 1)
  BY <1>1, <1>2, RoundedIs
<1>4. m \in Floats
  BY <1>2, FloatAssumption DEF Width
<1>5. m \in Closest(n * One, 1)
  BY <1>3, <1>4, Zenon DEF Nearest, Extended, Closest
<1> QED
  BY <1>2, <1>4, <1>5, FloatAssumption

\* An operator of arithmetic makes the number that it should, or a panic; one that
\* compares makes a boolean.
LEMMA ArithmeticIs ==
  ASSUME NEW chk, NEW l, NEW r, Numbers(l, r),
         NEW op \in Operators[l.type] \ {"latch", "equals", "not_equals"}
  PROVE  LET v == Arithmetic(chk, op, l, r)
         IN /\ WellFormed(v) /\ (~Failed(v) => v.gen = 0)
            /\ v.type \in {"integer", "float"} /\ chk =>
                 op \in Arith /\ Number(v) \in Results(op, Number(l), Number(r))
<1> DEFINE a == l.num
           c == r.num
           v == Arithmetic(chk, op, l, r)
           made(n, d) == IF l.type = "integer" THEN Fitted(chk, n) ELSE Float(n, d)
           asFloat(n) == IF l.type = "integer" THEN Rounded(n * One, 1) ELSE n
           right(n, d) == IF l.type = "integer" THEN {<<"integer", n>>}
                          ELSE {"float"} \X Closest(n, d)
<1>1. op \in Arith \cup Comparisons /\ (op = "modulo" => l.type = "integer")
  <2>1. Operators["integer"] = Numeric \cup {"modulo"} /\ Operators["float"] = Numeric
    BY DEF Operators
  <2>2. op \in Numeric \/ (op = "modulo" /\ l.type = "integer")
    BY <2>1 DEF Numbers
  <2>3. op \notin {"latch", "equals", "not_equals"}
    OBVIOUS
  <2> QED
    BY <2>2, <2>3 DEF Numeric, Comparisons, Arith
<1>2. /\ a \in Int /\ c \in Int /\ l.type = r.type /\ l.type \in {"integer", "float"}
      /\ l.type = "integer" => a \in Width /\ c \in Width
  BY NumbersAre DEF Numbers
<1>3. Number(l)[1] = l.type /\ Number(l)[2] = a /\ Number(r)[1] = r.type /\ Number(r)[2] = c
  BY DEF Number
<1>4. One \in Int /\ Panic.type = "panic"
  BY FloatAssumption DEF Panic, Value
<1>5. CASE op \in Comparisons
  <2>1. \E x : v = Bool(x)
    BY <1>5 DEF Arithmetic, Comparisons
  <2> QED
    BY <2>1, Made DEF WellFormed
<1> DEFINE n == CASE op = "add" -> a + c
                  [] op = "subtract" -> a - c
                  [] OTHER -> a * c
           u == IF op = "multiply" THEN One ELSE 1
<1>6. CASE op \in {"add", "subtract", "multiply"}
  <2>1. v = made(n, u)
    BY <1>6 DEF Arithmetic
  <2>2. Results(op, Number(l), Number(r)) = right(n, u)
    <3>1. CASE op = "add"
      BY <1>3, <3>1 DEF Results
    <3>2. CASE op = "subtract"
      BY <1>3, <3>2 DEF Results
    <3>3. CASE op = "multiply"
      BY <1>3, <3>3 DEF Results
    <3> QED
      BY <1>6, <3>1, <3>2, <3>3
  <2>3. n \in Int /\ u \in Int
    BY <1>2, <1>4, <1>6
  <2> HIDE DEF n, u, v
  <2>4. CASE l.type = "integer"
    <3>1. v = Fitted(chk, n) /\ Results(op, Number(l), Number(r)) = {<<"integer", n>>}
      BY <2>1, <2>2, <2>4
    <3>2. /\ WellFormed(v) /\ (v # Panic => v.type = "integer" /\ v.gen = 0)
          /\ chk /\ v # Panic => v.num = n
      BY <2>3, <3>1, FittedIs
    <3> QED
      BY <1>4, <1>6, <3>1, <3>2, Kinds, Zenon DEF Arith, Number, v
  <2>5. CASE l.type # "integer"
    <3>1. v = Float(n, u) /\ Results(op, Number(l), Number(r)) = {"float"} \X Closest(n, u)
      BY <2>1, <2>2, <2>5
    <3>2. v = Panic \/ (IsValue(v) /\ v.gen = 0 /\ Number(v) \in {"float"} \X Closest(n, u))
      BY <2>3, <3>1, FloatIs
    <3> QED
      BY <1>4, <1>6, <3>1, <3>2, Kinds, Zenon DEF Arith, WellFormed, v
  <2> QED
    BY <2>4, <2>5
<1>7. CASE op = "divide"
  <2>1. PICK p, q : p = asFloat(a) /\ q = asFloat(c)
    OBVIOUS
  <2>2. v = IF c = 0 THEN Panic ELSE Float(p * One, q)
    BY <1>7, <2>1 DEF Arithmetic
  <2>3. /\ p \in Int /\ q \in Int
        /\ p \in AsFloats(Number(l)) /\ q \in AsFloats(Number(r))
    <3>1. CASE l.type = "integer"
      BY <1>2, <1>3, <2>1, <3>1, WholeRounded DEF AsFloats
    <3>2. CASE l.type # "integer"
      BY <1>2, <1>3, <2>1, <3>2 DEF AsFloats
    <3> QED
      BY <3>1, <3>2
  <2>4. p * One \in Int
    BY <1>4, <2>3
  <2>5. c # 0 => Results(op, Number(l), Number(r)) =
          {"float"} \X UNION {Closest(x * One, y) :
                                x \in AsFloats(Number(l)), y \in AsFloats(Number(r))}
    BY <1>3, <1>7 DEF Results
  <2> HIDE DEF v
  <2>6. CASE c # 0 /\ v # Panic
    <3>1. IsValue(v) /\ v.gen = 0 /\ Number(v) \in {"float"} \X Closest(p * One, q)
      BY <2>2, <2>3, <2>4, <2>6, FloatIs
    <3>2. Number(v) \in Results(op, Number(l), Number(r))
      BY <2>3, <2>5, <2>6, <3>1
    <3> QED
      BY <1>7, <3>1, <3>2 DEF Arith, WellFormed, v
  <2>7. CASE v = Panic
    BY <1>4, <2>7, Kinds, Zenon DEF WellFormed, v
  <2> QED
    BY <2>2, <2>6, <2>7
<1>8. CASE op = "modulo"
  <2>1. v = Panic \/ (c # 0 /\ v = Whole(Remainder(a, c)))
    BY <1>8 DEF Arithmetic
  <2>2. a \in Width /\ c \in Width
    BY <1>1, <1>2, <1>8
  <2>3. c # 0 => Remainder(a, c) \in Width
                   /\ <<"integer", Remainder(a, c)>> \in Results(op, Number(l), Number(r))
    <3> SUFFICES ASSUME c # 0
                 PROVE  Remainder(a, c) \in Width
                          /\ <<"integer", Remainder(a, c)>> \in Results(op, Number(l), Number(r))
      OBVIOUS
    <3>1. PICK x : x = Remainder(a, c)
      OBVIOUS
    <3>2. /\ x \in -Abs(c)..Abs(c) /\ Abs(x) < Abs(c) /\ x * a >= 0
          /\ \E k \in -Abs(a)..Abs(a) : a = k * c + x
      BY <1>2, <3>1, RemainderIs
    <3>3. Results(op, Number(l), Number(r)) =
            {<<"integer", y>> : y \in {i \in -Abs(c)..Abs(c) :
               /\ \E k \in -Abs(a)..Abs(a) : a = k * c + i
               /\ Abs(i) < Abs(c) /\ i * a >= 0}}
      BY <1>3, <1>8 DEF Results
    <3>4. x \in Width
      BY <2>2, <3>2, BoundAssumption DEF Abs, Width
    <3> QED
      BY <3>1, <3>2, <3>3, <3>4, Zenon
  <2> HIDE DEF v
  <2>4. v # Panic => /\ IsValue(v) /\ v.gen = 0
                     /\ Number(v) \in Results(op, Number(l), Number(r))
    BY <2>1, <2>3, MadeWhole DEF Number
  <2> QED
    BY <1>4, <1>8, <2>4, Kinds, Zenon DEF Arith, WellFormed, v
<1> QED
  BY <1>1, <1>5, <1>6, <1>7, <1>8 DEF Arith

\* An operator makes a value of two values of one type, with the later generation.
LEMMA ApplyIs ==
  ASSUME NEW chk, NEW op, NEW l, NEW r, WellFormed(l), WellFormed(r)
  PROVE  LET v == Apply(chk, op, l, r)
         IN /\ WellFormed(v)
            /\ ~Failed(v) => /\ IsValue(l) /\ IsValue(r)
                             /\ l.type = r.type /\ op \in Operators[l.type]
                             /\ v.gen \in {l.gen, r.gen} /\ l.gen <= v.gen /\ r.gen <= v.gen
            /\ ~Failed(v) /\ op = "latch" => Datum(v) = Datum(IF l.gen >= r.gen THEN l ELSE r)
            /\ chk /\ op \in Arith /\ v.type \in {"integer", "float"} =>
                 l.type \in {"integer", "float"} /\ Number(v) \in Results(op, Number(l), Number(r))
<1> DEFINE v == Apply(chk, op, l, r)
           res == CASE op = "latch" -> IF l.gen >= r.gen THEN l ELSE r
                    [] op = "equals" -> Bool(Datum(l) = Datum(r))
                    [] op = "not_equals" -> Bool(Datum(l) # Datum(r))
                    [] op = "or" -> Bool(l.text = "true" \/ r.text = "true")
                    [] op = "and" -> Bool(l.text = "true" /\ r.text = "true")
                    [] op = "add" /\ l.type = "string" -> Str(l.text \o r.text)
                    [] OTHER -> Arithmetic(chk, op, l, r)
           g == Max({l.gen, r.gen})
           fits == l.type = r.type /\ op \in Operators[l.type]
<1>1. v = IF Failed(l) THEN l ELSE IF Failed(r) THEN r
          ELSE IF ~fits THEN Failure ELSE WithGeneration(res, g)
  BY Zenon DEF Apply
<1>2. \A x : WellFormed(x) /\ ~Failed(x) => IsValue(x)
  BY Kinds DEF WellFormed
<1>3. WellFormed(Failure)
  BY DEF WellFormed
<1>4. CASE Failed(l) \/ Failed(r) \/ ~fits
  <2>1. v \in {l, r, Failure} /\ Failed(v)
    BY <1>1, <1>4, Kinds, Zenon
  <2>2. v.type \notin {"integer", "float"}
    BY <2>1 DEF Failed
  <2> HIDE DEF v
  <2> QED
    BY <1>3, <2>1, <2>2, Zenon DEF v
<1>5. CASE ~Failed(l) /\ ~Failed(r) /\ fits
  <2>1. IsValue(l) /\ IsValue(r) /\ v = WithGeneration(res, g)
    BY <1>1, <1>2, <1>5
  <2>2. g \in {l.gen, r.gen} /\ l.gen <= g /\ r.gen <= g /\ g \in 0..MaxEvents
        /\ l.gen \in Nat /\ r.gen \in Nat
    <3>1. MaxEvents \in Nat /\ {l.gen, r.gen} \subseteq 0..MaxEvents /\ {l.gen, r.gen} # {}
      BY <2>1, BoundAssumption DEF IsValue
    <3> QED
      BY <3>1, Greatest
  <2>3. /\ WellFormed(res) /\ (~Failed(res) => res.gen \in {0, l.gen, r.gen})
        /\ op = "latch" => res = (IF l.gen >= r.gen THEN l ELSE r) /\ ~Failed(res)
        /\ chk /\ op \in Arith /\ res.type \in {"integer", "float"} =>
             l.type \in {"integer", "float"} /\ Number(res) \in Results(op, Number(l), Number(r))
    <3>1. CASE op = "latch"
      <4>1. res = IF l.gen >= r.gen THEN l ELSE r
        BY <3>1
      <4>2. IsValue(res) /\ res.gen \in {0, l.gen, r.gen}
        BY <2>1, <4>1
      <4> HIDE DEF res
      <4> QED
        BY <3>1, <4>1, <4>2, Kinds, Zenon DEF WellFormed, Arith
    <3>2. CASE op \in {"equals", "not_equals", "or", "and"}
      <4>1. \E x : res = Bool(x)
        BY <3>2
      <4>2. WellFormed(res) /\ res.gen = 0
        BY <4>1, Made DEF WellFormed
      <4> HIDE DEF res
      <4> QED
        BY <3>2, <4>2 DEF Arith
    <3>3. CASE op = "add" /\ l.type = "string"
      <4>1. res = Str(l.text \o r.text)
        BY <3>3
      <4> HIDE DEF res
      <4>2. WellFormed(res) /\ res.gen = 0 /\ res.type = "string"
        BY <4>1, Made DEF WellFormed
      <4> QED
        BY <3>3, <4>2
    <3>4. CASE op \notin {"latch", "equals", "not_equals", "or", "and"}
               /\ ~(op = "add" /\ l.type = "string")
      <4>1. res = Arithmetic(chk, op, l, r)
        BY <3>4
      <4>2. l.type \in {"integer", "float"}
        <5>1. l.type \in {"string", "boolean", "integer", "float"}
          BY <2>1, Kinds DEF IsValue
        <5>2. Operators["string"] = {"add", "latch", "equals"}
                /\ Operators["boolean"] = {"or", "and", "latch", "equals", "not_equals"}
          BY DEF Operators
        <5> QED
          BY <1>5, <3>4, <5>1, <5>2
      <4>3. Numbers(l, r) /\ op \in Operators[l.type] \ {"latch", "equals", "not_equals"}
        BY <1>5, <2>1, <3>4, <4>2 DEF Numbers
      <4> HIDE DEF res
      <4>4. /\ WellFormed(res) /\ (~Failed(res) => res.gen = 0)
            /\ res.type \in {"integer", "float"} /\ chk =>
                 op \in Arith /\ Number(res) \in Results(op, Number(l), Number(r))
        BY <4>1, <4>3, ArithmeticIs
      <4> QED
        BY <3>4, <4>2, <4>4, Zenon
    <3> QED
      BY <3>1, <3>2, <3>3, <3>4
  <2> HIDE DEF res, g, v
  <2>4. CASE Failed(res)
    <3>1. v = res
      BY <2>1, <2>4 DEF WithGeneration
    <3>2. v.type \notin {"integer", "float"}
      BY <2>4, <3>1 DEF Failed
    <3> QED
      BY <2>3, <2>4, <3>1, <3>2, Zenon DEF v
  <2>5. CASE ~Failed(res)
    <3>1. IsValue(res) /\ res.gen \in 0..MaxEvents /\ res.gen <= g
      <4>1. IsValue(res)
        BY <1>2, <2>3, <2>5
      <4> QED
        BY <2>2, <2>3, <2>5, <4>1 DEF IsValue
    <3>2. /\ IsValue(v) /\ v.type = res.type /\ v.text = res.text /\ v.num = res.num
          /\ v.gen \in {res.gen, g} /\ g <= v.gen
      BY <2>1, <2>2, <3>1, Generation
    <3>3. v.gen = g
      BY <2>2, <3>1, <3>2
    <3>4. Datum(v) = Datum(res) /\ Number(v) = Number(res)
      BY <3>2 DEF Datum, Number
    <3>5. WellFormed(v) /\ v.gen \in {l.gen, r.gen} /\ l.gen <= v.gen /\ r.gen <= v.gen
      BY <2>2, <3>2, <3>3 DEF WellFormed
    <3> QED
      BY <1>5, <2>1, <2>3, <3>2, <3>4, <3>5, Zenon DEF v
  <2> QED
    BY <2>4, <2>5
<1> QED
  BY <1>4, <1>5

-----------------------------------------------------------------------------
\* All that is computed is a value, an error or a panic.
AllWell(t, below) ==
  /\ \A n \in DOMAIN t : WellFormed(below.node[n])
  /\ \A e \in Expressions, ready \in BOOLEAN : WellFormed(below.expr[e, ready])

\* A path leads to a node, with the latest generation of its lookups, or to an error.
LEMMA LookupIs ==
  ASSUME NEW t \in Trees, NEW below, AllWell(t, below), NEW e \in PathExprs
  PROVE  LET l == Lookup(t, below, e.path)
             gens == {below.expr[d, TRUE].gen : d \in Parts(e)}
         IN IF Failed(l) THEN WellFormed(l)
            ELSE /\ l.at \in DOMAIN t /\ l.gen \in 0..MaxEvents
                 /\ \A d \in Parts(e) : ~Failed(below.expr[d, TRUE])
                 /\ l.gen \in {0} \cup gens /\ \A g \in gens : g <= l.gen
<1> DEFINE p == e.path
           l == Lookup(t, below, p)
           names == NamesAlong(below, p)
           stops == Stops(t, names)
           made == {names[i].gen : i \in DOMAIN p}
           gens == {below.expr[d, TRUE].gen : d \in Parts(e)}
<1>1. /\ e \in Expressions /\ e = PathExpr(p) /\ p \in Seq(Range(p)) /\ e.op = "path"
      /\ DOMAIN p = 1..Len(p) /\ Len(p) \in Nat
  BY ExpressionAssumption DEF PathExprs
<1>2. DOMAIN names = DOMAIN p /\ \A i \in DOMAIN p :
        names[i] = IF IsLookup(p[i]) THEN below.expr[PathExpr(p[i].lookup), TRUE]
                   ELSE Str(p[i].name)
  BY DEF NamesAlong
<1>3. Parts(e) = {PathExpr(q) : q \in Lookups(p)}
  BY <1>1 DEF Parts
<1>4. \A i \in DOMAIN p : IsLookup(p[i]) => PathExpr(p[i].lookup) \in Parts(e)
  BY <1>3 DEF Lookups
<1>5. \A d \in Parts(e) : \E i \in DOMAIN p : IsLookup(p[i]) /\ d = PathExpr(p[i].lookup)
  BY <1>3 DEF Lookups
<1>6. \A d \in Parts(e) : d \in Expressions
  BY <1>1, ExpressionAssumption
<1>7. \A i \in DOMAIN p : WellFormed(names[i])
  <2> SUFFICES ASSUME NEW i \in DOMAIN p PROVE WellFormed(names[i])
    OBVIOUS
  <2>1. CASE IsLookup(p[i])
    BY <1>2, <1>4, <1>6, <2>1 DEF AllWell
  <2>2. CASE ~IsLookup(p[i])
    BY <1>2, <2>2, Made DEF WellFormed
  <2> QED
    BY <2>1, <2>2
<1>8. l = IF stops = {} THEN Node(Prefix(names, Len(p)), Max({0} \cup made))
          ELSE IF Failed(names[Min(stops)]) THEN names[Min(stops)] ELSE Failure
  BY Zenon DEF Lookup
<1>9. \A i \in DOMAIN p : /\ i \in stops <=> \/ Failed(names[i]) \/ names[i].type = "float"
                                            \/ Prefix(names, i) \notin DOMAIN t
  BY <1>2, Zenon DEF Stops
<1>10. stops \subseteq DOMAIN p /\ stops \subseteq Nat
  <2>1. stops \subseteq DOMAIN p
    BY <1>2, Zenon DEF Stops
  <2> QED
    BY <1>1, <2>1
<1> HIDE DEF l, names, stops
<1>11. CASE stops # {}
  <2>1. Min(stops) \in stops
    BY <1>10, <1>11, LeastIsMin
  <2>2. WellFormed(names[Min(stops)]) /\ WellFormed(Failure) /\ Failed(Failure)
    BY <1>7, <1>10, <2>1, Kinds DEF WellFormed
  <2>3. Failed(l) /\ WellFormed(l)
    BY <1>8, <1>11, <2>2
  <2> QED
    BY <2>3 DEF l
<1>12. CASE stops = {}
  <2>1. \A i \in DOMAIN p : IsValue(names[i])
    BY <1>7, <1>9, <1>12, Kinds DEF WellFormed
  <2>2. {0} \cup made \subseteq 0..MaxEvents /\ MaxEvents \in Nat
    BY <2>1, BoundAssumption DEF IsValue
  <2>3. LET m == Max({0} \cup made)
        IN m \in {0} \cup made /\ m \in 0..MaxEvents /\ \A x \in {0} \cup made : x <= m
    <3>1. {0} \cup made # {}
      OBVIOUS
    <3> HIDE DEF made
    <3> QED
      BY <2>2, <3>1, Greatest
  <2>4. l.at = Prefix(names, Len(p)) /\ l.gen = Max({0} \cup made) /\ ~Failed(l)
    BY <1>8, <1>12 DEF Node, Failed
  <2>5. l.at \in DOMAIN t
    <3>1. CASE Len(p) = 0
      <4>1. Prefix(names, 0) = <<>>
        BY DEF Prefix
      <4> QED
        BY <2>4, <3>1, <4>1, TreeAssumption
    <3>2. CASE Len(p) # 0
      <4>1. Len(p) \in DOMAIN p
        BY <1>1, <3>2
      <4> HIDE DEF p
      <4> QED
        BY <1>9, <1>12, <2>4, <4>1
    <3> QED
      BY <3>1, <3>2
  <2>6. \A x \in gens : x \in made
    <3> SUFFICES ASSUME NEW d \in Parts(e) PROVE below.expr[d, TRUE].gen \in made
      OBVIOUS
    <3> QED
      BY <1>2, <1>5
  <2>7. \A x \in made : x \in {0} \cup gens
    <3> SUFFICES ASSUME NEW i \in DOMAIN p PROVE names[i].gen \in {0} \cup gens
      OBVIOUS
    <3>1. CASE IsLookup(p[i])
      BY <1>2, <1>4, <3>1
    <3>2. CASE ~IsLookup(p[i])
      BY <1>2, <3>2, Made
    <3> QED
      BY <3>1, <3>2
  <2>8. \A d \in Parts(e) : ~Failed(below.expr[d, TRUE])
    BY <1>2, <1>5, <2>1, Kinds
  <2> HIDE DEF made, gens, p
  <2>9. l.gen \in {0} \cup gens /\ l.gen \in 0..MaxEvents /\ \A g \in gens : g <= l.gen
    BY <2>3, <2>4, <2>6, <2>7
  <2> QED
    BY <2>4, <2>5, <2>8, <2>9 DEF l, gens, p
<1> QED
  BY <1>11, <1>12

\* What an if takes is well formed.
LEMMA BranchWell ==
  ASSUME NEW t, NEW b, AllWell(t, b), NEW e \in Expressions, e.op = "if", NEW ready \in BOOLEAN
  PROVE  WellFormed(Branch(b, e, ready))
<1> DEFINE S == Decisive(b, e, ready)
           v(i) == b.expr[e.cases[i].cond, ready]
<1>1. Branch(b, e, ready) =
        IF S = {} THEN IF ready THEN b.expr[e.else, FALSE] ELSE Failure
        ELSE IF Failed(v(Min(S))) THEN v(Min(S))
        ELSE IF v(Min(S)).type # "boolean" THEN Failure
        ELSE b.expr[e.cases[Min(S)].then, FALSE]
  BY Zenon DEF Branch
<1>2. S # {} => Min(S) \in DOMAIN e.cases
  <2>1. S \subseteq DOMAIN e.cases
    BY Zenon DEF Decisive
  <2>2. S \subseteq Nat
    BY <2>1, Operands
  <2> HIDE DEF S
  <2> QED
    BY <2>1, <2>2, LeastIsMin
<1>3. WellFormed(Failure)
  BY DEF WellFormed
<1>4. WellFormed(b.expr[e.else, FALSE])
  BY Operands DEF AllWell
<1>5. S # {} => WellFormed(v(Min(S))) /\ WellFormed(b.expr[e.cases[Min(S)].then, FALSE])
  <2> HIDE DEF S
  <2> QED
    BY <1>2, Operands DEF AllWell
<1> HIDE DEF S, v
<1> QED
  BY <1>1, <1>3, <1>4, <1>5, Zenon

\* The last events are values.
Heard(t, heard) == \A n \in Sources(t) : heard[n] # Nothing => IsValue(heard[n])

\* Each level is well formed if the one below is.
LEMMA LevelWell ==
  ASSUME NEW t \in Trees, NEW chk, NEW heard, Heard(t, heard), NEW b, AllWell(t, b), NEW c,
         Computes(t, chk, heard, b, c)
  PROVE  AllWell(t, c)
<1>1. ASSUME NEW n \in DOMAIN t PROVE WellFormed(ComputeNode(t, heard, b, n))
  <2>1. CASE t[n].input = "script"
    <3>1. t[n].script \in Expressions
      BY <2>1, TreeAssumption DEF Scripts
    <3> QED
      BY <2>1, <3>1 DEF ComputeNode, AllWell
  <2>2. CASE t[n].input = "source"
    <3>1. n \in Sources(t)
      BY <2>2 DEF Sources
    <3>2. ComputeNode(t, heard, b, n) =
            IF heard[n] # Nothing THEN heard[n]
            ELSE IF Append(n, "default") \in DOMAIN t THEN b.node[Append(n, "default")]
            ELSE Failure
      BY <2>2 DEF ComputeNode
    <3>3. heard[n] # Nothing => IsValue(heard[n])
      BY <3>1 DEF Heard
    <3> QED
      BY <3>2, <3>3, Zenon DEF AllWell, WellFormed
  <2>3. CASE t[n].input \notin {"script", "source"}
    BY <2>3 DEF ComputeNode, WellFormed
  <2> QED
    BY <2>1, <2>2, <2>3
<1>2. ASSUME NEW e \in Expressions, NEW ready \in BOOLEAN
      PROVE  WellFormed(EvalExpr(t, chk, b, e, ready))
  <2>1. CASE e.op = "value"
    <3>1. IsValue(e.value)
      BY <2>1, ExpressionAssumption, Given0
    <3> QED
      BY <2>1, <3>1 DEF EvalExpr, WellFormed
  <2>2. CASE e.op = "path"
    <3> DEFINE l == Lookup(t, b, e.path)
    <3>1. e \in PathExprs
      BY <2>2 DEF PathExprs
    <3>2. EvalExpr(t, chk, b, e, ready) = IF Failed(l) THEN l ELSE WithGeneration(b.node[l.at], l.gen)
      BY <2>2 DEF EvalExpr
    <3>3. (Failed(l) => WellFormed(l)) /\ (~Failed(l) => l.at \in DOMAIN t /\ l.gen \in 0..MaxEvents)
      BY <3>1, LookupIs, Zenon
    <3> HIDE DEF l
    <3>4. ASSUME ~Failed(l) PROVE WellFormed(WithGeneration(b.node[l.at], l.gen))
      <4>1. WellFormed(b.node[l.at])
        BY <3>3, <3>4 DEF AllWell
      <4>2. CASE Failed(b.node[l.at])
        BY <4>1, <4>2 DEF WithGeneration
      <4>3. CASE ~Failed(b.node[l.at])
        <5>1. IsValue(b.node[l.at])
          BY <4>1, <4>3, Kinds DEF WellFormed
        <5> QED
          BY <3>3, <3>4, <5>1, Generation DEF WellFormed
      <4> QED
        BY <4>2, <4>3
    <3> QED
      BY <3>2, <3>3, <3>4
  <2>3. CASE e.op \in {"negate", "str"}
    <3>1. WellFormed(b.expr[e.arg, ready])
      BY <2>3, Operands DEF AllWell
    <3>2. \A x : WellFormed(Str(x))
      BY Made DEF WellFormed
    <3> QED
      BY <2>3, <3>1, <3>2 DEF EvalExpr
  <2>4. CASE e.op = "if"
    BY <2>4, BranchWell DEF EvalExpr
  <2>5. CASE e.op \notin {"value", "path", "negate", "str", "if"}
    <3>1. WellFormed(b.expr[e.left, ready]) /\ WellFormed(b.expr[e.right, ready])
      BY <2>5, Operands DEF AllWell
    <3>2. EvalExpr(t, chk, b, e, ready) =
            Apply(chk, e.op, b.expr[e.left, ready], b.expr[e.right, ready])
      BY <2>5 DEF EvalExpr
    <3>3. WellFormed(Apply(chk, e.op, b.expr[e.left, ready], b.expr[e.right, ready]))
      <4>1. \A l, r : WellFormed(l) /\ WellFormed(r) => WellFormed(Apply(chk, e.op, l, r))
        BY ApplyIs
      <4> QED
        BY <3>1, <4>1, Zenon
    <3> QED
      BY <3>2, <3>3, Zenon
  <2> QED
    BY <2>1, <2>2, <2>3, <2>4, <2>5
<1> QED
  BY <1>1, <1>2 DEF Computes, AllWell

\* By induction, all levels are.
LEMMA LevelsWell ==
  ASSUME NEW t \in Trees, NEW chk, NEW heard, Heard(t, heard), NEW k \in 0..Depth
  PROVE  AllWell(t, Levels(t, chk, heard)[k])
<1> DEFINE L == Levels(t, chk, heard)
           Is(m) == m <= Depth => AllWell(t, L[m])
           K == {m \in Nat : Is(m)}
<1>1. AllWell(t, L[0])
  <2>1. WellFormed(Panic)
    BY DEF WellFormed
  <2> QED
    BY <2>1, NoRoom DEF AllWell
<1>2. \A m \in 1..Depth : Computes(t, chk, heard, L[m - 1], L[m])
  BY LevelAt
<1> HIDE DEF L
<1>3. ASSUME NEW m \in Nat, Is(m) PROVE Is(m + 1)
  <2> SUFFICES ASSUME m + 1 <= Depth PROVE AllWell(t, L[m + 1])
    OBVIOUS
  <2>1. m + 1 \in 1..Depth /\ (m + 1) - 1 = m /\ m <= Depth
    BY BoundAssumption
  <2>2. Computes(t, chk, heard, L[m], L[m + 1]) /\ AllWell(t, L[m])
    BY <1>2, <1>3, <2>1
  <2> QED
    BY <2>2, LevelWell
<1>4. k \in Nat /\ k <= Depth
  BY BoundAssumption
<1>5. Is(0)
  BY <1>1
<1> HIDE DEF Is
<1>6. 0 \in K /\ \A m \in Nat : m \in K => m + 1 \in K
  BY <1>3, <1>5
<1>7. Is(k)
  BY <1>4, <1>6, Induction
<1> QED
  BY <1>4, <1>7 DEF Is, L

\* The events that the cache holds are values.
LEMMA CacheWell == TypeOK => \A n \in Sources(tree) : cache[n] # Nothing => IsValue(cache[n])
<1> SUFFICES ASSUME TypeOK, NEW n \in Sources(tree), cache[n] # Nothing PROVE IsValue(cache[n])
  OBVIOUS
<1>1. PICK v \in tree[n].reports, g \in 1..generation : cache[n] = WithGeneration(v, g)
  BY DEF TypeOK
<1>2. IsValue(v)
  BY TreeAssumption, Given0 DEF TypeOK
<1>3. g \in 0..MaxEvents
  BY BoundAssumption DEF TypeOK
<1> QED
  BY <1>1, <1>2, <1>3, Generation

\* So are those of the tree as it is now.
LEMMA NowWell ==
  ASSUME TypeOK, NEW k \in 0..Depth PROVE AllWell(tree, Now(k))
<1>1. PICK t, chk, heard : t = tree /\ chk = checked /\ heard = cache
  OBVIOUS
<1>2. t \in Trees
  BY <1>1 DEF TypeOK
<1>3. Heard(t, heard)
  BY <1>1, CacheWell DEF Heard
<1>4. AllWell(t, Levels(t, chk, heard)[k])
  BY <1>2, <1>3, LevelsWell
<1> QED
  BY <1>1, <1>4 DEF Now

-----------------------------------------------------------------------------
\* The numbers that a checked build computes.  The expressions in an expression are itself
\* and those in its parts.
LEMMA WithinEquation ==
  Within = [e \in Expressions |-> {e} \cup UNION {Within[d] : d \in Parts(e)}]
<1> DEFINE base == [e \in Expressions |-> {e}]
           below == [e \in Expressions |-> Parts(e)]
<1>1. \A e \in Expressions : \A d \in below[e] : d \in Expressions /\ d \in Parts(e)
  BY ExpressionAssumption
<1>2. PICK f : Collects(f, Expressions, base, below)
  <2> HIDE DEF base, below
  <2>1. Expressions \in SUBSET Expressions
    OBVIOUS
  <2> QED
    BY <1>1, <2>1, Recursion, Zenon
<1>3. \A e \in Expressions : Collect(f, base, below, e) = {e} \cup UNION {f[d] : d \in Parts(e)}
  BY DEF Collect
<1>4. f = [e \in Expressions |-> {e} \cup UNION {f[d] : d \in Parts(e)}]
  <2> HIDE DEF base, below
  <2> QED
    BY <1>2, <1>3, Zenon DEF Collects
<1> QED
  BY <1>4, Zenon DEF Within

\* What exact numbers are, given those of the parts.
ExactStep(f, e) ==
  CASE e.op = "negate" -> {<<x[1], -x[2]>> : x \in f[e.arg]}
    [] e.op \in {"add", "subtract", "multiply", "divide", "modulo"} ->
         UNION {Results(e.op, x[1], x[2]) : x \in f[e.left] \X f[e.right]}
    [] OTHER -> {Number(Evaluated(e))}

\* They need no more than those of the parts.
LEMMA ExactSame ==
  ASSUME NEW e \in Expressions, NEW f, NEW g, \A d \in Parts(e) : f[d] = g[d]
  PROVE  ExactStep(f, e) = ExactStep(g, e)
<1>1. CASE e.op = "negate"
  <2>1. f[e.arg] = g[e.arg]
    BY <1>1, Operands
  <2> QED
    BY <1>1, <2>1 DEF ExactStep
<1>2. CASE e.op \in {"add", "subtract", "multiply", "divide", "modulo"}
  <2>1. f[e.left] = g[e.left] /\ f[e.right] = g[e.right]
    BY <1>2, Operands
  <2> QED
    BY <1>2, <2>1 DEF ExactStep
<1>3. CASE e.op \notin {"negate", "add", "subtract", "multiply", "divide", "modulo"}
  BY <1>3 DEF ExactStep
<1> QED
  BY <1>1, <1>2, <1>3

\* By induction over the heights: they are what the definition says.
LEMMA ExactEquation == Exact = [e \in Expressions |-> ExactStep(Exact, e)]
<1> DEFINE Low(k) == Lower(Expressions, k)
           Is(f, k) == f = [e \in Low(k) |-> ExactStep(f, e)]
           K == {k \in Nat : \E f : Is(f, k)}
<1>0. Expressions \in SUBSET Expressions
  OBVIOUS
<1>1. 0 \in K
  <2>1. Low(0) = {}
    BY <1>0, LowerAll
  <2>2. Is([e \in {} |-> e], 0)
    BY <2>1
  <2> QED
    BY <2>2
<1>2. ASSUME NEW k \in Nat, k \in K PROVE k + 1 \in K
  <2>1. PICK f : Is(f, k)
    BY <1>2
  <2> DEFINE g == [e \in Low(k + 1) |-> ExactStep(f, e)]
  <2>2. ASSUME NEW e \in Low(k + 1) PROVE ExactStep(f, e) = ExactStep(g, e)
    <3>0. e \in Expressions /\ Heights[e] < k + 1
      BY DEF Lower
    <3>1. \A d \in Parts(e) : d \in Low(k) /\ d \in Low(k + 1)
      <4> SUFFICES ASSUME NEW d \in Parts(e) PROVE d \in Low(k) /\ d \in Low(k + 1)
        OBVIOUS
      <4>1. d \in Expressions
        BY <3>0, ExpressionAssumption
      <4>2. Heights[d] \in 0..Depth /\ Heights[e] \in 0..Depth /\ Heights[d] < Heights[e]
        BY <3>0, <4>1, ExpressionAssumption
      <4> QED
        BY <3>0, <4>1, <4>2, BoundAssumption DEF Lower
    <3>2. \A d \in Parts(e) : f[d] = g[d]
      <4> HIDE DEF Low
      <4> QED
        BY <2>1, <3>1, Zenon
    <3> HIDE DEF g
    <3> QED
      BY <3>0, <3>2, ExactSame, Zenon
  <2>3. Is(g, k + 1)
    <3> HIDE DEF Low
    <3> QED
      BY <2>2, Zenon
  <2> HIDE DEF Is
  <2> QED
    BY <2>3
<1>3. PICK f : Is(f, Depth + 1)
  <2> HIDE DEF Is
  <2> QED
    BY <1>1, <1>2, Induction, BoundAssumption
<1>4. f = [e \in Expressions |-> ExactStep(f, e)]
  BY <1>0, <1>3, LowerAll
<1> QED
  BY <1>4, Zenon DEF Exact, ExactStep

\* A number made by an operator of arithmetic is the right one.
ApplyExact(chk, op, l, r) ==
  LET v == Apply(chk, op, l, r)
  IN /\ ~Failed(v) => l.type = r.type
     /\ chk /\ op \in Arith /\ v.type \in {"integer", "float"} =>
          l.type \in {"integer", "float"} /\ Number(v) \in Results(op, Number(l), Number(r))

\* As ApplyIs says.
LEMMA ApplyNumber ==
  ASSUME NEW chk, NEW op, NEW l, NEW r, WellFormed(l), WellFormed(r)
  PROVE  ApplyExact(chk, op, l, r)
BY ApplyIs DEF ApplyExact

\* An expression with no minus sign, as far as it can be computed in k calls, is exact.
NumberExact(k, e) ==
  /\ checked /\ \A d \in Within[e] : d.op # "negate"
  /\ Now(k).expr[e, TRUE].type \in {"integer", "float"}
  => Number(Now(k).expr[e, TRUE]) \in Exact[e]

\* By induction over the levels: the operands of a number are numbers.
LEMMA NumbersExact ==
  ASSUME TypeOK, NEW k \in 0..Depth, NEW e \in Expressions PROVE NumberExact(k, e)
<1> DEFINE Is(m) == m <= Depth => \A d \in Expressions : NumberExact(m, d)
           K == {m \in Nat : Is(m)}
<1>0. tree \in Trees
  BY DEF TypeOK
<1>1. ASSUME NEW d \in Expressions PROVE NumberExact(0, d)
  <2>1. Now(0).expr[d, TRUE] = Panic
    BY <1>0, NowLevels
  <2>2. Panic.type \notin {"integer", "float"}
    BY DEF Panic, Value
  <2> QED
    BY <2>1, <2>2, Zenon DEF NumberExact
<1>2. ASSUME NEW m \in 1..Depth, \A c \in Expressions : NumberExact(m - 1, c),
             NEW d \in Expressions
      PROVE  NumberExact(m, d)
  <2> SUFFICES ASSUME checked, \A c \in Within[d] : c.op # "negate",
                      Now(m).expr[d, TRUE].type \in {"integer", "float"}
               PROVE  Number(Now(m).expr[d, TRUE]) \in Exact[d]
    BY Zenon DEF NumberExact
  <2>1. d.op # "negate" /\ \A c \in Parts(d) : \A x \in Within[c] : x.op # "negate"
    <3>1. Within[d] = {d} \cup UNION {Within[c] : c \in Parts(d)}
      BY WithinEquation, Zenon
    <3> QED
      BY <3>1
  <2>2. Exact[d] = ExactStep(Exact, d)
    BY ExactEquation, Zenon
  <2>3. m - 1 \in 0..Depth /\ m \in 0..Depth
    BY Counting
  <2>4. CASE d.op \in Arith
    <3>1. PICK l, r : l = Now(m - 1).expr[d.left, TRUE] /\ r = Now(m - 1).expr[d.right, TRUE]
      BY Zenon
    <3>2. /\ d.left \in Parts(d) /\ d.left \in Expressions
          /\ d.right \in Parts(d) /\ d.right \in Expressions
      BY <2>4, Operands DEF Arith
    <3>3. WellFormed(l) /\ WellFormed(r)
      BY <2>3, <3>1, <3>2, NowWell, Zenon DEF AllWell
    <3>4. Now(m).expr[d, TRUE] = EvalExpr(tree, checked, Now(m - 1), d, TRUE)
      BY <1>0, NowLevels
    <3>5. Now(m).expr[d, TRUE] = Apply(checked, d.op, l, r)
      BY <2>4, <3>1, <3>4 DEF EvalExpr, Arith
    <3>6. PICK v : v = Apply(checked, d.op, l, r)
      OBVIOUS
    <3>7. v.type \in {"integer", "float"} /\ ~Failed(v)
      BY <3>5, <3>6 DEF Failed
    <3>8. /\ l.type = r.type /\ l.type \in {"integer", "float"}
          /\ Number(v) \in Results(d.op, Number(l), Number(r))
      <4>1. ApplyExact(checked, d.op, l, r)
        BY <3>3, ApplyNumber
      <4> QED
        BY <2>4, <3>6, <3>7, <4>1, Zenon DEF ApplyExact
    <3>9. Number(l) \in Exact[d.left] /\ Number(r) \in Exact[d.right]
      <4>1. NumberExact(m - 1, d.left) /\ NumberExact(m - 1, d.right)
        BY <1>2, <3>2
      <4>2. r.type \in {"integer", "float"}
        BY <3>8
      <4> QED
        BY <2>1, <3>1, <3>2, <3>8, <4>1, <4>2, Zenon DEF NumberExact
    <3>10. Exact[d] = UNION {Results(d.op, x[1], x[2]) : x \in Exact[d.left] \X Exact[d.right]}
      BY <2>2, <2>4 DEF ExactStep, Arith
    <3>11. Number(v) \in Exact[d]
      <4> DEFINE x == <<Number(l), Number(r)>>
      <4>1. x \in Exact[d.left] \X Exact[d.right] /\ x[1] = Number(l) /\ x[2] = Number(r)
        BY <3>9
      <4> HIDE DEF x
      <4> QED
        BY <3>8, <3>10, <4>1, Zenon
    <3> QED
      BY <3>5, <3>6, <3>11
  <2>5. CASE d.op \notin Arith
    <3>1. Exact[d] = {Number(Evaluated(d))}
      BY <2>1, <2>2, <2>5 DEF ExactStep, Arith
    <3>2. Now(m).expr[d, TRUE] # Panic
      <4>1. Panic.type \notin {"integer", "float"}
        BY DEF Panic, Value
      <4> QED
        BY <4>1, Zenon
    <3>3. Evaluated(d) = Now(m).expr[d, TRUE]
      BY <1>0, <2>3, <3>2, NowLevels, NowMore
    <3> QED
      BY <3>1, <3>3
  <2> QED
    BY <2>4, <2>5
<1>3. ASSUME NEW m \in Nat, Is(m) PROVE Is(m + 1)
  <2> SUFFICES ASSUME m + 1 <= Depth PROVE \A d \in Expressions : NumberExact(m + 1, d)
    OBVIOUS
  <2>1. m + 1 \in 1..Depth /\ (m + 1) - 1 = m /\ m <= Depth
    BY BoundAssumption
  <2>2. \A c \in Expressions : NumberExact((m + 1) - 1, c)
    BY <1>3, <2>1
  <2> QED
    BY <1>2, <2>1, <2>2
<1>4. k \in Nat /\ k <= Depth
  BY BoundAssumption
<1>5. Is(0)
  BY <1>1
<1> HIDE DEF Is
<1>6. 0 \in K /\ \A m \in Nat : m \in K => m + 1 \in K
  BY <1>3, <1>5
<1>7. Is(k)
  BY <1>4, <1>6, Induction
<1> QED
  BY <1>4, <1>7 DEF Is

\* A sink is what its script computes to.
LEMMA Numbered == TypeOK /\ Unsigned => NumbersTrue
<1> SUFFICES ASSUME TypeOK, Unsigned, NEW s \in Sinks(tree) \cap Scripts(tree),
                    checked, Computed(s).type \in {"integer", "float"}
             PROVE  Number(Computed(s)) \in Exact[tree[s].script]
  BY DEF NumbersTrue
<1>1. tree \in Trees /\ Computed(s) # Panic
  <2>1. Panic.type \notin {"integer", "float"}
    BY DEF Panic, Value
  <2> QED
    BY <2>1, Zenon DEF TypeOK
<1>2. /\ Depth - 1 \in 1..Depth /\ tree[s].script \in Expressions
      /\ Computed(s) = Now(Depth - 1).expr[tree[s].script, TRUE]
  BY <1>1, SinkScript
<1>3. Depth - 1 \in 0..Depth
  BY <1>2, Counting
<1>4. NumberExact(Depth - 1, tree[s].script)
  BY <1>2, <1>3, NumbersExact
<1>5. \A d \in Within[tree[s].script] : d.op # "negate"
  BY <1>1 DEF Unsigned
<1> QED
  BY <1>2, <1>4, <1>5, Zenon DEF NumberExact

\* In trees whose scripts have no minus sign, an integer that a checked build computes is the
\* right one, and a float is as close to what it should be as every operation lets it be: for
\* any width of integers, and any width and range of floats that the integers fit into.
THEOREM NumbersAlways == Unsigned /\ Spec => []NumbersTrue
<1> SUFFICES ASSUME Unsigned PROVE Spec => []NumbersTrue
  OBVIOUS
<1>1. TypeOK => NumbersTrue
  BY Numbered
<1> QED
  BY <1>1, TypeCorrect, PTL

-----------------------------------------------------------------------------
\* The events that a latch goes by.  What is visited is what the definition says, one level
\* of calls after the other:
NoVisits == [node |-> [n \in DOMAIN tree |-> {}], expr |-> [e \in Expressions |-> {}]]
VisitStep(f, k) == IF k = 0 THEN NoVisits ELSE VisitsOf(Now(Depth), f[k - 1])

\* By induction over the levels, as for LevelsEquation.
LEMMA VisitsEquation == Visits = [k \in 0..Depth |-> VisitStep(Visits, k)]
<1> DEFINE Is(f, m) == f = [k \in 0..m |-> VisitStep(f, k)]
           K == {m \in Nat : \E f : Is(f, m)}
<1>1. 0 \in K
  <2>1. Is([k \in 0..0 |-> NoVisits], 0)
    BY DEF VisitStep
  <2> HIDE DEF Is
  <2> QED
    BY <2>1
<1>2. ASSUME NEW m \in Nat, m \in K PROVE m + 1 \in K
  <2>1. PICK f : Is(f, m)
    BY <1>2
  <2> DEFINE g == [k \in 0..(m + 1) |-> VisitStep(f, k)]
  <2>2. ASSUME NEW k \in 0..(m + 1) PROVE VisitStep(f, k) = VisitStep(g, k)
    <3>1. CASE k = 0
      BY <3>1 DEF VisitStep
    <3>2. CASE k # 0
      <4>1. k - 1 \in 0..m /\ k - 1 \in 0..(m + 1)
        BY <3>2
      <4>2. f[k - 1] = g[k - 1]
        BY <2>1, <4>1, Zenon
      <4> HIDE DEF g
      <4> QED
        BY <3>2, <4>2, Zenon DEF VisitStep
    <3> QED
      BY <3>1, <3>2
  <2>3. Is(g, m + 1)
    BY <2>2, Zenon
  <2> HIDE DEF Is
  <2> QED
    BY <2>3
<1>3. PICK f : Is(f, Depth)
  <2> HIDE DEF Is
  <2> QED
    BY <1>1, <1>2, Induction, BoundAssumption
<1> QED
  BY <1>3, Zenon DEF Visits, VisitStep, NoVisits, Now

\* The same for a node and an expression.
LEMMA VisitsAt ==
  ASSUME NEW k \in 1..Depth
  PROVE  /\ \A n \in DOMAIN tree : Visits[k].node[n] = {n} \cup
              CASE tree[n].input = "script" -> Visits[k - 1].expr[tree[n].script]
                [] tree[n].input = "source" /\ cache[n] = Nothing
                     /\ Append(n, "default") \in DOMAIN tree ->
                     Visits[k - 1].node[Append(n, "default")]
                [] OTHER -> {}
         /\ \A e \in Expressions : Visits[k].expr[e] =
              (UNION {Visits[k - 1].expr[d] : d \in Parts(e)}) \cup
                IF e.op = "path" /\ ~Failed(Lookup(tree, Now(Depth), e.path))
                THEN Visits[k - 1].node[Lookup(tree, Now(Depth), e.path).at] ELSE {}
<1>1. k \in 0..Depth /\ k # 0
  BY Counting
<1>2. Visits[k] = VisitsOf(Now(Depth), Visits[k - 1])
  BY <1>1, VisitsEquation, Zenon DEF VisitStep
<1> DEFINE node(n) == {n} \cup
             CASE tree[n].input = "script" -> Visits[k - 1].expr[tree[n].script]
               [] tree[n].input = "source" /\ cache[n] = Nothing
                    /\ Append(n, "default") \in DOMAIN tree ->
                    Visits[k - 1].node[Append(n, "default")]
               [] OTHER -> {}
           expr(e) == (UNION {Visits[k - 1].expr[d] : d \in Parts(e)}) \cup
             IF e.op = "path" /\ ~Failed(Lookup(tree, Now(Depth), e.path))
             THEN Visits[k - 1].node[Lookup(tree, Now(Depth), e.path).at] ELSE {}
<1>3. Visits[k] = [node |-> [n \in DOMAIN tree |-> node(n)], expr |-> [e \in Expressions |-> expr(e)]]
  BY <1>2, Zenon DEF VisitsOf
<1> HIDE DEF node, expr
<1>4. Visits[k].node = [n \in DOMAIN tree |-> node(n)] /\ Visits[k].expr = [e \in Expressions |-> expr(e)]
  BY <1>3
<1>5. \A n \in DOMAIN tree : Visits[k].node[n] = node(n)
  BY <1>4
<1>6. \A e \in Expressions : Visits[k].expr[e] = expr(e)
  BY <1>4
<1> QED
  BY <1>5, <1>6, Zenon DEF node, expr

-----------------------------------------------------------------------------
\* A generation is that of the last event at some nodes.
Latest(g, nodes) == g \in {0} \cup EventsOn(nodes) /\ \A x \in EventsOn(nodes) : x <= g

\* Events have numbers, and are those of the nodes of each set.
LEMMA EventsAre ==
  ASSUME TypeOK
  PROVE  /\ \A nodes : EventsOn(nodes) \subseteq Nat
         /\ \A x, y : EventsOn(x \cup y) = EventsOn(x) \cup EventsOn(y)
         /\ \A X : EventsOn(UNION X) = UNION {EventsOn(x) : x \in X}
<1>1. ASSUME NEW nodes PROVE EventsOn(nodes) \subseteq Nat
  <2> SUFFICES ASSUME NEW n \in Sources(tree), cache[n] # Nothing PROVE cache[n].gen \in Nat
    BY DEF EventsOn
  <2>1. cache[n].gen \in 0..MaxEvents
    BY CacheWell DEF IsValue
  <2> QED
    BY <2>1
<1>2. ASSUME NEW x, NEW y PROVE EventsOn(x \cup y) = EventsOn(x) \cup EventsOn(y)
  BY DEF EventsOn
<1>3. ASSUME NEW X PROVE EventsOn(UNION X) = UNION {EventsOn(x) : x \in X}
  BY DEF EventsOn
<1> QED
  BY <1>1, <1>2, <1>3

\* The latest generation of two is that of the last event at the nodes of both.
LEMMA LatestJoin ==
  ASSUME TypeOK, NEW A, NEW B, NEW a \in Nat, NEW b \in Nat, Latest(a, A), Latest(b, B),
         NEW g \in {a, b}, a <= g, b <= g
  PROVE  Latest(g, A \cup B)
<1>1. EventsOn(A \cup B) = EventsOn(A) \cup EventsOn(B)
  BY EventsAre
<1>2. EventsOn(A) \subseteq Nat /\ EventsOn(B) \subseteq Nat
  BY EventsAre
<1>3. \A x \in EventsOn(A) : x <= g
  <2> SUFFICES ASSUME NEW x \in EventsOn(A) PROVE x <= g
    OBVIOUS
  <2>1. x \in Nat /\ x <= a
    BY <1>2 DEF Latest
  <2> QED
    BY <2>1
<1>4. \A x \in EventsOn(B) : x <= g
  <2> SUFFICES ASSUME NEW x \in EventsOn(B) PROVE x <= g
    OBVIOUS
  <2>1. x \in Nat /\ x <= b
    BY <1>2 DEF Latest
  <2> QED
    BY <2>1
<1> QED
  BY <1>1, <1>3, <1>4 DEF Latest

\* The latest generation of any is that of the last event at the nodes of all.
LEMMA LatestUnion ==
  ASSUME TypeOK, NEW D, NEW f, NEW S, \A d \in D : f[d] \in Nat /\ Latest(f[d], S[d]),
         NEW N, \A x : x \in N <=> \E d \in D : x \in S[d],
         NEW g, g = 0 \/ \E d \in D : g = f[d], \A d \in D : f[d] <= g
  PROVE  Latest(g, N)
<1>1. \A x : x \in EventsOn(N) <=> \E d \in D : x \in EventsOn(S[d])
  BY DEF EventsOn
<1>2. \A x \in EventsOn(N) : x <= g
  <2> SUFFICES ASSUME NEW x \in EventsOn(N) PROVE x <= g
    OBVIOUS
  <2>1. PICK d \in D : x \in EventsOn(S[d])
    BY <1>1
  <2>2. x \in Nat /\ x <= f[d] /\ f[d] \in Nat /\ f[d] <= g
    BY <2>1, EventsAre DEF Latest
  <2>3. g \in Nat
    OBVIOUS
  <2> QED
    BY <2>2, <2>3
<1>3. g \in {0} \cup EventsOn(N)
  <2>1. CASE g = 0
    BY <2>1
  <2>2. CASE g # 0
    <3>1. PICK d \in D : g = f[d]
      BY <2>2
    <3>2. f[d] \in {0} \cup EventsOn(S[d])
      BY DEF Latest
    <3> QED
      BY <1>1, <2>2, <3>1, <3>2
  <2> QED
    BY <2>1, <2>2
<1> QED
  BY <1>2, <1>3 DEF Latest

\* What an expression computes to in so many calls.
At(k, e) == Now(k).expr[e, TRUE]

\* What is computed has a number of an event as its generation.
LEMMA AtWell ==
  ASSUME TypeOK, NEW k \in 0..Depth
  PROVE  /\ \A e \in Expressions : WellFormed(At(k, e)) /\ (~Failed(At(k, e)) => At(k, e).gen \in Nat)
         /\ \A n \in DOMAIN tree : WellFormed(Now(k).node[n])
                                     /\ (~Failed(Now(k).node[n]) => Now(k).node[n].gen \in Nat)
<1>1. \A v : WellFormed(v) /\ ~Failed(v) => v.gen \in Nat
  <2> SUFFICES ASSUME NEW v, IsValue(v) PROVE v.gen \in Nat
    BY Kinds DEF WellFormed
  <2>1. v.gen \in 0..MaxEvents
    BY DEF IsValue
  <2> QED
    BY <2>1
<1>2. AllWell(tree, Now(k))
  BY NowWell
<1>3. \A e \in Expressions : WellFormed(At(k, e))
  BY <1>2, Zenon DEF AllWell, At
<1> QED
  BY <1>1, <1>2, <1>3, Zenon DEF AllWell

\* Where a path leads that can be computed, and the generation that it gives.
PathGens(k, e) ==
  LET l == Lookup(tree, Now(Depth), e.path)
      node == Now(k - 1).node[l.at]
      gens == {At(k - 1, d).gen : d \in Parts(e)}
  IN /\ ~Failed(l) /\ l.at \in DOMAIN tree /\ ~Failed(node)
     /\ \E g \in {0} \cup gens : /\ \A x \in gens : x <= g
                                 /\ At(k, e).gen \in {g, node.gen}
                                 /\ g <= At(k, e).gen /\ node.gen <= At(k, e).gen

\* Deeper levels follow the path to the same node.
LEMMA PathGen ==
  ASSUME TypeOK, NEW k \in 1..Depth, NEW e \in Expressions, e.op = "path", ~Failed(At(k, e))
  PROVE  PathGens(k, e) /\ \A d \in Parts(e) : ~Failed(At(k - 1, d))
<1> DEFINE b == Now(k - 1)
           l == Lookup(tree, b, e.path)
           node == b.node[l.at]
           gens == {At(k - 1, d).gen : d \in Parts(e)}
<1>1. k - 1 \in 0..Depth /\ tree \in Trees
  BY Counting DEF TypeOK
<1>2. At(k, e) = IF Failed(l) THEN l ELSE WithGeneration(node, l.gen)
  <2>1. At(k, e) = EvalExpr(tree, checked, b, e, TRUE)
    BY <1>1, NowLevels DEF At
  <2> QED
    BY <2>1 DEF EvalExpr
<1>3. e \in PathExprs
  BY DEF PathExprs
<1>4. AllWell(tree, b)
  BY <1>1, NowWell
<1>5. ~Failed(l)
  BY <1>2, Zenon
<1>6. /\ l.at \in DOMAIN tree /\ l.gen \in 0..MaxEvents
      /\ \A d \in Parts(e) : ~Failed(At(k - 1, d))
      /\ l.gen \in {0} \cup gens /\ \A g \in gens : g <= l.gen
  BY <1>1, <1>3, <1>4, <1>5, LookupIs, Zenon DEF At
<1>7. Lookup(tree, Now(Depth), e.path) = l
  <2>1. More(tree, b, Now(Depth))
    BY <1>1, NowMore DEF More
  <2>2. l # Panic
    BY <1>5, PanicFailed
  <2> QED
    BY <1>3, <2>1, <2>2, LookupMore, Zenon
<1> HIDE DEF l, gens, b
<1>8. ~Failed(node)
  BY <1>2, <1>5, Zenon DEF WithGeneration
<1>9. IsValue(node)
  BY <1>4, <1>6, <1>8, Kinds, Zenon DEF AllWell, WellFormed
<1>10. At(k, e) = WithGeneration(node, l.gen)
  BY <1>2, <1>5
<1> HIDE DEF node
<1>11. At(k, e).gen \in {node.gen, l.gen} /\ node.gen <= At(k, e).gen /\ l.gen <= At(k, e).gen
  BY <1>6, <1>9, <1>10, Generation
<1> QED
  BY <1>5, <1>6, <1>7, <1>8, <1>11, Zenon DEF PathGens, node, b, gens

\* What is computed of operands has the latest of their generations.
LEMMA OperandGens ==
  ASSUME TypeOK, NEW k \in 1..Depth, NEW e \in Expressions,
         e.op \notin {"path", "str", "if"}, ~Failed(At(k, e))
  PROVE  LET gens == {At(k - 1, d).gen : d \in Parts(e)}
         IN /\ \A d \in Parts(e) : ~Failed(At(k - 1, d))
            /\ At(k, e).gen \in {0} \cup gens /\ \A g \in gens : g <= At(k, e).gen
<1>1. k - 1 \in 0..Depth /\ tree \in Trees
  BY Counting DEF TypeOK
<1>2. At(k, e) = EvalExpr(tree, checked, Now(k - 1), e, TRUE)
  BY <1>1, NowLevels DEF At
<1>3. CASE e.op = "value"
  <2>1. At(k, e) = e.value /\ Parts(e) = {}
    BY <1>2, <1>3 DEF EvalExpr, Parts
  <2>2. At(k, e).gen = 0
    BY <1>3, <2>1, ExpressionAssumption, Given0
  <2> QED
    BY <2>1, <2>2
<1>4. CASE e.op = "negate"
  <2>1. At(k, e) = At(k - 1, e.arg) /\ Parts(e) = {e.arg} /\ e.arg \in Expressions
    BY <1>2, <1>4, Operands DEF EvalExpr, Parts, At
  <2>2. At(k - 1, e.arg).gen \in Nat
    BY <1>1, <2>1, AtWell
  <2> QED
    BY <2>1, <2>2
<1>5. CASE e.op \notin {"value", "path", "negate", "str", "if"}
  <2> DEFINE l == At(k - 1, e.left)
             r == At(k - 1, e.right)
             v == At(k, e)
  <2>1. v = Apply(checked, e.op, l, r)
    BY <1>2, <1>5 DEF EvalExpr, At
  <2>2. Parts(e) = {e.left, e.right} /\ e.left \in Expressions /\ e.right \in Expressions
    BY <1>5, Operands DEF Parts
  <2>3. WellFormed(l) /\ WellFormed(r)
    BY <1>1, <2>2, AtWell
  <2> HIDE DEF l, r, v
  <2>4. IsValue(l) /\ IsValue(r) /\ v.gen \in {l.gen, r.gen} /\ l.gen <= v.gen /\ r.gen <= v.gen
    BY <2>1, <2>3, ApplyIs DEF v
  <2>5. ~Failed(l) /\ ~Failed(r)
    BY <2>4, Kinds
  <2> QED
    BY <2>2, <2>4, <2>5, Zenon DEF l, r, v
<1> QED
  BY <1>3, <1>4, <1>5

\* Values that forget no events have the generation of the last that was read.
Undated(e) == \E d \in Within[e] : d.op \in {"str", "if"}
NodeLatest(k, m, n) ==
  ~Failed(Now(k).node[n]) /\ Dated(Visits[m].node[n])
    => Latest(Now(k).node[n].gen, Visits[m].node[n])
ExprLatest(k, m, e) ==
  ~Failed(At(k, e)) /\ ~Undated(e) /\ Dated(Visits[m].expr[e])
    => Latest(At(k, e).gen, Visits[m].expr[e])
AllLatest(k) ==
  \A m \in k..Depth : /\ \A n \in DOMAIN tree : NodeLatest(k, m, n)
                      /\ \A e \in Expressions : ExprLatest(k, m, e)

\* Fewer nodes forget no more.
LEMMA DatedLess == \A A, B : A \subseteq B /\ Dated(B) => Dated(A)
BY Zenon DEF Dated

\* Nor do the parts of an expression.
LEMMA UndatedParts ==
  ASSUME NEW e \in Expressions, ~Undated(e)
  PROVE  e.op \notin {"str", "if"} /\ \A d \in Parts(e) : ~Undated(d)
<1>1. Within[e] = {e} \cup UNION {Within[d] : d \in Parts(e)}
  BY WithinEquation, Zenon
<1> QED
  BY <1>1, Zenon DEF Undated

\* One call more for a node: it is its script, its last event or its default.
LEMMA NodeStep ==
  ASSUME TypeOK, NEW k \in 1..Depth, NEW m \in k..Depth, NEW n \in DOMAIN tree,
         \A c \in DOMAIN tree : NodeLatest(k - 1, m - 1, c),
         \A e \in Expressions : ExprLatest(k - 1, m - 1, e)
  PROVE  NodeLatest(k, m, n)
<1> DEFINE v == Now(k).node[n]
           N == Visits[m].node[n]
<1>1. tree \in Trees /\ m \in 1..Depth /\ k - 1 \in 0..Depth /\ k \in 0..Depth
  <2>1. m \in 1..Depth
    BY BoundAssumption
  <2> QED
    BY <2>1, Counting DEF TypeOK
<1>2. v = ComputeNode(tree, cache, Now(k - 1), n)
  BY <1>1, NowLevels
<1>3. N = {n} \cup
        CASE tree[n].input = "script" -> Visits[m - 1].expr[tree[n].script]
          [] tree[n].input = "source" /\ cache[n] = Nothing /\ Append(n, "default") \in DOMAIN tree ->
               Visits[m - 1].node[Append(n, "default")]
          [] OTHER -> {}
  BY <1>1, VisitsAt
<1> HIDE DEF v, N
<1> SUFFICES ASSUME ~Failed(v), Dated(N) PROVE Latest(v.gen, N)
  BY DEF NodeLatest, v, N
<1>4. n \in Sources(tree) <=> tree[n].input = "source"
  BY DEF Sources
<1>5. CASE tree[n].input = "script"
  <2> DEFINE e == tree[n].script
  <2>1. e \in Expressions /\ n \in Scripts(tree)
    BY <1>1, <1>5, TreeAssumption DEF Scripts
  <2>2. N = {n} \cup Visits[m - 1].expr[e]
    BY <1>3, <1>5
  <2>3. v = At(k - 1, e)
    BY <1>2, <1>5 DEF ComputeNode, At
  <2>4. ~Undated(e)
    BY <2>1, <2>2, Zenon DEF Dated, Undated
  <2>5. Dated(Visits[m - 1].expr[e])
    BY <2>2, DatedLess
  <2> HIDE DEF e
  <2>6. Latest(v.gen, Visits[m - 1].expr[e])
    BY <2>1, <2>3, <2>4, <2>5, Zenon DEF ExprLatest
  <2>7. EventsOn(N) = EventsOn(Visits[m - 1].expr[e])
    <3>1. n \notin Sources(tree)
      BY <1>4, <1>5
    <3> QED
      BY <2>2, <3>1 DEF EventsOn
  <2> QED
    BY <2>6, <2>7 DEF Latest
<1>6. CASE tree[n].input = "source"
  <2> DEFINE default == Append(n, "default")
  <2>1. v = IF cache[n] # Nothing THEN cache[n]
            ELSE IF default \in DOMAIN tree THEN Now(k - 1).node[default] ELSE Failure
    BY <1>2, <1>6 DEF ComputeNode
  <2> HIDE DEF default
  <2>2. CASE cache[n] # Nothing
    <3>1. N = {n}
      BY <1>3, <1>6, <2>2
    <3>2. v = cache[n] /\ n \in Sources(tree)
      BY <1>4, <1>6, <2>1, <2>2
    <3>3. EventsOn(N) = {v.gen}
      BY <2>2, <3>1, <3>2 DEF EventsOn
    <3>4. v.gen \in Nat
      BY <3>3, EventsAre
    <3> QED
      BY <3>3, <3>4 DEF Latest
  <2>3. CASE cache[n] = Nothing
    <3>1. default \in DOMAIN tree /\ v = Now(k - 1).node[default]
      BY <2>1, <2>3, Kinds
    <3>2. N = {n} \cup Visits[m - 1].node[default]
      BY <1>3, <1>6, <2>3, <3>1 DEF default
    <3>3. Dated(Visits[m - 1].node[default])
      BY <3>2, DatedLess
    <3>4. Latest(v.gen, Visits[m - 1].node[default])
      BY <3>1, <3>3, Zenon DEF NodeLatest
    <3>5. EventsOn(N) = EventsOn(Visits[m - 1].node[default])
      BY <2>3, <3>2 DEF EventsOn
    <3> QED
      BY <3>4, <3>5 DEF Latest
  <2> QED
    BY <2>2, <2>3
<1>7. CASE tree[n].input \notin {"script", "source"}
  <2>1. v = Failure
    BY <1>2, <1>7 DEF ComputeNode
  <2> QED
    BY <2>1, Kinds
<1> QED
  BY <1>5, <1>6, <1>7

\* One call more for an expression: the parts, and the node that a path leads to.
LEMMA ExprStep ==
  ASSUME TypeOK, NEW k \in 1..Depth, NEW m \in k..Depth, NEW e \in Expressions,
         \A n \in DOMAIN tree : NodeLatest(k - 1, m - 1, n),
         \A d \in Expressions : ExprLatest(k - 1, m - 1, d)
  PROVE  ExprLatest(k, m, e)
<1> DEFINE v == At(k, e)
           D == Parts(e)
           f == [d \in D |-> At(k - 1, d).gen]
           S == Visits[m - 1].expr
           below == UNION {S[d] : d \in D}
           E == Visits[m].expr[e]
           l == Lookup(tree, Now(Depth), e.path)
<1>1. tree \in Trees /\ m \in 1..Depth /\ k - 1 \in 0..Depth /\ k \in 0..Depth
  <2>1. m \in 1..Depth
    BY BoundAssumption
  <2> QED
    BY <2>1, Counting DEF TypeOK
<1>2. E = below \cup IF e.op = "path" /\ ~Failed(l) THEN Visits[m - 1].node[l.at] ELSE {}
  BY <1>1, VisitsAt
<1> HIDE DEF v, S, E, l
<1> SUFFICES ASSUME ~Failed(v), ~Undated(e), Dated(E) PROVE Latest(v.gen, E)
  BY DEF ExprLatest, v, E
<1>3. e.op \notin {"str", "if"} /\ \A d \in D : ~Undated(d) /\ d \in Expressions
  BY UndatedParts, ExpressionAssumption
<1>4. \A d \in D : S[d] \subseteq E
  BY <1>2
<1>5. \A d \in D : ~Failed(At(k - 1, d))
  BY <1>3, PathGen, OperandGens DEF v
<1>6. \A d \in D : f[d] \in Nat /\ Latest(f[d], S[d])
  <2> SUFFICES ASSUME NEW d \in D PROVE At(k - 1, d).gen \in Nat /\ Latest(At(k - 1, d).gen, S[d])
    OBVIOUS
  <2>1. d \in Expressions /\ ~Undated(d) /\ ~Failed(At(k - 1, d)) /\ Dated(S[d])
    BY <1>3, <1>4, <1>5, DatedLess
  <2>2. ExprLatest(k - 1, m - 1, d)
    BY <2>1
  <2> QED
    BY <1>1, <2>1, <2>2, AtWell DEF ExprLatest, S
<1>7. \A g : g \in {0} \cup {At(k - 1, d).gen : d \in D} /\ (\A d \in D : At(k - 1, d).gen <= g)
        => Latest(g, below)
  <2> SUFFICES ASSUME NEW g \in {0} \cup {f[d] : d \in D}, \A d \in D : f[d] <= g
               PROVE  Latest(g, below)
    OBVIOUS
  <2> HIDE DEF f, D
  <2>1. (g = 0 \/ \E d \in D : g = f[d]) /\ \A d \in D : f[d] <= g
    OBVIOUS
  <2>2. \A x : x \in below <=> \E d \in D : x \in S[d]
    OBVIOUS
  <2> QED
    BY <1>6, <2>1, <2>2, LatestUnion
<1> HIDE DEF f, below
<1>8. CASE e.op # "path"
  <2>1. E = below
    BY <1>2, <1>8
  <2>2. v.gen \in {0} \cup {At(k - 1, d).gen : d \in D} /\ \A d \in D : At(k - 1, d).gen <= v.gen
    BY <1>3, <1>8, OperandGens DEF v
  <2> QED
    BY <1>7, <2>1, <2>2
<1>9. CASE e.op = "path"
  <2> DEFINE node == Now(k - 1).node[l.at]
  <2>1. PathGens(k, e)
    BY <1>9, PathGen DEF v
  <2>2. ~Failed(l) /\ l.at \in DOMAIN tree /\ ~Failed(node)
    BY <2>1, Zenon DEF PathGens, l
  <2>3. PICK g \in {0} \cup {At(k - 1, d).gen : d \in D} :
          /\ \A x \in {At(k - 1, d).gen : d \in D} : x <= g
          /\ v.gen \in {g, node.gen} /\ g <= v.gen /\ node.gen <= v.gen
    BY <2>1, Zenon DEF PathGens, l, v
  <2>4. Latest(g, below)
    BY <1>7, <2>3
  <2>5. E = below \cup Visits[m - 1].node[l.at]
    BY <1>2, <1>9, <2>2
  <2>6. Dated(Visits[m - 1].node[l.at])
    BY <2>5, DatedLess
  <2>7. Latest(node.gen, Visits[m - 1].node[l.at])
    BY <2>2, <2>6, Zenon DEF NodeLatest
  <2>8. node.gen \in Nat
    BY <1>1, <2>2, AtWell
  <2>9. g \in Nat
    <3>1. \A d \in D : At(k - 1, d).gen \in Nat
      BY <1>1, <1>3, <1>5, AtWell
    <3> QED
      BY <3>1
  <2> HIDE DEF node
  <2> QED
    BY <2>3, <2>4, <2>5, <2>7, <2>8, <2>9, LatestJoin
<1> QED
  BY <1>8, <1>9

\* By induction over the levels, for all that is visited in as many calls or more.
LEMMA EveryLatest == ASSUME TypeOK, NEW k \in 0..Depth PROVE AllLatest(k)
<1> DEFINE Is(m) == m <= Depth => AllLatest(m)
           K == {m \in Nat : Is(m)}
<1>1. AllLatest(0)
  <2>1. \A n \in DOMAIN tree : Failed(Now(0).node[n])
    BY NowLevels, PanicFailed DEF TypeOK
  <2>2. \A e \in Expressions : Failed(At(0, e))
    BY NowLevels, PanicFailed DEF TypeOK, At
  <2> QED
    BY <2>1, <2>2 DEF AllLatest, NodeLatest, ExprLatest
<1>2. ASSUME NEW j \in Nat, Is(j) PROVE Is(j + 1)
  <2> SUFFICES ASSUME j + 1 <= Depth, NEW m \in (j + 1)..Depth
               PROVE  /\ \A n \in DOMAIN tree : NodeLatest(j + 1, m, n)
                      /\ \A e \in Expressions : ExprLatest(j + 1, m, e)
    BY DEF AllLatest
  <2>1. j + 1 \in 1..Depth /\ (j + 1) - 1 = j /\ j <= Depth /\ m - 1 \in j..Depth
    BY BoundAssumption
  <2>2. /\ \A n \in DOMAIN tree : NodeLatest((j + 1) - 1, m - 1, n)
        /\ \A e \in Expressions : ExprLatest((j + 1) - 1, m - 1, e)
    BY <1>2, <2>1 DEF AllLatest
  <2> QED
    BY <2>1, <2>2, NodeStep, ExprStep
<1>3. k \in Nat /\ k <= Depth
  BY BoundAssumption
<1>4. Is(0)
  BY <1>1
<1> HIDE DEF Is
<1>5. 0 \in K /\ \A m \in Nat : m \in K => m + 1 \in K
  BY <1>2, <1>4
<1>6. Is(k)
  BY <1>3, <1>5, Induction
<1> QED
  BY <1>3, <1>6 DEF Is

\* The generation of an expression that forgets no events is the last of its events.
LEMMA LastIs ==
  ASSUME TypeOK, NEW e \in Expressions, ~Failed(Evaluated(e)), ~Undated(e),
         Dated(Visits[Depth].expr[e])
  PROVE  LastEvent(e) = Evaluated(e).gen
<1> DEFINE g == Evaluated(e).gen
           N == Visits[Depth].expr[e]
<1>1. Evaluated(e) = At(Depth, e)
  BY NowLevels DEF TypeOK, At
<1>2. Depth \in 0..Depth /\ Depth \in Depth..Depth
  BY BoundAssumption
<1>3. ExprLatest(Depth, Depth, e)
  BY <1>2, EveryLatest DEF AllLatest
<1>4. Latest(g, N)
  BY <1>1, <1>3 DEF ExprLatest
<1>5. g \in Nat
  BY <1>1, <1>2, AtWell
<1> HIDE DEF g, N
<1>6. {0} \cup EventsOn(N) \subseteq Nat
  BY EventsAre
<1>7. Max({0} \cup EventsOn(N)) = g
  <2>1. g \in {0} \cup EventsOn(N) /\ \A x \in {0} \cup EventsOn(N) : x <= g
    BY <1>4, <1>5 DEF Latest
  <2> QED
    BY <1>6, <2>1, MaxIs
<1> QED
  BY <1>7 DEF LastEvent, g, N

\* A latch of two values of one type is the one with the later generation.
LEMMA LatchIs ==
  ASSUME NEW chk, NEW l, NEW r, WellFormed(l), WellFormed(r), ~Failed(l), ~Failed(r),
         l.type = r.type
  PROVE  Datum(Apply(chk, "latch", l, r)) = Datum(IF l.gen >= r.gen THEN l ELSE r)
<1> DEFINE w == IF l.gen >= r.gen THEN l ELSE r
           g == Max({l.gen, r.gen})
<1>1. IsValue(l) /\ IsValue(r) /\ IsValue(w)
  BY Kinds DEF WellFormed
<1>2. "latch" \in Operators[l.type]
  BY <1>1 DEF IsValue, Operators, Numeric
<1>3. Apply(chk, "latch", l, r) = WithGeneration(w, g)
  BY <1>2 DEF Apply
<1>4. g \in 0..MaxEvents
  <2>1. MaxEvents \in Nat /\ {l.gen, r.gen} \subseteq 0..MaxEvents /\ {l.gen, r.gen} # {}
    BY <1>1, BoundAssumption DEF IsValue
  <2>2. g \in {l.gen, r.gen}
    BY <2>1, Greatest
  <2> QED
    BY <2>1, <2>2
<1> HIDE DEF w, g
<1>5. Datum(WithGeneration(w, g)) = Datum(w)
  BY <1>1, <1>4, Generation DEF Datum
<1> QED
  BY <1>3, <1>5 DEF w

\* The operands of a sink's latch are computed two calls below, and deeper alike.
LEMMA Latched == TypeOK => LatchLatest
<1> SUFFICES ASSUME TypeOK, NEW s \in Sinks(tree) \cap Scripts(tree),
                    tree[s].script.op = "latch", Computed(s) # Panic,
                    Dated({s} \cup Visits[Depth].expr[tree[s].script.left]
                              \cup Visits[Depth].expr[tree[s].script.right]),
                    ~Failed(Evaluated(tree[s].script.left)),
                    ~Failed(Evaluated(tree[s].script.right)),
                    Evaluated(tree[s].script.left).type = Evaluated(tree[s].script.right).type
             PROVE  Datum(Computed(s)) =
                      Datum(IF LastEvent(tree[s].script.left) >= LastEvent(tree[s].script.right)
                            THEN Evaluated(tree[s].script.left)
                            ELSE Evaluated(tree[s].script.right))
  BY Zenon DEF LatchLatest
<1> DEFINE e == tree[s].script
           l == Evaluated(e.left)
           r == Evaluated(e.right)
<1>1. tree \in Trees
  BY DEF TypeOK
<1>2. /\ Depth - 1 \in 1..Depth /\ (Depth - 1) - 1 \in 0..Depth
      /\ e \in Expressions /\ Computed(s) = At(Depth - 1, e)
  BY <1>1, SinkScript DEF At
<1>3. /\ e.left \in Parts(e) /\ e.left \in Expressions
      /\ e.right \in Parts(e) /\ e.right \in Expressions
  BY <1>2, Operands
<1>4. ~Undated(e.left) /\ ~Undated(e.right)
  <2>1. ~Undated(e)
    BY Zenon DEF Dated, Undated
  <2> QED
    BY <1>2, <1>3, <2>1, UndatedParts
<1>5. LastEvent(e.left) = l.gen /\ LastEvent(e.right) = r.gen
  <2>1. Dated(Visits[Depth].expr[e.left]) /\ Dated(Visits[Depth].expr[e.right])
    BY DatedLess
  <2> QED
    BY <1>3, <1>4, <2>1, LastIs
<1> DEFINE x == At((Depth - 1) - 1, e.left)
           y == At((Depth - 1) - 1, e.right)
<1>6. Computed(s) = Apply(checked, "latch", x, y)
  <2>1. At(Depth - 1, e) = EvalExpr(tree, checked, Now((Depth - 1) - 1), e, TRUE)
    BY <1>1, <1>2, NowLevels DEF At
  <2> QED
    BY <1>2, <2>1 DEF EvalExpr, At
<1>7. (x # Panic => x = l) /\ (y # Panic => y = r)
  <2>1. l = At(Depth, e.left) /\ r = At(Depth, e.right)
    BY <1>1, NowLevels DEF At
  <2> QED
    BY <1>1, <1>2, <1>3, <2>1, NowMore DEF At
<1>8. WellFormed(l) /\ WellFormed(r)
  <2>1. l = At(Depth, e.left) /\ r = At(Depth, e.right)
    BY <1>1, NowLevels DEF At
  <2> QED
    BY <1>3, <2>1, AtWell, Counting
<1> HIDE DEF x, y, l, r, e
<1>9. \A a, b : /\ Apply(checked, "latch", Panic, b) = Panic
                /\ ~Failed(a) => Apply(checked, "latch", a, Panic) = Panic
  BY PanicFailed, Zenon DEF Apply
<1>10. ~Failed(l) /\ ~Failed(r) /\ l.type = r.type
  BY DEF l, r, e
<1>11. x = l
  BY <1>6, <1>7, <1>9, Zenon
<1>12. y = r
  BY <1>6, <1>7, <1>9, <1>10, <1>11, Zenon
<1>13. Datum(Computed(s)) = Datum(IF l.gen >= r.gen THEN l ELSE r)
  BY <1>6, <1>8, <1>10, <1>11, <1>12, LatchIs
<1> QED
  BY <1>5, <1>13 DEF l, r, e

\* a :: b is whichever of the two heard an event last, by way of any nodes, if both are
\* of one type and are computed from nothing that forgets its events.
THEOREM LatchAlways == Spec => []LatchLatest
BY Latched, TypeCorrect, PTL
=============================================================================
