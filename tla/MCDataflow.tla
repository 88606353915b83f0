----------------------------- MODULE MCDataflow -----------------------------
(***************************************************************************)
(* Small trees to model-check Dataflow on, all over the same nodes:        *)
(*                                                                         *)
(*   a ^source          the sources report on, off and dim, or numbers     *)
(*       default <- ..                                                     *)
(*   c ^source                                                             *)
(*       default <- "off"                                                  *)
(*   r                  a palette: no color for dim                        *)
(*       on  <- "red"                                                      *)
(*       off <- /c                                                         *)
(*   m <- ..            a computed node                                    *)
(*   s $sink <- ..                                                         *)
(*   t $sink <- ..                                                         *)
(***************************************************************************)
EXTENDS DataflowValues

Name(n) == [name |-> n]
In(p) == [lookup |-> p]
Lit(text) == [op |-> "value", value |-> Str(text)]
At(p) == PathExpr(p)
Bin(op, l, r) == [op |-> op, left |-> l, right |-> r]
If(c, then, else) ==
  [op |-> "if", cases |-> <<[cond |-> c, then |-> then]>>, else |-> else]

A == <<Name("a")>>
C == <<Name("c")>>
M == <<Name("m")>>
Palette(p) == <<Name("r"), In(p)>>

MCNode(input, e, sink, reports) ==
  [input |-> input, script |-> e, sink |-> sink, reports |-> reports]
Struct == MCNode("none", Lit(""), FALSE, {})
Source == MCNode("source", Lit(""), FALSE, {Str("on"), Str("off"), Str("dim")})
Script(e) == MCNode("script", e, FALSE, {})
Sink(e) == MCNode("script", e, TRUE, {})

House(default, m, s, t) ==
  LET paths == {<<>>, <<"a">>, <<"a", "default">>, <<"c">>, <<"c", "default">>,
                <<"r">>, <<"r", "on">>, <<"r", "off">>, <<"m">>, <<"s">>, <<"t">>}
  IN [p \in paths |->
        CASE p \in {<<"a">>, <<"c">>} -> Source
          [] p = <<"a", "default">> -> Script(default)
          [] p = <<"c", "default">> -> Script(Lit("off"))
          [] p = <<"r", "on">> -> Script(Lit("red"))
          [] p = <<"r", "off">> -> Script(At(C))
          [] p = <<"m">> -> Script(m)
          [] p = <<"s">> -> Sink(s)
          [] p = <<"t">> -> Sink(t)
          [] OTHER -> Struct]

\* Paths through sources and through computed nodes, latches, and ifs.
Exprs ==
  {At(A), At(M), At(Palette(A)), At(Palette(M)),
   Bin("latch", At(A), At(C)), Bin("latch", At(C), At(Palette(A))),
   Bin("latch", At(M), At(Palette(C))),
   [op |-> "str", arg |-> Bin("equals", At(A), At(C))],
   If(Bin("equals", At(A), Lit("on")), At(Palette(M)), At(C))}

PlainTrees ==
  {House(Lit("on"), m, s, t) :
     m \in {At(A), At(Palette(C)), Bin("latch", At(A), At(C))},
     s \in Exprs, t \in {At(A), At(Palette(A)), Bin("latch", At(Palette(C)), At(A)),
                         At(<<Name("gone")>>)}}

\* r/{/k/{/a}}, where k/on is c: a lookup inside a lookup.
Nested == <<Name("r"), In(<<Name("k"), In(A)>>)>>
NestedTrees ==
  {(<<"r", "off">> :> Script(Lit("blue")) @@ <<"k">> :> Struct
      @@ <<"k", "on">> :> Script(At(C)) @@ <<"k", "off">> :> Script(Lit("off"))
      @@ House(Lit("on"), At(A), At(Nested), At(C)))}

\* The default of a is what c says; a sink needs a and a third source, b.
B == <<Name("b")>>
DefaultTrees ==
  {(<<"b">> :> Source @@ House(At(C), At(A), Bin("latch", At(B), At(A)), At(C)))}

OnOff == If(Bin("equals", At(A), Lit("on")), Lit("red"), Lit("blue"))
BranchTrees == {House(Lit("on"), At(A), OnOff, At(C))}

\* Numbers from the ends of the range, and one that is no number.
N(n) == [op |-> "value", value |-> Whole(n)]
AndC(op) == Bin(op, At(A), At(C))
NumberExprs ==
  {AndC(op) : op \in {"add", "subtract", "multiply", "divide", "modulo"}}
    \cup {Bin("add", AndC("divide"), Bin("divide", N(1), N(3))),
          Bin("multiply", AndC("modulo"), N(2)),
          Bin("divide", AndC("divide"), AndC("divide")),
          Bin("multiply", AndC("divide"), AndC("divide")),
          Bin("modulo", N(7), AndC("add"))}
NumberTrees ==
  {[House(Lit("on"), At(A), s, t) EXCEPT
      ![<<"a">>].reports = {Whole(-IntLimit), Whole(3), Whole(IntLimit - 1)},
      ![<<"c">>].reports = {Whole(-2), Whole(-1), Whole(0), Whole(2), Str("on")}] :
     s \in NumberExprs,
     t \in {At(C), Bin("latch", At(Palette(C)), At(A)),
            If(AndC("less"), Bin("add", At(C), N(1)), At(A))}}

\* A minus sign.
NegatedTrees ==
  {[House(Lit("on"), At(A), [op |-> "negate", arg |-> At(A)], At(C)) EXCEPT
      ![<<"a">>].reports = {Whole(3)}]}

\* An if in each block of an if, with conditions that hold before any event.
IfC(text, then, else) == If(Bin("equals", At(C), Lit(text)), then, else)
NestedIfTrees ==
  {House(Lit(d), At(A), s, At(C)) :
     d \in {"on", "off"},
     s \in {IfC("on", Lit("white"), OnOff), IfC("off", OnOff, Lit("white")),
            IfC("off", IfC("dim", Lit("green"), OnOff), OnOff)}}

HouseTrees == PlainTrees \cup NumberTrees \cup NestedIfTrees

\* The expressions in the scripts of the trees, and their heights.
RECURSIVE All(_), Height(_)
All(e) == {e} \cup UNION {All(d) : d \in Parts(e)}
Height(e) == Max({0} \cup {Height(d) + 1 : d \in Parts(e)})
TreeHeights ==
  [e \in UNION {UNION {All(t[n].script) : n \in DOMAIN t} : t \in Trees} |-> Height(e)]

\* What AlwaysCurrent and NumbersAlways are proved from holds of them.
ASSUME HouseTreesComplete == Trees = HouseTrees => FlatLookups /\ FixedDefaults /\ Unsigned
=============================================================================
