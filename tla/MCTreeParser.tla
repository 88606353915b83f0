---------------------------- MODULE MCTreeParser ----------------------------
(***************************************************************************)
(* Files to model-check TreeParser on: one script with an expression of up *)
(* to three operators; ifs in every style and at every place of a tree;    *)
(* constants, paths and imports; all files of a first line a and four more *)
(* of names and marks; and files with a mistake each.                      *)
(***************************************************************************)
EXTENDS TreeParser, ConfigText

\* The operators that the tokenizer takes as a whole.
BinaryOps == DOMAIN Precedence \ {">", ">="}
X == <<"/x">>
Few == {X, <<"negate", X>>, <<"str", X>>} \cup {<<op, X, <<"1">>>> : op \in BinaryOps}
Expressions ==
  Few \cup {<<op, l, r>> : op \in BinaryOps, l \in Few, r \in Few}
  \cup {<<op, e>> : op \in {"negate", "str"}, e \in Few}

If(parts) == <<"if", parts>>
One == If(<<<<"==", X, <<"1">>>>, X, <<"1">>>>)
Ifs ==
  {One, If(<<X, <<"1">>, <<"!=", X, X>>, <<"2">>, X>>),
   If(<<X, One, X>>), If(<<X, X, One>>),
   If(<<X, One, X, One, One>>), If(<<X, If(<<X, X, One>>), <<"2">>>>)}

Leaf(name) ==
  [name |-> name, marks |-> <<>>, input |-> <<>>, style |-> "same", children |-> <<>>]
Node(name, children) == [Leaf(name) EXCEPT !.children = children]
Scripted(script, style, marks, children) ==
  [name |-> "n", marks |-> marks, input |-> script, style |-> style, children |-> children]

\* Where a node n can be among others.
Places(n) ==
  {<<n>>, <<n, Leaf("b")>>, <<Node("a", <<n>>), Leaf("b")>>,
   <<Node("a", <<Node("b", <<n>>)>>), Leaf("b")>>, <<Node("a", <<n, Leaf("true")>>)>>}

Nodes ==
  {Scripted(s, style, m, <<>>) : s \in Ifs \cup {X}, style \in {"block", "ownblock"},
                                 m \in {<<>>, <<Token("$", "hue"), Token("@", "1x-2.5m")>>}}
  \cup {Scripted(s, "ownblock", <<>>, <<Leaf("1")>>) : s \in Ifs}
  \cup {Scripted(s, style, <<Token("<>", "1'2\"x3'")>>, c) :
            s \in {X, <<"^button">>}, style \in {"same", "own"},
                                         c \in {<<>>, <<Leaf("a")>>}}

SpelledLines(ls, manner) == [i \in DOMAIN ls |-> Spelled(ls[i], manner)]
Document(nodes, manner) ==
  [lines |-> SpelledLines(DocumentLines(nodes), manner),
   means |-> DocumentTree(<<>>, Blank, nodes), sound |-> TRUE]
Manners == {"loose", "tight"}

ExpressionFiles ==
  {Document(<<Scripted(e, "same", <<>>, <<>>)>>, manner) :
     e \in Expressions, manner \in Manners}
IfFiles == {Document(d, "tight") : d \in UNION {Places(n) : n \in Nodes}}

\* Constants next to operators.
Constants ==
  {<<"7">>, <<"-2">>, <<"1.5">>, <<"-0.5">>, <<"false">>, <<"\"a ::b\"">>, <<"\"\"">>}
ConstantFiles ==
  {Document(<<Scripted(<<op, l, r>>, "same", <<>>, <<>>)>>, manner) :
     op \in BinaryOps, l \in Constants \cup {X}, r \in Constants,
     manner \in Manners}
  \cup {[lines |-> <<"n  <-\"say \\\"hi\\\" \" +/x    # it">>,
         means |-> Document(<<Scripted(<<"+", <<"\"say \"hi\" \"">>, X>>, "same", <<>>, <<>>)>>,
                            "loose").means, sound |-> TRUE]}

\* A path in a script of a node n below some parents, alone and as a lookup.
Beneath(parents, n) == FoldRight(LAMBDA p, child : Node(p, <<child>>), parents, n)
PathFile(parents, spelled, path) ==
  LET With(p) == <<Beneath(parents, Scripted(<<p>>, "same", <<>>, <<>>))>>
  IN [Document(With(path), "loose") EXCEPT
        !.lines = Document(With(spelled), "loose").lines]
Parents == {<<>>, <<"a">>, <<"a", "b">>}
Targets == {<<"x">>, <<"a">>, <<"a", "x">>, <<"a", "b", "x-1">>, <<"y", "a", "b">>}
PathFiles ==
  UNION {{PathFile(here, Relative(here, there), Absolute(there)),
          PathFile(here, "/k/./{" \o Relative(here, there) \o "}/m",
                   "/k/{" \o Absolute(there) \o "}/m"),
          PathFile(here, "./{" \o Relative(here, there) \o "}/x/..",
                   Absolute(here) \o "/{" \o Absolute(there) \o "}"),
          PathFile(here, "/{/k/{" \o Relative(here, there) \o "}}",
                   "/{/k/{" \o Absolute(there) \o "}}")}
           : here \in Parents, there \in Targets}

\* An import that brings two nodes, at every place among others.
BroughtNodes == <<Node("a", <<Leaf("b")>>), Scripted(X, "same", <<>>, <<Leaf("c")>>)>>
Import == [Leaf("test.ygg") EXCEPT !.style = "import", !.children = BroughtNodes]
Home == [name \in {"test.ygg"} |-> DocumentTree(<<>>, Blank, BroughtNodes)]
Around == Node("a", <<Leaf("d")>>)
ImportFiles ==
  {Document(d, "loose") : d \in
     {<<Import>>, <<Around, Import>>, <<Import, Around>>, <<Import, Leaf("e"), Import>>,
      <<Node("e", <<Import>>)>>, <<Node("e", <<Import, Around>>), Around>>,
      <<Node("a", <<Node("b", <<Import>>)>>), Leaf("e"), Import>>}}

PlainLines ==
  {Line(0, <<>>)} \cup {Line(level, w) : level \in 0..2, w \in {<<"a">>, <<"b">>, <<"$s">>}}
Plain(ls) ==
  [lines |-> SpelledLines(ls, "commented"), means |-> PlainTree(ls, {"a", "b"}),
   sound |-> FALSE]
PlainFiles ==
  {Plain(<<Line(0, <<"a">>)>> \o ls) : ls \in [1..4 -> PlainLines]}

\* Files with something wrong in them; no tree is empty.
Refused(ls) == [lines |-> ls, means |-> <<>>, sound |-> FALSE]
InNode(code) == Refused(<<"a " \o code>>)
InScript(ls) == Refused(<<"a <-\\">> \o ls)
RefusedNodes ==
  {InNode(code) : code \in
     {"b", "$s $s", "$s $t", "@1x1 @1x1", "^s <-/x", "<-\\", "<-", "<-/x /x", "<- (/x",
      "<- str /x", "<- s(/x)", "<- /x +", "<- /x >", "<- 1 -1", "<- -(/x)", "<- 1.2.3",
      "<- /x = 1", "<- /x &| 1", "<- /x &", "<- \"open", "<- \"a#b\"", "<- \"a\\n\"",
      "<- /", "<- //x", "<- /x/", "<- /{/x", "<- /x}", "<- /{/x}y", "<- ../x", "<- /..",
      "<- /{}", "@1", "@1x", "@x1", "@1x1'2", "@1cx1", "<> 1x1", "<>1.1.1x1", "!t", "!",
      "import(other.ygg)", "import(test.ygg", "import test.ygg", "template t [b]",
      "template t b", "? b"}}
RefusedScripts ==
  {InScript(ls) : ls \in
     {<<" if /x:", "  1", " if /x:", "  1", " else:", "  1">>, <<" if /x:", "  1">>,
      <<" if /x:", "  1", " else /x:", "  1">>, <<" if /x:", "  1", " else:">>,
      <<" if /x">>, <<"  /x +", "  /x">>}}
RefusedFiles ==
  RefusedNodes \cup RefusedScripts
  \cup {Refused(ls) : ls \in {<<"import(other.ygg)">>, <<"import(test.ygg) b">>,
                             <<"1">>, <<"a", " b", " import(test.ygg)">>}}

AllFiles ==
  ExpressionFiles \cup IfFiles \cup ConstantFiles \cup PathFiles \cup ImportFiles
  \cup PlainFiles \cup RefusedFiles

\* A line after an else block, inside the block of the script.
TrailingFiles ==
  {InScript(<<" if /x:", "  1", " else:", "  1", " $s">>)}

\* A constant that is read as a minus and a path.
PointFiles == {Document(<<Scripted(<<"-.5">>, "same", <<>>, <<>>)>>, "loose")}

\* A file that is never read to its end.
GreaterFiles == {Document(<<Scripted(<<">", X, <<"1">>>>, "same", <<>>, <<>>)>>, "loose")}
=============================================================================
