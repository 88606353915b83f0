----------------------------- MODULE ExprParser -----------------------------
(***************************************************************************)
(* Scripts of the configuration: from tokens to expressions and ifs.       *)
(*                                                                         *)
(* An expression is parsed by precedence climbing, a block that begins     *)
(* with if by the layout of its cases.  A tree is a tuple: its operator,   *)
(* then its parts; a constant is as it is written, a path is resolved.     *)
(* Errors and panics alike keep the daemon from starting; both are Broken. *)
(* This module is for the model checker: its operators are recursive.      *)
(***************************************************************************)
EXTENDS Paths

CONSTANT Functions  \* names of the native functions

Precedence ==
  [op \in {"/", "%", "*"} |-> 15] @@ [op \in {"-", "+"} |-> 13]
  @@ [op \in {">", "<", ">=", "<="} |-> 12] @@ [op \in {"==", "!="} |-> 11]
  @@ ("&&" :> 10) @@ ("||" :> 9) @@ ("::" :> 8)
PrecedenceOfNegation == 14

Broken == [ok |-> FALSE, tree |-> <<>>, rest |-> <<>>]
Parsed(t, rest) == [ok |-> TRUE, tree |-> t, rest |-> rest]
\* The result r, its tree under the operator op.
Under(op, r) == IF r.ok THEN [r EXCEPT !.tree = <<op, @>>] ELSE Broken
Starts(tokens, kind) == tokens # <<>> /\ Head(tokens).kind = kind
\* Whether tokens of these kinds are in tokens from the ith on.
Follows(tokens, i, kinds) ==
  \A k \in DOMAIN kinds : i + k - 1 <= Len(tokens) /\ tokens[i + k - 1].kind = kinds[k]
\* The result r, if a token of that kind is next, with that token taken.
Then(r, kind) ==
  IF r.ok /\ Starts(r.rest, kind) THEN [r EXCEPT !.rest = Tail(@)] ELSE Broken
\* The word that begins a case of an if.
Word(t) == IF t.kind = "name" THEN t.text ELSE ""

\* The tokens of a script of the node at base, with their paths resolved.
Resolved(tokens, base) ==
  [i \in DOMAIN tokens |->
     LET t == tokens[i]
         path == FromStrAtPath(base, t.text)
     IN CASE t.kind # "path" -> t
          [] t.kind = "path" /\ path.ok -> Token("path", Display(path.components))
          [] OTHER -> Token("no path", t.text)]

\* Mutant of RightPrecedence: operators associate to the right.
RightAssociative(op) == Precedence[op]

RightPrecedence(op) == Precedence[op] + 1

RECURSIVE Exp(_, _), Climb(_, _, _)

\* ExprParser::p
Primary(tokens) ==
  IF tokens = <<>> THEN Broken
  ELSE LET t == Head(tokens)
           rest == Tail(tokens)
       IN CASE t.kind \in {"bool", "int", "float", "path"} -> Parsed(<<t.text>>, rest)
            [] t.kind = "string" -> Parsed(<<"\"" \o t.text \o "\"">>, rest)
            [] t.kind = "(" -> Then(Exp(rest, 0), ")")
            [] t.kind = "-" -> Under("negate", Exp(rest, PrecedenceOfNegation))
            [] Word(t) \in Functions /\ Starts(rest, "(") ->
                 Under(t.text, Then(Exp(Tail(rest), 0), ")"))
            [] OTHER -> Broken

\* The loop of ExprParser::exp_p, with the tree that it has so far.
Climb(left, tokens, p) ==
  IF tokens # <<>> /\ Head(tokens).kind \in DOMAIN Precedence
     /\ Precedence[Head(tokens).kind] >= p
  THEN LET op == Head(tokens).kind
           r == Exp(Tail(tokens), RightPrecedence(op))
       IN IF r.ok THEN Climb(<<op, left, r.tree>>, r.rest, p) ELSE Broken
  ELSE Parsed(left, tokens)

Exp(tokens, p) ==
  LET r == Primary(tokens) IN IF r.ok THEN Climb(r.tree, r.rest, p) ELSE Broken

\* A script that is an expression: nothing but layout may follow.
Expression(tokens) ==
  LET r == Exp(tokens, 0)
  IN IF r.ok /\ \A i \in DOMAIN r.rest : r.rest[i].kind \in Layout THEN r ELSE Broken

-----------------------------------------------------------------------------
\* Mutant of MatchingDedent: the first dedent, whatever it closes.
FirstDedent(tokens) ==
  Min({Len(tokens)} \cup {i \in DOMAIN tokens : tokens[i].kind = "dedent"})

\* How many tokens there are up to the dedent that closes a block, the tokens
\* of which are the first, that dedent included; all of them if there is none.
MatchingDedent(tokens) ==
  LET Among(kind, i) == Cardinality({j \in 1..i : tokens[j].kind = kind})
  IN Min({Len(tokens)} \cup
         {i \in DOMAIN tokens : Among("indent", i) < Among("dedent", i)})

Blockhead == <<":", "newline", "indent">>
\* The tokens of the block at the head of tokens, and those after it.
Inside(tokens) == SubSeq(tokens, 1, MatchingDedent(tokens))
Beyond(tokens) == SubSeq(tokens, MatchingDedent(tokens) + 1, Len(tokens))

RECURSIVE Block(_), Cases(_)

\* Script::block_from_tokens
Block(tokens) ==
  IF tokens # <<>> /\ Word(Head(tokens)) = "if" THEN Under("if", Cases(tokens))
  ELSE Expression(tokens)

\* The cases of an if, from an if, elif or else on: condition, block, condition,
\* block and so on, the else block at last.  Whatever follows that is ignored.
Cases(tokens) ==
  LET colon == SelectInSeq(tokens, LAMBDA t : t.kind = ":")
      body == SubSeq(tokens, colon + 3, Len(tokens))
      condition == Expression(SubSeq(tokens, 2, colon - 1))
      block == Block(Inside(body))
      others == Cases(Beyond(body))
      word == Word(Head(tokens))
      next == IF Beyond(body) = <<>> THEN "" ELSE Word(Head(Beyond(body)))
  IN IF colon = 0 \/ ~Follows(tokens, colon, Blockhead) \/ ~block.ok
     THEN Broken
     ELSE IF word = "else"
     THEN IF colon = 2 THEN Parsed(<<block.tree>>, <<>>) ELSE Broken
     ELSE IF word \in {"if", "elif"} /\ next # "if" /\ condition.ok /\ others.ok
     THEN Parsed(<<condition.tree, block.tree>> \o others.tree, <<>>)
     ELSE Broken
=============================================================================
