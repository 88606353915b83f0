----------------------------- MODULE ConfigText -----------------------------
(***************************************************************************)
(* What a configuration file means, said without a parser: how a tree is   *)
(* written down with no more parentheses than it needs, and how lines that *)
(* have no blocks of script are read by their indentation alone.  A line   *)
(* is how far it is indented and its words; last comes how it is spelled.  *)
(***************************************************************************)
EXTENDS Integers, Sequences, SequencesExt, FiniteSetsExt

CONSTANT Step  \* what a line is indented by below another

\* Operators, from those that bind loosest.
Levels ==
  <<{"::"}, {"||"}, {"&&"}, {"==", "!="}, {"<", ">", "<=", ">="},
    {"+", "-"}, {"negate"}, {"*", "/", "%"}>>
LevelOf(op) == CHOOSE i \in DOMAIN Levels : op \in Levels[i]

RECURSIVE Written(_, _)

\* An expression where only operators of that level or tighter may stand bare.
Written(e, level) ==
  IF Len(e) = 1 THEN e
  ELSE IF \A i \in DOMAIN Levels : e[1] \notin Levels[i]
  THEN <<e[1], "(">> \o Written(e[2], 1) \o <<")">>
  ELSE LET own == LevelOf(e[1])
           bare == IF Len(e) = 2 THEN <<"-">> \o Written(e[2], own)
                   ELSE Written(e[2], own) \o <<e[1]>> \o Written(e[3], own + 1)
       IN IF own < level THEN <<"(">> \o bare \o <<")">> ELSE bare

Line(level, words) == [level |-> level, words |-> words]

RECURSIVE ScriptLines(_, _)

\* A script as a block of lines.
ScriptLines(e, level) ==
  IF e[1] # "if" THEN <<Line(level, Written(e, 1))>>
  ELSE LET parts == e[2]
           Case(i) == IF i = 1 THEN <<"if">> ELSE <<"elif">>
       IN FlattenSeq([i \in 1..(Len(parts) \div 2) |->
              <<Line(level, Case(i) \o Written(parts[2 * i - 1], 1) \o <<":">>)>>
              \o ScriptLines(parts[2 * i], level + Step)])
          \o <<Line(level, <<"else", ":">>)>>
          \o ScriptLines(Last(parts), level + Step)

\* A node has a name, marks, an input, a style that the input is written in, and
\* children.  The styles: after the name, or on a line of its own, and either
\* at once or as a block.  An import is a node of that style: its name is what it
\* is known by, and its children are what it brings.
First(word) == SubSeq(word, 1, 1)
Others(word) == SubSeq(word, 2, Len(word))
InputWords(n) ==
  IF n.input = <<>> \/ First(n.input[1]) = "^" THEN n.input
  ELSE <<"<-">> \o Written(n.input, 1)

RECURSIVE NodeLines(_, _)

NodeLines(n, level) ==
  LET head == <<n.name>> \o [i \in DOMAIN n.marks |-> n.marks[i].kind \o n.marks[i].text]
      below == level + Step
      children == FlattenSeq([i \in DOMAIN n.children |-> NodeLines(n.children[i], below)])
  IN CASE n.style = "import" -> <<Line(level, <<"import(" \o n.name \o ")">>)>>
       [] n.style = "same" -> <<Line(level, head \o InputWords(n))>> \o children
       [] n.style = "own" ->
            <<Line(level, head), Line(below, InputWords(n))>> \o children
       [] n.style = "block" ->
            <<Line(level, Append(head, "<-\\"))>> \o ScriptLines(n.input, below)
       [] n.style = "ownblock" ->
            <<Line(level, head), Line(below, <<"<-\\">>)>>
            \o ScriptLines(n.input, below + Step) \o children

DocumentLines(nodes) == FlattenSeq([i \in DOMAIN nodes |-> NodeLines(nodes[i], 0)])

\* The nodes in the order they come, imports replaced by what they bring.  The
\* last of a name is the one.
Brought(nodes) ==
  FlattenSeq([i \in DOMAIN nodes |->
    IF nodes[i].style = "import" THEN nodes[i].children ELSE <<nodes[i]>>])
LastOfName(nodes) ==
  {nodes[i] : i \in {i \in DOMAIN nodes :
                      \A j \in (i + 1)..Len(nodes) : nodes[j].name # nodes[i].name}}

RECURSIVE DocumentTree(_, _, _)

\* The tree of a document: the node at a path with what is below it.
DocumentTree(path, node, nodes) ==
  FoldSet(LAMBDA child, tree :
            tree @@ DocumentTree(Append(path, child.name),
                                 [input |-> child.input, marks |-> Range(child.marks)],
                                 child.children),
          path :> node, LastOfName(Brought(nodes)))

-----------------------------------------------------------------------------
\* The tree that lines mean, which are nodes with marks, marks, or blank: what a
\* line belongs to is the nearest node above it that is indented less.  When a
\* name is given again, the later node takes the place of the earlier one.
PlainTree(ls, names) ==
  LET nodes == {i \in DOMAIN ls : ls[i].words # <<>> /\ ls[i].words[1] \in names}
      above(i) == {j \in nodes : j < i /\ ls[j].level < ls[i].level}
      path[i \in 0..Len(ls)] ==
        IF i = 0 THEN <<>>
        ELSE Append(path[IF above(i) = {} THEN 0 ELSE Max(above(i))], ls[i].words[1])
      replaced(i) == \E j \in nodes : j > i /\ IsPrefix(path[j], path[i])
      kept == {i \in nodes : ~replaced(i)}
      marks(i) == {[kind |-> First(w), text |-> Others(w)] : w \in Range(ls[i].words) \ names}
      onLines(i) == {j \in DOMAIN ls \ nodes : above(j) # {} /\ Max(above(j)) = i}
      blank == [input |-> <<>>, marks |-> {}]
  IN [p \in {<<>>} \cup {path[i] : i \in kept} |->
        IF p = <<>> THEN blank
        ELSE LET i == CHOOSE k \in kept : path[k] = p
             IN [blank EXCEPT !.marks = UNION {marks(j) : j \in {i} \cup onLines(i)}]]

-----------------------------------------------------------------------------
\* A path from the root, and the same from a node whose parent is here: up to
\* where they part and down again.
Absolute(there) == FoldLeft(LAMBDA s, name : s \o "/" \o name, "", there)
Relative(here, there) ==
  LET common == CHOOSE n \in 0..Len(here) :
                  /\ IsPrefix(SubSeq(here, 1, n), there)
                  /\ \A m \in (n + 1)..Len(here) : ~IsPrefix(SubSeq(here, 1, m), there)
  IN "." \o Absolute([i \in 1..(Len(here) - common) |-> ".."]
                     \o SubSeq(there, common + 1, Len(there)))

\* Words between which there may be no space, and those that need one: a minus or
\* a slash is an operator before a space, or else may begin something.
Apart == {"(", ")", "+", "*", "%", "==", "!=", "&&", "||", "::", ":", "<="}
Needed(left, right) ==
  left \in {"-", "/"} \/ (left \notin Apart /\ right \notin Apart)

\* The characters of a line, in a manner: with a space between words, or where
\* one is needed, or with a comment at the end.
Spelled(l, manner) ==
  LET Gap(i) == IF i = 1 \/ (manner = "tight" /\ ~Needed(l.words[i - 1], l.words[i]))
                THEN "" ELSE " "
      code == FoldLeft(LAMBDA s, i : s \o Gap(i) \o l.words[i],
                       SubSeq("                    ", 1, l.level),
                       [i \in DOMAIN l.words |-> i])
  IN IF manner = "commented" THEN code \o " # a" ELSE code
=============================================================================
