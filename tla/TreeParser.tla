----------------------------- MODULE TreeParser -----------------------------
(***************************************************************************)
(* The configuration file, from lines to the tree: the tokenizer with its  *)
(* stack of indentations, then the recursive descent over nodes.           *)
(*                                                                         *)
(* A line is a string, without tabs.  open is the call stack of the        *)
(* descent.  A node has the tokens set on it, one each of "$", "@" and     *)
(* "<>", and its input: nothing, the name of a source, or a script.  What  *)
(* an import stands for was parsed before the file; the nodes it brings    *)
(* are shared with other imports of it, and nothing is ever set on them.   *)
(***************************************************************************)
EXTENDS ExprParser

CONSTANTS
  Files,     \* files: their lines, the tree they mean, whether they are sound
  Imports,   \* the trees of intercepted imports, by name
  MaxTokens  \* bound: tokens of a file

VARIABLES
  file,     \* the file, and history: what it means
  lines,    \* the lines to be read
  line,     \* what is left of the line that is being read
  indents,  \* indentations that are open
  tokens,   \* tokens made, and not yet parsed
  open,     \* nodes being parsed, the innermost last, and where in them we are
  tree,     \* path |-> node
  outcome   \* "reading", "done" or "broken"

vars == <<file, lines, line, indents, tokens, open, tree, outcome>>

\* What can name a child; only a name can name a node at the top.
ChildNames == {"name", "bool", "int"}
Marks == {"$", "@", "<>"}
Blank == [input |-> <<>>, marks |-> {}]

Break == outcome' = "broken"

Init ==
  /\ file \in Files
  /\ lines = file.lines
  /\ line = "" /\ indents = <<0>> /\ tokens = <<>>
  /\ open = <<>>
  /\ tree = <<>> :> Blank
  /\ outcome = "reading"

-----------------------------------------------------------------------------
\* The tokenizer.
Closed(level) == SelectSeq(indents, LAMBDA i : i > level)
\* Mutant of Dedents: one, however many indentations end.
OneDedent(level) == <<Token("dedent", "")>>

Dedents(level) == [i \in 1..Len(Closed(level)) |-> Token("dedent", "")]

\* Mutant of StillOpen: one too many is taken from the stack.
OneTooFew(level) == SelectSeq(indents, LAMBDA i : i < level)

StillOpen(level) == SelectSeq(indents, LAMBDA i : i <= level)

\* A line with nothing but a comment is skipped.
SkipBlank ==
  /\ outcome = "reading" /\ line = "" /\ lines # <<>>
  /\ TrimComment(Head(lines)) = ""
  /\ lines' = Tail(lines)
  /\ UNCHANGED <<file, line, indents, tokens, open, tree, outcome>>

StartLine ==
  /\ outcome = "reading" /\ line = "" /\ lines # <<>>
  /\ TrimComment(Head(lines)) # ""
  /\ LET level == LeadingWhitespace(Head(lines))
     IN \/ /\ level > Last(indents)
           /\ indents' = Append(indents, level)
           /\ tokens' = Append(tokens, Token("indent", ""))
           /\ UNCHANGED outcome
        \/ /\ level <= Last(indents) /\ level \in Range(indents)
           /\ indents' = StillOpen(level)
           /\ tokens' = tokens \o Dedents(level)
           /\ UNCHANGED outcome
        \/ /\ level <= Last(indents) /\ level \notin Range(indents)
           /\ Break
           /\ UNCHANGED <<indents, tokens>>
  /\ line' = TrimComment(Head(lines))
  /\ lines' = Tail(lines)
  /\ UNCHANGED <<file, open, tree>>

\* A newline follows the last token of a line.
TokenizeNext ==
  /\ outcome = "reading" /\ line # "" /\ Len(tokens) < MaxTokens
  /\ LET next == NextToken(line)
     IN \/ /\ next.ok
           /\ tokens' = Append(tokens, next.token) \o
                IF next.rest = "" THEN <<Token("newline", "")>> ELSE <<>>
           /\ line' = next.rest
           /\ UNCHANGED outcome
        \/ /\ ~next.ok /\ Break
           /\ UNCHANGED <<line, tokens>>
  /\ UNCHANGED <<file, lines, indents, open, tree>>

-----------------------------------------------------------------------------
\* The descent.  Place is where we are in the innermost node.
Parsing == outcome = "reading" /\ lines = <<>> /\ line = ""
InnermostAt(place) == Parsing /\ open # <<>> /\ Last(open).at = place
NextIn(kinds) == tokens # <<>> /\ Head(tokens).kind \in kinds
Here == Last(open).path
Frame(path, place) == [path |-> path, at |-> place]
GoOn(place) == open' = [open EXCEPT ![Len(open)].at = place]

\* NodeRef::add_child: a child of the same name is replaced, with all below it.
WithChild(path) ==
  [p \in {q \in DOMAIN tree : ~IsPrefix(path, q)} |-> tree[p]] @@ (path :> Blank)

ConsumeName(parent) ==
  LET path == Append(parent, Head(tokens).text)
  IN /\ tree' = WithChild(path)
     /\ open' = Append(open, Frame(path, "inline"))
     /\ tokens' = Tail(tokens)

CloseNode == open' = Front(open)

\* Mutant of InsertSubtree: what was there of the same name stays below.
InsertSubtreeMerges(path, subtree) ==
  [q \in {path \o p : p \in DOMAIN subtree \ {<<>>}} |->
     subtree[SubSeq(q, Len(path) + 1, Len(q))]] @@ tree

\* The children of a subtree, put below a path in place of those of the same
\* names.
InsertSubtree(path, subtree) ==
  LET names == {p \in DOMAIN subtree : Len(p) = 1}
      Replaced(q) == \E name \in names : IsPrefix(path \o name, q)
  IN [q \in {path \o p : p \in DOMAIN subtree \ {<<>>}} |->
        subtree[SubSeq(q, Len(path) + 1, Len(q))]]
     @@ [q \in {q \in DOMAIN tree : ~Replaced(q)} |-> tree[q]]

\* A sigil at the head of ts set on the node at a path: whether that works, the
\* tree then, and the tokens that are left.
NotSet == [ok |-> FALSE, tree |-> tree, rest |-> <<>>]
Mark(path, ts) ==
  IF \E m \in tree[path].marks : m.kind = Head(ts).kind THEN NotSet
  ELSE [ok |-> TRUE, tree |-> [tree EXCEPT ![path].marks = @ \cup {Head(ts)}],
        rest |-> Tail(ts)]
Input(path, input, ok, rest) ==
  IF ~ok \/ tree[path].input # <<>> THEN NotSet
  ELSE [ok |-> TRUE, tree |-> [tree EXCEPT ![path].input = input], rest |-> rest]

ComesFromInline(path, ts) ==
  LET end == SelectInSeq(ts, LAMBDA t : t.kind = "newline")
      r == Expression(Resolved(SubSeq(ts, 2, end - 1), path))
  IN Input(path, r.tree, r.ok, SubSeq(ts, end, Len(ts)))

\* The newline of the block was before its dedent; another is put after it.
ComesFromBlock(path, ts) ==
  LET body == SubSeq(ts, 4, Len(ts))
      r == Block(Resolved(Inside(body), path))
  IN Input(path, r.tree,
           Follows(ts, 2, <<"newline", "indent">>) /\ r.ok,
           <<Token("newline", "")>> \o Beyond(body))

\* No import is looked for in the file system.
DoImport(path, ts) ==
  LET name == Head(ts).text
  IN IF name \notin DOMAIN Imports THEN NotSet
     ELSE [ok |-> TRUE, tree |-> InsertSubtree(path, Imports[name]), rest |-> Tail(ts)]

\* There are no templates to be used.
Sigil(path, ts) ==
  LET kind == Head(ts).kind
  IN CASE kind \in Marks -> Mark(path, ts)
       [] kind = "^" -> Input(path, <<"^" \o Head(ts).text>>, TRUE, Tail(ts))
       [] kind = "<-" -> ComesFromInline(path, ts)
       [] kind = "<-\\" -> ComesFromBlock(path, ts)
       [] kind = "import" -> DoImport(path, ts)
       [] OTHER -> NotSet

\* The sigil s is set; then is a kind of token that must follow it.
SetSigil(s, then) ==
  IF s.ok /\ (then = {} \/ (s.rest # <<>> /\ Head(s.rest).kind \in then))
  THEN /\ tree' = s.tree
       /\ tokens' = IF then = {} THEN s.rest ELSE Tail(s.rest)
       /\ UNCHANGED <<open, outcome>>
  ELSE Break /\ UNCHANGED <<tree, tokens, open>>

ConsumeSigil(then) == SetSigil(Sigil(Here, tokens), then)

ConsumeRoot ==
  /\ Parsing /\ open = <<>>
  /\ \/ NextIn({"name"}) /\ ConsumeName(<<>>) /\ UNCHANGED outcome
     \/ NextIn({"import"}) /\ SetSigil(DoImport(<<>>, tokens), {"newline"})
     \/ /\ tokens # <<>> /\ ~NextIn({"name", "import"}) /\ Break
        /\ UNCHANGED <<open, tokens, tree>>
     \/ /\ tokens = <<>> /\ outcome' = "done"
        /\ UNCHANGED <<open, tokens, tree>>
  /\ UNCHANGED <<file, lines, line, indents>>

\* After the name, up to the newline, and to the indent if there is one.  The
\* tokens do not end before a newline.
ConsumeInlineSuite ==
  /\ InnermostAt("inline")
  /\ \/ /\ NextIn({"newline"})
        /\ \/ /\ Starts(Tail(tokens), "indent")
              /\ tokens' = Tail(Tail(tokens))
              /\ GoOn("block")
           \/ /\ ~Starts(Tail(tokens), "indent")
              /\ tokens' = Tail(tokens)
              /\ CloseNode
        /\ UNCHANGED <<tree, outcome>>
     \/ tokens # <<>> /\ ~NextIn({"newline"}) /\ ConsumeSigil({})
  /\ UNCHANGED <<file, lines, line, indents>>

\* The sigils of a node on lines of their own.
ConsumeBlockSuite ==
  /\ InnermostAt("block")
  /\ \/ /\ tokens = <<>> \/ NextIn(ChildNames \cup {"dedent"})
        /\ GoOn("children")
        /\ UNCHANGED <<tokens, tree, outcome>>
     \/ /\ tokens # <<>> /\ ~NextIn(ChildNames \cup {"dedent"})
        /\ ConsumeSigil({"newline"})
  /\ UNCHANGED <<file, lines, line, indents>>

ConsumeChildren ==
  /\ InnermostAt("children")
  /\ \/ NextIn(ChildNames) /\ ConsumeName(Here) /\ UNCHANGED outcome
     \/ /\ NextIn({"dedent"})
        /\ tokens' = Tail(tokens) /\ CloseNode
        /\ UNCHANGED <<tree, outcome>>
     \/ /\ tokens = <<>> /\ CloseNode
        /\ UNCHANGED <<tokens, tree, outcome>>
     \/ /\ tokens # <<>> /\ ~NextIn(ChildNames \cup {"dedent"}) /\ Break
        /\ UNCHANGED <<tokens, tree, open>>
  /\ UNCHANGED <<file, lines, line, indents>>

\* The daemon goes on with the tree, or ends.
Ended == outcome # "reading" /\ UNCHANGED vars

Next ==
  \/ SkipBlank \/ StartLine \/ TokenizeNext
  \/ ConsumeRoot \/ ConsumeInlineSuite \/ ConsumeBlockSuite \/ ConsumeChildren
  \/ Ended

Spec == Init /\ [][Next]_vars

-----------------------------------------------------------------------------
TypeOK ==
  /\ IsSuffix(lines, file.lines)
  /\ Len(indents) > 0 /\ Head(indents) = 0
  /\ \A i \in 1..(Len(indents) - 1) : indents[i] < indents[i + 1]
  /\ Len(tokens) <= MaxTokens
  /\ \A i \in DOMAIN open :
       /\ open[i].path \in DOMAIN tree
       /\ Len(open[i].path) = i
       /\ open[i].at \in {"inline", "block", "children"}
  /\ outcome \in {"reading", "done", "broken"}

\* A file that is accepted yields the tree that its indentation and the usual
\* reading of operators say: every node below its parent, with its own sigils
\* and the script that was written for it (TreeTokenizer::tokenize,
\* TreeParser::consume_tree, ExprParser::exp_p).
ReadAsMeant == outcome = "done" => tree = file.means

\* A file in which nothing is wrong is accepted: a block may end with the file,
\* with several blocks at once, or with another line of its node (the newline
\* that TreeParser::consume_sigil puts after a block).
SoundAccepted == file.sound => outcome # "broken"

\* What is left to read, and then what is left to parse and to leave.
Unread == FoldSeq(LAMBDA l, n : n + Len(l) + 1, Len(line), lines)
Unparsed ==
  LET Places == [inline |-> 3, block |-> 2, children |-> 1]
  IN FoldSeq(LAMBDA f, n : n + Places[f.at], 4 * Len(tokens), open)

\* The parser comes to an end, with a file that has no ">" in it: every step of
\* the loops of TreeTokenizer::tokenize and TreeParser::consume_tree leaves less
\* to do than there was, in tokens to read or else to parse.  (That it stops
\* nowhere else is the check for deadlock.)
StepsShrink ==
  [][\/ outcome' # "reading"
     \/ Unread' < Unread
     \/ Unread' = Unread /\ Unparsed' < Unparsed]_vars
=============================================================================
