-------------------------------- MODULE Paths --------------------------------
(***************************************************************************)
(* Paths in scripts: how the text of a path is resolved at the node whose  *)
(* script it is in.  A component is a name, or a lookup in braces, which   *)
(* is written as the path it holds, resolved, in braces.                   *)
(* This module is for the model checker: its operators are recursive.      *)
(***************************************************************************)
EXTENDS LineTokenizer

NoPath == [ok |-> FALSE, components |-> <<>>]
Found(components) == [ok |-> TRUE, components |-> components]

\* Components as a path from the root.
Display(components) ==
  IF components = <<>> THEN "/" ELSE FoldLeft(LAMBDA s, c : s \o "/" \o c, "", components)

Depth(s, i) ==
  Cardinality({j \in 1..i : At(s, j) = "{"}) - Cardinality({j \in 1..i : At(s, j) = "}"})

\* Mutant of Parts: a slash in braces is like any other.
PartsFlat(s) ==
  LET cuts == {0, Len(s) + 1} \cup {i \in 1..Len(s) : At(s, i) = "/"}
      cut == SetToSortSeq(cuts, <)
  IN [k \in 1..(Len(cut) - 1) |-> SubSeq(s, cut[k] + 1, cut[k + 1] - 1)]

\* ScriptPath::tokenize_path: what is between slashes outside braces.
Parts(s) ==
  LET cuts == {0, Len(s) + 1} \cup {i \in 1..Len(s) : At(s, i) = "/" /\ Depth(s, i) = 0}
      cut == SetToSortSeq(cuts, <)
  IN [k \in 1..(Len(cut) - 1) |-> SubSeq(s, cut[k] + 1, cut[k + 1] - 1)]

RECURSIVE FromStrAtPath(_, _)

\* ScriptPath::parse_part, for a script of the node at base.
WithPart(so_far, base, part) ==
  LET inner == FromStrAtPath(base, SubSeq(part, 2, Len(part) - 1))
      components == so_far.components
  IN CASE ~so_far.ok \/ part = "" -> NoPath
       [] so_far.ok /\ part = "." -> so_far
       [] so_far.ok /\ part = ".." ->
            IF components = <<>> THEN NoPath ELSE Found(Front(components))
       [] so_far.ok /\ At(part, 1) = "{" /\ At(part, Len(part)) = "}" ->
            IF inner.ok
            THEN Found(Append(components, "{" \o Display(inner.components) \o "}"))
            ELSE NoPath
       [] OTHER ->
            IF Chars(part) \cap {"{", "}"} = {} THEN Found(Append(components, part))
            ELSE NoPath

FromStrAtPath(base, s) ==
  LET absolute == At(s, 1) = "/"
      start == IF absolute \/ base = <<>> THEN <<>> ELSE Front(base)
      relative == IF absolute THEN From(s, 2) ELSE s
  IN IF Depth(s, Len(s)) # 0 THEN NoPath
     ELSE FoldLeft(LAMBDA path, part : WithPart(path, base, part), Found(start),
                   Parts(relative))
=============================================================================
