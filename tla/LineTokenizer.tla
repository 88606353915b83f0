---------------------------- MODULE LineTokenizer ----------------------------
(***************************************************************************)
(* From the characters of a line to its tokens, one at a time.  A line is  *)
(* a string that holds no more than ASCII; a token is its kind, which for  *)
(* operators and layout is how they are written, and a text.  NextToken    *)
(* gives the next token of a line and what is left of the line.            *)
(*                                                                         *)
(* A failed assertion is an error like any other.  Numbers keep the text   *)
(* that they are written in, and are small enough for their types.         *)
(* This module is for the model checker, which takes strings apart.        *)
(***************************************************************************)
EXTENDS Integers, Sequences, SequencesExt, FiniteSetsExt

At(s, i) == IF i \in 1..Len(s) THEN SubSeq(s, i, i) ELSE ""
From(s, i) == SubSeq(s, i, Len(s))
Chars(s) == {At(s, i) : i \in 1..Len(s)}
Letters == Chars("abcdefghijklmnopqrstuvwxyzABCDEFGHIJKLMNOPQRSTUVWXYZ")
Digits == Chars("0123456789")
OfNumber == Digits \cup {"."}
OfName == Letters \cup OfNumber \cup {"-", "_"}
OfPath == OfName \cup {"/", "{", "}"}

\* The first place from i on with a character outside C, and one inside C; the
\* place after the end if there is none.
Past(s, i, C) == Min({Len(s) + 1} \cup {j \in i..Len(s) : At(s, j) \notin C})
Find(s, i, C) == Min({Len(s) + 1} \cup {j \in i..Len(s) : At(s, j) \in C})

SkipSpace(s) == From(s, Past(s, 1, {" "}))
\* A line without its comment and the space at its end.
TrimComment(raw) ==
  LET code == SubSeq(raw, 1, Find(raw, 1, {"#"}) - 1)
  IN SubSeq(code, 1, Max({0} \cup {i \in 1..Len(code) : At(code, i) # " "}))
LeadingWhitespace(s) == Past(s, 1, {" "}) - 1

Token(kind, text) == [kind |-> kind, text |-> text]
Layout == {"newline", "indent", "dedent"}
Bad == [ok |-> FALSE, token |-> Token("newline", ""), rest |-> ""]
Made(kind, text, rest) == [ok |-> TRUE, token |-> Token(kind, text), rest |-> rest]
\* An operator of n characters at the head of s.
Symbol(s, n) == Made(SubSeq(s, 1, n), "", From(s, n + 1))
\* A token of characters of C, from i on.
Run(kind, s, i, C) == Made(kind, SubSeq(s, i, Past(s, i, C) - 1), From(s, Past(s, i, C)))

-----------------------------------------------------------------------------
TokenizeImport(s) ==
  LET file == Run("import", SkipSpace(From(s, 2)), 1, OfPath)
      after == SkipSpace(file.rest)
  IN IF At(s, 1) = "(" /\ At(after, 1) = ")" THEN [file EXCEPT !.rest = From(after, 2)]
     ELSE Bad

\* No parser takes a template, whatever is in it.
TokenizeTemplate(s) ==
  LET named == SkipSpace(From(s, Past(s, 1, OfName)))
      end == Find(named, 1, {"]"})
  IN IF At(named, 1) = "[" /\ end <= Len(named)
     THEN Made("template", "", From(named, end + 1)) ELSE Bad

TokenizeNameOrKeyword(s) ==
  LET word == Run("name", s, 1, OfName)
  IN CASE word.token.text \in {"true", "false"} -> [word EXCEPT !.token.kind = "bool"]
       [] word.token.text = "import" -> TokenizeImport(SkipSpace(word.rest))
       [] word.token.text = "template" -> TokenizeTemplate(SkipSpace(word.rest))
       [] OTHER -> word

TokenizeIntOrFloat(s) ==
  LET start == IF At(s, 1) = "-" THEN 2 ELSE 1
      end == Past(s, start, OfNumber) - 1
      dots == Cardinality({i \in start..end : At(s, i) = "."})
  IN IF end - start + 1 <= dots \/ dots > 1 THEN Bad
     ELSE Made(IF dots = 0 THEN "int" ELSE "float", SubSeq(s, 1, end), From(s, end + 1))

\* Mutant of TokenizeSubtractOrNumber: a space makes no difference.
SubtractOrNumberTight(s) ==
  IF At(s, 2) \in {"/", "."} THEN Symbol(s, 1) ELSE TokenizeIntOrFloat(s)

TokenizeSubtractOrNumber(s) ==
  IF At(s, 2) \in {" ", "/", "."} THEN Symbol(s, 1) ELSE TokenizeIntOrFloat(s)

TokenizeStartOfBlockOrLatch(s) == Symbol(s, IF At(s, 2) = ":" THEN 2 ELSE 1)

TokenizePath(s) == Run("path", s, 1, OfPath)
TokenizeAbsolutePathOrDivision(s) ==
  IF At(s, 2) \in {"", " "} THEN Symbol(s, 1) ELSE TokenizePath(s)

TokenizeUseTemplateOrNotEq(s) ==
  CASE At(s, 2) = "" -> Bad
    [] At(s, 2) = "=" -> Symbol(s, 2)
    [] OTHER -> Run("use", s, 2, OfName)

-----------------------------------------------------------------------------
\* Dimension2: two lengths with an x between them, in meters or in feet and
\* inches; nothing is ever calculated with them.
IsNumber(s) ==
  LET digits == From(s, IF At(s, 1) \in {"-", "+"} THEN 2 ELSE 1)
  IN /\ Chars(digits) \subseteq OfNumber /\ Chars(digits) \cap Digits # {}
     /\ Cardinality({i \in 1..Len(digits) : At(digits, i) = "."}) <= 1
LessLast(s) == SubSeq(s, 1, Len(s) - 1)
IsLength(s) ==
  LET foot == Find(s, 1, {"'"})
      feet == SubSeq(s, 1, foot - 1)
      inches == From(s, foot + 1)
  IN CASE foot <= Len(s) ->
            /\ IsNumber(feet) /\ "." \notin Chars(feet)
            /\ inches = "" \/ (At(s, Len(s)) = "\"" /\ IsNumber(LessLast(inches)))
       [] foot > Len(s) /\ At(s, Len(s)) \in {"\"", "m"} -> IsNumber(LessLast(s))
       [] OTHER -> IsNumber(s)
IsDimension(s) ==
  LET x == Find(s, 1, {"x"})
  IN IsLength(SubSeq(s, 1, x - 1)) /\ IsLength(From(s, x + 1))

\* A location or size: what there is up to a space, after a sign of n characters.
TokenizeDimension(s, n) ==
  LET end == Find(s, n + 1, {" "})
      text == SubSeq(s, n + 1, end - 1)
  IN IF IsDimension(text) THEN Made(SubSeq(s, 1, n), text, From(s, end)) ELSE Bad

\* A backslash may stand before a quote, which then is part of the string, and
\* nowhere else.
TokenizeString(s) ==
  LET quotes == {i \in 2..Len(s) : At(s, i) = "\"" /\ At(s, i - 1) # "\\"}
      end == Min(quotes)
      escapes == {i \in 2..(end - 1) : At(s, i) = "\\"}
      text == FoldLeft(LAMBDA t, i : IF i \in escapes THEN t ELSE t \o At(s, i), "",
                       [i \in 1..(end - 2) |-> i + 1])
  IN IF quotes # {} /\ \A i \in escapes : At(s, i + 1) = "\""
     THEN Made("string", text, From(s, end + 1)) ELSE Bad

\* Mutant of TokenizeComesFrom: the operator of a block is not advanced over.
ComesFromStays(s) ==
  IF At(s, 2) = "-" /\ At(s, 3) = "\\" THEN Made("<-\\", "", s)
  ELSE IF At(s, 2) = ">" THEN TokenizeDimension(s, 2)
  ELSE Symbol(s, IF At(s, 2) \in {"-", "="} THEN 2 ELSE 1)

TokenizeComesFrom(s) ==
  CASE At(s, 2) = "-" -> Symbol(s, IF At(s, 3) = "\\" THEN 3 ELSE 2)
    [] At(s, 2) = "=" -> Symbol(s, 2)
    [] At(s, 2) = ">" -> TokenizeDimension(s, 2)
    [] OTHER -> Symbol(s, 1)

\* A token is made and the line is left as it is.
TokenizeGreaterThan(s) ==
  CASE At(s, 2) = "" -> Bad
    [] At(s, 2) = "=" -> Made(">=", "", s)
    [] OTHER -> Made(">", "", s)

TokenizeSourceOrSink(s) == Run(At(s, 1), s, 2, OfName)

\* && and ||; a mixed pair fails an assertion.
TokenizeOperator2(s) == IF At(s, 2) = At(s, 1) THEN Symbol(s, 2) ELSE Bad

TokenizeOne(s) ==
  LET c == At(s, 1)
  IN CASE c \in Letters -> TokenizeNameOrKeyword(s)
       [] c \in Digits -> TokenizeIntOrFloat(s)
       [] c = "/" -> TokenizeAbsolutePathOrDivision(s)
       [] c = "." -> TokenizePath(s)
       [] c \in {"^", "$"} -> TokenizeSourceOrSink(s)
       [] c = "!" -> TokenizeUseTemplateOrNotEq(s)
       [] c = "@" -> TokenizeDimension(s, 1)
       [] c = "\"" -> TokenizeString(s)
       [] c = "<" -> TokenizeComesFrom(s)
       [] c = ">" -> TokenizeGreaterThan(s)
       [] c \in {"&", "|"} -> TokenizeOperator2(s)
       [] c = "=" -> IF At(s, 2) = "=" THEN Symbol(s, 2) ELSE Bad
       [] c = "-" -> TokenizeSubtractOrNumber(s)
       [] c = ":" -> TokenizeStartOfBlockOrLatch(s)
       [] c \in {"(", ")", "+", "*", "%"} -> Symbol(s, 1)
       [] OTHER -> Bad

NextToken(s) == TokenizeOne(SkipSpace(s))
=============================================================================
