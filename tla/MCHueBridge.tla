---------------------------- MODULE MCHueBridge ----------------------------
(***************************************************************************)
(* A bridge with two lights and room for two groups, and a light that    *)
(* the tree names and the bridge does not know.                            *)
(***************************************************************************)
EXTENDS HueBridge, TLC

CONSTANTS hall, porch, ghost

Lights == {hall, porch, ghost}
Symmetry == Permutations({hall, porch})

\* No light, a color, a color temperature, one out of range, and a value that is
\* no string.
Values ==
  {Text("none", <<>>), Text("rgb", <<128, 64, 64>>), Text("mired", <<150>>),
   Text("mired", <<201>>), Text("number", <<>>)}

\* Components at the limits, around the middle, and in every order.
Levels == {0, 1, 2, 64, 127, 128, 200, 254, 255, 256}
Colors ==
  {Text("rgb", <<r, g, b>>) : r \in Levels, g \in Levels, b \in Levels}
=============================================================================
