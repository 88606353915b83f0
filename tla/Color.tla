-------------------------------- MODULE Color --------------------------------
(***************************************************************************)
(* The colors that the tree may give to a light, and the state of a light  *)
(* that is sent to the bridge for each.  A string is its form and the      *)
(* numbers in it; the spaces that the regular expressions allow, and what  *)
(* they allow before and after a color, are left out.  The code calculates *)
(* with f64: every product below is exact there, and no quotient is close  *)
(* enough to the next whole number for its rounding to show.               *)
(***************************************************************************)
EXTENDS Integers, Sequences, FiniteSetsExt

ByteLimit == 2^8
WordLimit == 2^16

\* A value of the tree: a string of one of these forms, or no string.
Forms == {"none", "mired", "rgb", "bhs", "word", "number"}
Text(form, args) == [form |-> form, args |-> args]

\* How many numbers are in a string of a form.
Numbers(form) ==
  CASE form \in {"rgb", "bhs"} -> 3
    [] form = "mired" -> 1
    [] OTHER -> 0

Texts == {t \in [form : Forms, args : Seq(Nat)] : Len(t.args) = Numbers(t.form)}

Below(limits, args) == \A i \in DOMAIN limits : args[i] < limits[i]

\* The strings that are colors.
IsColor(t) ==
  \/ t.form = "bhs" /\ Below(<<ByteLimit, WordLimit, ByteLimit>>, t.args)
  \/ t.form = "rgb" /\ Below(<<ByteLimit, ByteLimit, ByteLimit>>, t.args)
  \/ t.form = "mired" /\ t.args[1] \in 40..200

Strongest(rgb) == Max({rgb[1], rgb[2], rgb[3]})
Weakest(rgb) == Min({rgb[1], rgb[2], rgb[3]})

\* A quotient without its fraction, which for a negative one is above it.
Truncated(n, d) == IF n < 0 THEN 0 - ((0 - n) \div d) ELSE n \div d

\* The hue in units of a sixth of the circle, from -1 to 5, times 2^16.  It is
\* never divided by six.
Hue(rgb) ==
  LET max == Strongest(rgb)
      spread == max - Weakest(rgb)
      Toward(k, less, more) ==
        Truncated((k * spread + more - less) * WordLimit, spread)
  IN CASE max = Weakest(rgb) -> 0
       [] max # Weakest(rgb) /\ max = rgb[1] -> Toward(0, rgb[3], rgb[2])
       [] max # rgb[1] /\ max = rgb[2] -> Toward(2, rgb[1], rgb[3])
       [] OTHER -> Toward(4, rgb[2], rgb[1])

\* What `as u16` may give: of a number out of range it was not defined before
\* Rust 1.45, and builds gave its low bits or the limit.
AsWord(n) ==
  IF n \in 0..(WordLimit - 1) THEN {n}
  ELSE {n % WordLimit, IF n < 0 THEN 0 ELSE WordLimit - 1}

BHS(brightness, hue, saturation) ==
  [bri |-> brightness, hue |-> hue, sat |-> saturation]

\* Mutant of FromRgb: the saturation is not relative to the brightness.
FromRgbSpread(rgb) ==
  {BHS((Strongest(rgb) * 255) \div ByteLimit, hue,
       ((Strongest(rgb) - Weakest(rgb)) * 255) \div ByteLimit)
     : hue \in AsWord(Hue(rgb))}

FromRgb(rgb) ==
  LET max == Strongest(rgb)
  IN {BHS((max * 255) \div ByteLimit, hue,
          IF max = 0 THEN 0 ELSE ((max - Weakest(rgb)) * 255) \div max)
        : hue \in AsWord(Hue(rgb))}

Colored(c) == [on |-> TRUE, bri |-> c.bri, hue |-> c.hue, sat |-> c.sat]

\* The states that may be sent for a string, none if it is an error.
LightStates(t) ==
  CASE t.form = "none" -> {[on |-> FALSE]}
    [] t.form = "mired" /\ IsColor(t) -> {[on |-> TRUE, ct |-> t.args[1]]}
    [] t.form = "rgb" /\ IsColor(t) -> {Colored(c) : c \in FromRgb(t.args)}
    [] t.form = "bhs" /\ IsColor(t) -> {Colored(BHS(t.args[1], t.args[2], t.args[3]))}
    [] OTHER -> {}

-----------------------------------------------------------------------------
\* Reference: what it is for a light to show a string.  The strongest and the
\* weakest component can be told from brightness and saturation, as when hue,
\* saturation and value are turned back into red, green and blue; a brightness
\* of 0 is a component of 0 or 1.  The hue is right only where it is 0.
ShownStrongest(s) == {s.bri + 1} \cup (IF s.bri = 0 THEN {0} ELSE {})
ShownWeakest(s, strongest) == (strongest * (255 - s.sat)) \div 255

Shows(s, t) ==
  CASE t.form = "none" -> ~s.on
    [] t.form = "mired" -> s.on /\ s.ct = t.args[1]
    [] t.form = "bhs" -> s.on /\ <<s.bri, s.hue, s.sat>> = t.args
    [] t.form = "rgb" ->
         /\ s.on
         /\ Strongest(t.args) \in ShownStrongest(s)
         /\ Weakest(t.args) = ShownWeakest(s, Strongest(t.args))
         /\ t.args[2] = t.args[3] /\ t.args[2] <= t.args[1] => s.hue = 0
=============================================================================
