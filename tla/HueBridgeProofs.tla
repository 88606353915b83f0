--------------------------- MODULE HueBridgeProofs ---------------------------
(***************************************************************************)
(* Facts about colors and about the hue server with its bridge, proved for *)
(* any lights, values, groups and interference of other applications.      *)
(***************************************************************************)
EXTENDS HueBridge, FiniteSetTheorems, TLAPS

-----------------------------------------------------------------------------
\* The numbers of a string that is a color are in range.
LEMMA Limits == ByteLimit = 256 /\ WordLimit = 65536
BY DEF ByteLimit, WordLimit

LEMMA Components ==
  ASSUME NEW t \in Texts, t.form \in {"rgb", "bhs"}, IsColor(t)
  PROVE  /\ t.args \in Seq(Nat) /\ Len(t.args) = 3
         /\ t.args[1] \in Nat /\ t.args[2] \in Nat /\ t.args[3] \in Nat
         /\ t.args[1] < ByteLimit /\ t.args[3] < ByteLimit
         /\ t.args[2] < WordLimit /\ (t.form = "rgb" => t.args[2] < ByteLimit)
<1>1. t.args \in Seq(Nat) /\ Len(t.args) = 3
  BY DEF Texts, Numbers
<1>2. t.args[1] \in Nat /\ t.args[2] \in Nat /\ t.args[3] \in Nat
  BY <1>1
<1>3. ASSUME NEW a, NEW b, NEW c, Below(<<a, b, c>>, t.args)
      PROVE  t.args[1] < a /\ t.args[2] < b /\ t.args[3] < c
  BY <1>3 DEF Below
<1>4. CASE t.form = "bhs"
  <2>1. Below(<<ByteLimit, WordLimit, ByteLimit>>, t.args)
    BY <1>4 DEF IsColor
  <2> QED BY <1>1, <1>2, <1>3, <1>4, <2>1
<1>5. CASE t.form = "rgb"
  <2>1. Below(<<ByteLimit, ByteLimit, ByteLimit>>, t.args)
    BY <1>5 DEF IsColor
  <2>2. t.args[1] < ByteLimit /\ t.args[2] < ByteLimit /\ t.args[3] < ByteLimit
    BY <1>3, <2>1
  <2> QED BY <1>1, <1>2, <2>2, Limits
<1> QED BY <1>4, <1>5

\* The strongest and the weakest of three components are two of them, and bounds.
LEMMA Extremes ==
  ASSUME NEW rgb, rgb[1] \in Nat, rgb[2] \in Nat, rgb[3] \in Nat
  PROVE  /\ Strongest(rgb) \in {rgb[1], rgb[2], rgb[3]}
         /\ Weakest(rgb) \in {rgb[1], rgb[2], rgb[3]}
         /\ rgb[1] <= Strongest(rgb) /\ rgb[2] <= Strongest(rgb) /\ rgb[3] <= Strongest(rgb)
         /\ Weakest(rgb) <= rgb[1] /\ Weakest(rgb) <= rgb[2] /\ Weakest(rgb) <= rgb[3]
<1> DEFINE S == {rgb[1], rgb[2], rgb[3]}
<1>1. \E x \in S : \A y \in S : x >= y
  OBVIOUS
<1>2. \E x \in S : \A y \in S : x <= y
  OBVIOUS
<1>3. Max(S) \in S /\ \A y \in S : Max(S) >= y
  BY <1>1 DEF Max
<1>4. Min(S) \in S /\ \A y \in S : Min(S) <= y
  BY <1>2 DEF Min
<1>5. rgb[1] \in S /\ rgb[2] \in S /\ rgb[3] \in S /\ S \subseteq Nat
  OBVIOUS
<1>6. Strongest(rgb) = Max(S) /\ Weakest(rgb) = Min(S)
  BY DEF Strongest, Weakest
<1> HIDE DEF S
<1>7. /\ rgb[1] <= Strongest(rgb) /\ rgb[2] <= Strongest(rgb) /\ rgb[3] <= Strongest(rgb)
  BY <1>3, <1>5, <1>6
<1>8. /\ Weakest(rgb) <= rgb[1] /\ Weakest(rgb) <= rgb[2] /\ Weakest(rgb) <= rgb[3]
  BY <1>4, <1>5, <1>6
<1> QED BY <1>3, <1>4, <1>6, <1>7, <1>8 DEF S

\* A byte scaled from 256 to 255 steps is one less, but for 0.
LEMMA Scaled ==
  ASSUME NEW m \in Nat, m < 256
  PROVE  (m * 255) \div 256 = IF m = 0 THEN 0 ELSE m - 1
OBVIOUS

\* What the saturation takes from the strongest component leaves the weakest one.
LEMMA Unscaled ==
  ASSUME NEW m \in Nat \ {0}, m < 256, NEW w \in Nat, w <= m
  PROVE  LET s == ((m - w) * 255) \div m
         IN s \in 0..255 /\ w = (m * (255 - s)) \div 255
<1> DEFINE s == ((m - w) * 255) \div m
           r == ((m - w) * 255) % m
<1>1. (m - w) * 255 \in Nat
  OBVIOUS
<1>2. s \in Nat /\ r \in Nat /\ r < m /\ (m - w) * 255 = m * s + r
  <2>1. \A n \in Nat : /\ n \div m \in Nat /\ n % m \in Nat /\ n % m < m
                       /\ n = m * (n \div m) + (n % m)
    OBVIOUS
  <2> QED BY <1>1, <2>1
<1> HIDE DEF s, r
<1>3. m * s <= m * 255
  BY <1>2
<1>4. s <= 255
  <2>1. ASSUME s >= 256
        PROVE  FALSE
    <3>1. m * s >= m * 256
      BY <1>2, <2>1
    <3> QED BY <1>2, <1>3, <3>1
  <2> QED BY <1>2, <2>1
<1>5. m * (255 - s) = w * 255 + r
  <2>1. m * (255 - s) = m * 255 - m * s
    BY <1>2
  <2> QED BY <1>2, <2>1
<1>6. (w * 255 + r) \div 255 = w
  BY <1>2
<1> QED BY <1>2, <1>4, <1>5, <1>6 DEF s

\* The hue is a whole number, and 0 between red and gray.
LEMMA Hues ==
  ASSUME NEW rgb, rgb[1] \in Nat, rgb[2] \in Nat, rgb[3] \in Nat
  PROVE  /\ Hue(rgb) \in Int
         /\ rgb[2] = rgb[3] /\ rgb[2] <= rgb[1] => Hue(rgb) = 0
<1> DEFINE max == Strongest(rgb)
           spread == max - Weakest(rgb)
           Toward(k, less, more) == Truncated((k * spread + more - less) * WordLimit, spread)
<1>1. /\ max \in Nat /\ Weakest(rgb) \in Nat /\ Weakest(rgb) <= max
      /\ max = rgb[1] \/ max = rgb[2] \/ max = rgb[3]
      /\ rgb[1] <= max /\ rgb[2] <= max
  BY Extremes
<1>2. \A n \in Int, d \in Nat \ {0} : Truncated(n, d) \in Int /\ Truncated(0, d) = 0
  BY DEF Truncated
<1>3. WordLimit \in Nat
  BY Limits
<1>4. Hue(rgb) =
        CASE max = Weakest(rgb) -> 0
          [] max # Weakest(rgb) /\ max = rgb[1] -> Toward(0, rgb[3], rgb[2])
          [] max # rgb[1] /\ max = rgb[2] -> Toward(2, rgb[1], rgb[3])
          [] OTHER -> Toward(4, rgb[2], rgb[1])
  BY DEF Hue
<1>5. CASE max = Weakest(rgb)
  <2>1. rgb[1] = max /\ rgb[2] = max
    BY <1>1, <1>5, Extremes
  <2> HIDE DEF max, Toward
  <2>2. Hue(rgb) = 0
    BY <1>4, <1>5, <2>1
  <2> QED BY <2>2
<1>6. CASE max # Weakest(rgb)
  <2>1. spread \in Nat \ {0}
    BY <1>1, <1>6
  <2>2. ASSUME NEW k \in {0, 2, 4}, NEW less \in Nat, NEW more \in Nat
        PROVE  Toward(k, less, more) \in Int /\ (k = 0 /\ less = more => Toward(k, less, more) = 0)
    <3>1. (k * spread + more - less) * WordLimit \in Int
      BY <1>3, <2>1
    <3>2. k = 0 /\ less = more => (k * spread + more - less) * WordLimit = 0
      BY <1>3, <2>1
    <3> HIDE DEF spread
    <3> QED BY <1>2, <2>1, <3>1, <3>2
  <2>3. rgb[2] = rgb[3] /\ rgb[2] <= rgb[1] => max = rgb[1]
    BY <1>1
  <2> HIDE DEF max, Toward, spread
  <2> QED BY <1>4, <1>6, <2>2, <2>3
<1> QED BY <1>5, <1>6

\* A number that is cast to a word is one, and 0 if it was.
LEMMA Words ==
  ASSUME NEW n \in Int, NEW word \in AsWord(n)
  PROVE  word \in 0..(WordLimit - 1) /\ (n = 0 => word = 0)
<1>1. WordLimit \in Nat \ {0}
  BY Limits
<1>2. n % WordLimit \in 0..(WordLimit - 1)
  BY <1>1
<1>3. 0 \in 0..(WordLimit - 1) /\ WordLimit - 1 \in 0..(WordLimit - 1)
  BY <1>1
<1>4. word = n \/ n # 0
  BY <1>3 DEF AsWord
<1> QED BY <1>2, <1>3, <1>4 DEF AsWord

-----------------------------------------------------------------------------
\* What the bridge knows of a light.
LightState ==
  [on : BOOLEAN, ct : 40..200, bri : 0..(ByteLimit - 1),
   hue : 0..(WordLimit - 1), sat : 0..(ByteLimit - 1)]

\* A light once a state was set for it.
Set(light, state) ==
  [k \in DOMAIN light |-> IF k \in DOMAIN state THEN state[k] ELSE light[k]]

\* Every color made of red, green and blue is sent as one that shows it.
LEMMA RgbShown ==
  ASSUME NEW t \in Texts, t.form = "rgb", IsColor(t), NEW c \in FromRgb(t.args)
  PROVE  /\ c \in [bri : 0..(ByteLimit - 1), hue : 0..(WordLimit - 1), sat : 0..(ByteLimit - 1)]
         /\ \A s : /\ s.on = TRUE /\ s.bri = c.bri /\ s.hue = c.hue /\ s.sat = c.sat
                  => Shows(s, t)
<1> DEFINE rgb == t.args
           max == Strongest(rgb)
           min == Weakest(rgb)
           sat == IF max = 0 THEN 0 ELSE ((max - min) * 255) \div max
<1>1. /\ rgb[1] \in Nat /\ rgb[2] \in Nat /\ rgb[3] \in Nat
      /\ rgb[1] < 256 /\ rgb[2] < 256 /\ rgb[3] < 256
  BY Components, Limits
<1>2. /\ max \in Nat /\ min \in Nat /\ min <= max /\ max < 256
  BY <1>1, Extremes
<1>3. PICK hue \in AsWord(Hue(rgb)) : c = BHS((max * 255) \div ByteLimit, hue, sat)
  BY DEF FromRgb
<1>4. /\ Hue(rgb) \in Int /\ (rgb[2] = rgb[3] /\ rgb[2] <= rgb[1] => Hue(rgb) = 0)
  BY <1>1, Hues
<1> HIDE DEF sat
<1>5. /\ hue \in 0..(WordLimit - 1)
      /\ rgb[2] = rgb[3] /\ rgb[2] <= rgb[1] => hue = 0
  BY <1>4, Words
<1>6. (max * 255) \div ByteLimit = IF max = 0 THEN 0 ELSE max - 1
  BY <1>2, Scaled, Limits
<1>7. sat \in 0..255 /\ min = (max * (255 - sat)) \div 255
  <2>1. CASE max = 0
    <3>1. sat = 0 /\ min = 0 /\ max * (255 - sat) = 0
      BY <1>2, <2>1 DEF sat
    <3> QED BY <2>1, <3>1
  <2>2. CASE max # 0
    <3> HIDE DEF max, min
    <3>1. sat = ((max - min) * 255) \div max
      BY <2>2 DEF sat
    <3> QED BY <1>2, <2>2, <3>1, Unscaled
  <2> QED BY <2>1, <2>2
<1>8. c.bri = (IF max = 0 THEN 0 ELSE max - 1) /\ c.hue = hue /\ c.sat = sat
  BY <1>3, <1>6 DEF BHS
<1>9. c \in [bri : 0..(ByteLimit - 1), hue : 0..(WordLimit - 1), sat : 0..(ByteLimit - 1)]
  <2>1. (IF max = 0 THEN 0 ELSE max - 1) \in 0..(ByteLimit - 1)
    BY <1>2, Limits
  <2>2. sat \in 0..(ByteLimit - 1)
    BY <1>7, Limits
  <2> HIDE DEF max
  <2> QED BY <1>3, <1>5, <1>6, <2>1, <2>2 DEF BHS
<1>10. ASSUME NEW s, s.on = TRUE, s.bri = c.bri, s.hue = c.hue, s.sat = c.sat
       PROVE  Shows(s, t)
  <2>1. s.bri = (IF max = 0 THEN 0 ELSE max - 1) /\ s.sat = sat /\ s.hue = hue
    BY <1>8, <1>10
  <2>2. max \in ShownStrongest(s)
    <3> HIDE DEF max
    <3> QED BY <1>2, <2>1 DEF ShownStrongest
  <2>3. min = ShownWeakest(s, max)
    BY <1>7, <2>1 DEF ShownWeakest
  <2> QED BY <1>5, <1>10, <2>1, <2>2, <2>3 DEF Shows
<1> QED BY <1>9, <1>10
\* A light keeps what a state does not name.
Fields == {"on", "ct", "bri", "hue", "sat"}

LEMMA SetFields ==
  ASSUME NEW light \in LightState, NEW s, DOMAIN s \subseteq Fields
  PROVE  /\ Set(light, s) = [k \in Fields |-> Set(light, s)[k]]
         /\ \A k \in Fields :
              Set(light, s)[k] = IF k \in DOMAIN s THEN s[k] ELSE light[k]
<1>1. DOMAIN light = Fields
  BY DEF LightState, Fields
<1> QED BY <1>1, Zenon DEF Set

LEMMA Fielded ==
  ASSUME NEW f, f = [k \in Fields |-> f[k]],
         f["on"] \in BOOLEAN, f["ct"] \in 40..200, f["bri"] \in 0..(ByteLimit - 1),
         f["hue"] \in 0..(WordLimit - 1), f["sat"] \in 0..(ByteLimit - 1)
  PROVE  f \in LightState
<1>1. f = [on |-> f["on"], ct |-> f["ct"], bri |-> f["bri"], hue |-> f["hue"],
           sat |-> f["sat"]]
  BY DEF Fields
<1> QED BY <1>1 DEF LightState

\* A state that is sent for a value shows it, also on a light that keeps the rest.
LEMMA StateSet ==
  ASSUME NEW t \in Texts, NEW s \in LightStates(t), NEW light \in LightState
  PROVE  Shows(s, t) /\ Set(light, s) \in LightState /\ Shows(Set(light, s), t)
<1> DEFINE new == Set(light, s)
<1>0. /\ light["on"] \in BOOLEAN /\ light["ct"] \in 40..200
      /\ light["bri"] \in 0..(ByteLimit - 1)
      /\ light["hue"] \in 0..(WordLimit - 1) /\ light["sat"] \in 0..(ByteLimit - 1)
  BY DEF LightState
<1> HIDE DEF new
<1>1. CASE t.form = "none"
  <2>1. s = [on |-> FALSE]
    BY <1>1 DEF LightStates
  <2>2. DOMAIN s = {"on"} /\ s["on"] = FALSE
    BY <2>1
  <2>3. /\ new = [k \in Fields |-> new[k]]
        /\ \A k \in Fields : new[k] = IF k \in DOMAIN s THEN s[k] ELSE light[k]
    BY <2>2, SetFields DEF Fields, new
  <2>4. /\ new["on"] = FALSE /\ new["ct"] = light["ct"] /\ new["bri"] = light["bri"]
        /\ new["hue"] = light["hue"] /\ new["sat"] = light["sat"]
    BY <2>2, <2>3 DEF Fields
  <2>5. new \in LightState
    BY <1>0, <2>3, <2>4, Fielded
  <2>6. new.on = FALSE /\ s.on = FALSE
    BY <2>2, <2>4
  <2> QED BY <1>1, <2>5, <2>6 DEF Shows, new
<1>2. CASE t.form = "mired" /\ IsColor(t)
  <2>1. s = [on |-> TRUE, ct |-> t.args[1]] /\ t.args[1] \in 40..200
    BY <1>2 DEF LightStates, IsColor
  <2>2. DOMAIN s = {"on", "ct"} /\ s["on"] = TRUE /\ s["ct"] = t.args[1]
    BY <2>1
  <2>3. /\ new = [k \in Fields |-> new[k]]
        /\ \A k \in Fields : new[k] = IF k \in DOMAIN s THEN s[k] ELSE light[k]
    BY <2>2, SetFields DEF Fields, new
  <2>4. /\ new["on"] = TRUE /\ new["ct"] = t.args[1] /\ new["bri"] = light["bri"]
        /\ new["hue"] = light["hue"] /\ new["sat"] = light["sat"]
    BY <2>2, <2>3 DEF Fields
  <2>5. new \in LightState
    BY <1>0, <2>1, <2>3, <2>4, Fielded
  <2>6. new.on = TRUE /\ new.ct = t.args[1] /\ s.on = TRUE /\ s.ct = t.args[1]
    BY <2>2, <2>4
  <2> QED BY <1>2, <2>5, <2>6 DEF Shows, new
<1>3. ASSUME NEW c \in [bri : 0..(ByteLimit - 1), hue : 0..(WordLimit - 1),
                        sat : 0..(ByteLimit - 1)],
             s = Colored(c),
             \A x : x.on = TRUE /\ x.bri = c.bri /\ x.hue = c.hue /\ x.sat = c.sat => Shows(x, t)
      PROVE  Shows(s, t) /\ Set(light, s) \in LightState /\ Shows(Set(light, s), t)
  <2>1. /\ c.bri \in 0..(ByteLimit - 1) /\ c.hue \in 0..(WordLimit - 1)
        /\ c.sat \in 0..(ByteLimit - 1)
    OBVIOUS
  <2>2. /\ s.on = TRUE /\ s.bri = c.bri /\ s.hue = c.hue /\ s.sat = c.sat
        /\ DOMAIN s = {"on", "bri", "hue", "sat"}
    BY <1>3 DEF Colored
  <2>3. /\ new = [k \in Fields |-> new[k]]
        /\ \A k \in Fields : new[k] = IF k \in DOMAIN s THEN s[k] ELSE light[k]
    BY <2>2, SetFields DEF Fields, new
  <2>4. /\ new["on"] = TRUE /\ new["ct"] = light["ct"] /\ new["bri"] = c.bri
        /\ new["hue"] = c.hue /\ new["sat"] = c.sat
    BY <2>2, <2>3 DEF Fields
  <2>5. new \in LightState
    BY <1>0, <2>1, <2>3, <2>4, Fielded
  <2>6. Shows(new, t) /\ Shows(s, t)
    BY <1>3, <2>2, <2>4
  <2> QED BY <2>5, <2>6 DEF new
<1>4. CASE t.form = "rgb" /\ IsColor(t)
  <2>1. PICK c \in FromRgb(t.args) : s = Colored(c)
    BY <1>4 DEF LightStates
  <2> QED BY <1>3, <1>4, <2>1, RgbShown
<1>5. CASE t.form = "bhs" /\ IsColor(t)
  <2> DEFINE c == BHS(t.args[1], t.args[2], t.args[3])
  <2>1. s = Colored(c)
    BY <1>5 DEF LightStates
  <2>2. /\ t.args \in Seq(Nat) /\ Len(t.args) = 3
        /\ t.args[1] \in Nat /\ t.args[2] \in Nat /\ t.args[3] \in Nat
        /\ t.args[1] < ByteLimit /\ t.args[2] < WordLimit /\ t.args[3] < ByteLimit
    BY <1>5, Components
  <2>3. /\ t.args[1] \in 0..(ByteLimit - 1) /\ t.args[2] \in 0..(WordLimit - 1)
        /\ t.args[3] \in 0..(ByteLimit - 1)
    <3>1. ByteLimit \in Int /\ WordLimit \in Int
      BY Limits
    <3> QED BY <2>2, <3>1
  <2>4. c.bri = t.args[1] /\ c.hue = t.args[2] /\ c.sat = t.args[3]
    BY DEF BHS
  <2>5. c \in [bri : 0..(ByteLimit - 1), hue : 0..(WordLimit - 1), sat : 0..(ByteLimit - 1)]
    BY <2>3 DEF BHS
  <2>6. <<t.args[1], t.args[2], t.args[3]>> = t.args
    BY <2>2
  <2> HIDE DEF c
  <2>7. \A x : x.on = TRUE /\ x.bri = c.bri /\ x.hue = c.hue /\ x.sat = c.sat => Shows(x, t)
    BY <1>5, <2>4, <2>6 DEF Shows
  <2> QED BY <1>3, <2>1, <2>5, <2>7
<1>6. \/ t.form = "none"
      \/ t.form = "mired" /\ IsColor(t)
      \/ t.form = "rgb" /\ IsColor(t)
      \/ t.form = "bhs" /\ IsColor(t)
  BY DEF LightStates
<1> QED BY <1>1, <1>2, <1>4, <1>5, <1>6

-----------------------------------------------------------------------------
\* The requests of a batch, in whatever order, are requests for some lights, and every
\* light of the batch is in one with its value.
LEMMA ItemsFinite ==
  ASSUME NEW b \in Batches
  PROVE  IsFiniteSet(Items(b)) /\ Items(b) \subseteq Item
<1>1. PICK S \in SUBSET Light : b \in [S -> Value]
  BY DEF Batches
<1>2. IsFiniteSet(S) /\ DOMAIN b = S
  BY <1>1, FS_Subset, LightAssumption
<1> DEFINE f == [l \in S |-> [lights |-> {x \in S : b[x] = b[l]}, value |-> b[l]]]
<1>3. f \in [S -> Items(b)]
  BY <1>2 DEF Items
<1>4. \A i \in Items(b) : \E l \in S : f[l] = i
  BY <1>2 DEF Items
<1>5. f \in Surjection(S, Items(b))
  BY <1>3, <1>4, Zenon DEF Surjection
<1>6. Items(b) \subseteq Item
  BY <1>1, <1>2 DEF Items, Item
<1> HIDE DEF f
<1> QED BY <1>2, <1>5, <1>6, FS_Surjection

LEMMA Ordered ==
  ASSUME NEW b \in Batches, NEW q \in SetToSeqs(Items(b))
  PROVE  /\ q \in Seq(Item)
         /\ \A k \in 1..Len(q) : /\ q[k].lights # {}
                                 /\ \A l \in q[k].lights : l \in DOMAIN b /\ b[l] = q[k].value
         /\ \A l \in DOMAIN b : \E k \in 1..Len(q) : l \in q[k].lights
<1> DEFINE n == Cardinality(Items(b))
<1>1. IsFiniteSet(Items(b)) /\ n \in Nat /\ Items(b) \subseteq Item
  BY ItemsFinite, FS_CardinalityType
<1>2. /\ q \in [1..n -> Items(b)]
      /\ \A i, j \in 1..n : i # j => q[i] # q[j]
  BY DEF SetToSeqs
<1> HIDE DEF n
<1>3. q \in Seq(Item) /\ Len(q) = n
  BY <1>1, <1>2
<1>4. q \in Injection(1..n, Items(b))
  BY <1>2 DEF Injection, IsInjective
<1>5. Cardinality(1..n) = n
  BY <1>1, FS_Interval
<1>6. q \in Surjection(1..n, Items(b))
  BY <1>1, <1>4, <1>5, FS_Injection DEF n
<1>7. ASSUME NEW i \in Items(b)
      PROVE  i.lights # {} /\ \A l \in i.lights : l \in DOMAIN b /\ b[l] = i.value
  BY DEF Items
<1>8. ASSUME NEW l \in DOMAIN b
      PROVE  \E k \in 1..n : l \in q[k].lights
  <2> DEFINE i == [lights |-> {x \in DOMAIN b : b[x] = b[l]}, value |-> b[l]]
  <2>1. i \in Items(b) /\ l \in i.lights
    BY DEF Items
  <2> HIDE DEF i
  <2> QED BY <1>6, <2>1 DEF Surjection
<1> QED BY <1>2, <1>3, <1>7, <1>8
-----------------------------------------------------------------------------
\* A group that no other application touched has the lights it is filed under, and
\* these are not none: two sets of lights never share such a group.
Filed ==
  pc \in {"clearing", "running"} =>
    \A S \in SUBSET Known :
      groupMap[S] \in GroupId \ touched => S # {} /\ lightsOf[groupMap[S]] = S

\* The lights of a group that the task made are filed, or it never heard of one.
Remembered ==
  /\ \A g \in made :
       lightsOf[g] # {} /\ (groupMap[lightsOf[g]] # 0 \/ lightsOf[g] \in lost)
  /\ \A g, h \in made : g # h /\ lightsOf[g] = lightsOf[h] => lightsOf[g] \in lost
  /\ pc \in {"starting", "clearing"} => made = {}

\* What is left of a batch is of the batch.
OfBatch ==
  \A k \in 1..Len(todo) :
    /\ todo[k].lights # {}
    /\ \A l \in todo[k].lights : l \in DOMAIN batch /\ batch[l] = todo[k].value

\* A light of the batch shows its value, or is still to come.
ShownOrLeft ==
  pc \in {"starting", "clearing", "running"} /\ ~trouble /\ touched = {} =>
    \A l \in DOMAIN batch :
      \/ \E k \in 1..Len(todo) : l \in todo[k].lights
      \/ l \in Known /\ Shows(lit[l], batch[l])

Types ==
  /\ useCached \in UseCached
  /\ groupMap \in [SUBSET Known -> GroupId \cup {0}]
  /\ todo \in Seq(Item)
  /\ lightsOf \in [GroupId -> SUBSET Known]
  /\ lit \in [Known -> LightState]
  /\ touched \in SUBSET GroupId
  /\ made \in SUBSET GroupId
  /\ lost \in SUBSET SUBSET Known

HistoryTypes ==
  /\ pc \in {"starting", "clearing", "running", "failed", "panicked"}
  /\ DOMAIN batch \subseteq Light /\ \A l \in DOMAIN batch : batch[l] \in Value
  /\ trouble \in BOOLEAN
  /\ batches \in 0..MaxBatches /\ edits \in 0..MaxEdits

HueInv == Types /\ HistoryTypes /\ Filed /\ Remembered /\ OfBatch /\ ShownOrLeft
LEMMA InitHolds == Init => HueInv
<1> SUFFICES ASSUME Init PROVE HueInv
  OBVIOUS
<1>1. DOMAIN batch = {} /\ Len(todo) = 0 /\ todo = <<>>
  BY DEF Init
<1>2. Dark \in LightState
  <2>1. ByteLimit - 1 \in Nat /\ WordLimit - 1 \in Nat
    BY Limits
  <2>2. 0 \in 0..(ByteLimit - 1) /\ 0 \in 0..(WordLimit - 1) /\ 40 \in 40..200
    BY <2>1
  <2> QED BY <2>2 DEF Dark, LightState
<1>3. Types
  <2>1. todo \in Seq(Item)
    BY <1>1
  <2>2. lit \in [Known -> LightState]
    BY <1>2 DEF Init
  <2> QED BY <2>1, <2>2 DEF Init, Types
<1>4. HistoryTypes
  <2>1. batches \in 0..MaxBatches /\ edits \in 0..MaxEdits
    BY BoundAssumption DEF Init
  <2>2. pc = "starting" /\ trouble = FALSE
    BY DEF Init
  <2> QED BY <1>1, <2>1, <2>2, Zenon DEF HistoryTypes
<1>5. Filed /\ Remembered
  BY DEF Init, Filed, Remembered
<1>6. OfBatch /\ ShownOrLeft
  BY <1>1 DEF OfBatch, ShownOrLeft
<1> QED BY <1>3, <1>4, <1>5, <1>6 DEF HueInv

\* What it does to the lights that a state is set for a group.
LEMMA ShowSets ==
  ASSUME Types, NEW g \in GroupId, NEW t \in Texts, NEW state \in LightStates(t),
         Show(g, state)
  PROVE  /\ lit' \in [Known -> LightState]
         /\ \A l \in Known : IF l \in lightsOf[g] THEN Shows(lit'[l], t)
                             ELSE lit'[l] = lit[l]
<1>1. \A l \in Known : lit[l] \in LightState
  BY DEF Types
<1>2. ASSUME NEW l \in Known, l \in lightsOf[g]
      PROVE  lit'[l] \in LightState /\ Shows(lit'[l], t)
  <2>1. lit'[l] = Set(lit[l], state)
    BY <1>2, Zenon DEF Show, Set
  <2> QED BY <1>1, <2>1, StateSet
<1>3. ASSUME NEW l \in Known, l \notin lightsOf[g]
      PROVE  lit'[l] = lit[l]
  <2>1. lit'[l] = [k \in DOMAIN lit[l] |-> lit[l][k]]
    BY <1>3, Zenon DEF Show
  <2>2. lit[l] = [k \in DOMAIN lit[l] |-> lit[l][k]]
    BY <1>1 DEF LightState
  <2> QED BY <2>1, <2>2
<1>4. lit' = [l \in Known |-> lit'[l]]
  BY Zenon DEF Show
<1>5. \A l \in Known : lit'[l] \in LightState
  BY <1>1, <1>2, <1>3
<1> QED BY <1>2, <1>3, <1>4, <1>5

\* The request that is under way.
LEMMA NowItem ==
  ASSUME Types, OfBatch, NEW i \in Item, Now(i)
  PROVE  /\ pc = "running" /\ Len(todo) \in Nat \ {0} /\ i = todo[1] /\ i = Head(todo)
         /\ i.lights \subseteq Light /\ i.value \in Texts
         /\ i.lights # {} /\ \A l \in i.lights : l \in DOMAIN batch /\ batch[l] = i.value
<1>1. todo \in Seq(Item) /\ todo # <<>> /\ pc = "running" /\ i = Head(todo)
  BY DEF Types, Now
<1>2. Len(todo) \in Nat \ {0} /\ i = todo[1] /\ 1 \in 1..Len(todo)
  BY <1>1
<1>3. i.lights \subseteq Light /\ i.value \in Value
  BY DEF Item
<1>4. i.value \in Texts
  BY <1>3, ValueAssumption
<1>5. i.lights # {} /\ \A l \in i.lights : l \in DOMAIN batch /\ batch[l] = i.value
  BY <1>2 DEF OfBatch
<1> QED BY <1>1, <1>2, <1>3, <1>4, <1>5

\* What is left once the first request of a batch is done.
LEMMA RestItems ==
  ASSUME Types, NEW i \in Item, Now(i)
  PROVE  /\ Tail(todo) \in Seq(Item)
         /\ Len(todo) = Len(Tail(todo)) + 1 /\ Len(Tail(todo)) \in Nat
         /\ \A k \in 1..Len(Tail(todo)) : Tail(todo)[k] = todo[k + 1] /\ k + 1 \in 1..Len(todo)
<1>1. todo \in Seq(Item) /\ todo # <<>>
  BY DEF Types, Now
<1> QED BY <1>1
\* The parts of the invariant that a step does not disturb when it leaves alone what
\* they are about.
LEMMA FiledSame ==
  ASSUME Filed, UNCHANGED <<groupMap, lightsOf, touched>>,
         pc' \in {"clearing", "running"} => pc \in {"clearing", "running"}
  PROVE  Filed'
BY DEF Filed

LEMMA RememberedSame ==
  ASSUME Remembered, UNCHANGED <<groupMap, lightsOf, made, lost>>,
         pc' \in {"starting", "clearing"} => pc \in {"starting", "clearing"}
  PROVE  Remembered'
BY DEF Remembered

LEMMA OfBatchSame ==
  ASSUME OfBatch, UNCHANGED batch, todo' = todo \/ todo' = <<>>
  PROVE  OfBatch'
BY DEF OfBatch

LEMMA ShownOrLeftSame ==
  ASSUME ShownOrLeft, UNCHANGED <<todo, lit, batch, trouble>>,
         touched \subseteq touched', pc \in {"starting", "clearing", "running"}
  PROVE  ShownOrLeft'
BY DEF ShownOrLeft

\* Making a group, known or not, keeps the map true: the number was free, so nothing
\* that is filed had it.
LEMMA GroupMade ==
  ASSUME HueInv, NEW i \in Item, Now(i), i.lights \subseteq Known, groupMap[i.lights] = 0,
         NEW g \in Fresh, NEW id \in {0, g},
         lightsOf' = [lightsOf EXCEPT ![g] = i.lights],
         groupMap' = [groupMap EXCEPT ![i.lights] = id],
         made' = made \cup {g},
         lost' = IF id = 0 THEN lost \cup {i.lights} ELSE lost,
         UNCHANGED <<pc, touched>>
  PROVE  Filed' /\ Remembered'
<1>1. /\ Types /\ Filed /\ Remembered /\ pc = "running" /\ i.lights # {}
  BY NowItem DEF HueInv
<1>2. /\ groupMap \in [SUBSET Known -> GroupId \cup {0}]
      /\ lightsOf \in [GroupId -> SUBSET Known] /\ made \in SUBSET GroupId
      /\ 0 \notin GroupId /\ g \in GroupId /\ lightsOf[g] = {}
  BY <1>1, GroupAssumption DEF Types, Fresh, NoLights
<1> DEFINE L == i.lights
<1>3. /\ \A S \in SUBSET Known : groupMap'[S] = IF S = L THEN id ELSE groupMap[S]
      /\ \A h \in GroupId : lightsOf'[h] = IF h = g THEN L ELSE lightsOf[h]
      /\ L \in SUBSET Known /\ L # {} /\ groupMap[L] = 0
      /\ lost' = IF id = 0 THEN lost \cup {L} ELSE lost
  BY <1>1, <1>2
<1> HIDE DEF L
<1>4. Filed'
  <2>1. ASSUME NEW S \in SUBSET Known, groupMap'[S] \in GroupId \ touched
        PROVE  S # {} /\ lightsOf'[groupMap'[S]] = S
    <3>1. CASE S = L
      BY <1>2, <1>3, <2>1, <3>1
    <3>2. CASE S # L
      <4>1. groupMap'[S] = groupMap[S] /\ S # {} /\ lightsOf[groupMap[S]] = S
        BY <1>1, <1>3, <2>1, <3>2 DEF Filed
      <4>2. groupMap[S] # g
        BY <1>2, <4>1
      <4> QED BY <1>3, <2>1, <4>1, <4>2
    <3> QED BY <3>1, <3>2
  <2> QED BY <2>1 DEF Filed
<1>5. Remembered'
  <2>1. ASSUME NEW h \in made'
        PROVE  lightsOf'[h] # {} /\ (groupMap'[lightsOf'[h]] # 0 \/ lightsOf'[h] \in lost')
    <3>1. CASE h = g
      BY <1>2, <1>3, <3>1
    <3>2. CASE h # g
      <4>1. h \in made /\ h \in GroupId /\ lightsOf'[h] = lightsOf[h]
        BY <1>2, <1>3, <2>1, <3>2
      <4>2. lightsOf[h] # {} /\ (groupMap[lightsOf[h]] # 0 \/ lightsOf[h] \in lost)
        BY <1>1, <4>1 DEF Remembered
      <4>3. lightsOf[h] \in SUBSET Known
        BY <1>2, <4>1
      <4>4. groupMap[lightsOf[h]] # 0 => lightsOf[h] # L
        BY <1>3
      <4> QED BY <1>3, <4>1, <4>2, <4>3, <4>4
    <3> QED BY <3>1, <3>2
  <2>2. ASSUME NEW h \in made', NEW j \in made', h # j, lightsOf'[h] = lightsOf'[j]
        PROVE  lightsOf'[h] \in lost'
    <3>1. lost \subseteq lost' /\ made \subseteq GroupId
      BY <1>2, <1>3
    <3>2. ASSUME NEW k \in made, k # g, lightsOf'[k] = L
          PROVE  L \in lost
      BY <1>1, <1>2, <1>3, <3>2 DEF Remembered
    <3>3. CASE h = g \/ j = g
      BY <1>2, <1>3, <2>2, <3>1, <3>2, <3>3
    <3>4. CASE h # g /\ j # g
      <4>1. h \in made /\ j \in made /\ lightsOf[h] = lightsOf[j] /\ lightsOf'[h] = lightsOf[h]
        BY <1>2, <1>3, <2>2, <3>1, <3>4
      <4> QED BY <1>1, <2>2, <3>1, <4>1 DEF Remembered
    <3> QED BY <3>3, <3>4
  <2> QED BY <1>1, <2>1, <2>2 DEF Remembered
<1> QED BY <1>4, <1>5
\* A request that was sent, or failed, leaves the rest of the batch.
LEMMA RequestDone ==
  ASSUME HueInv, NEW i \in Item, UpdateGroup(i)
  PROVE  HueInv'
<1> DEFINE g == groupMap[i.lights]
<1>1. /\ Now(i) /\ i.lights \subseteq Known /\ g # 0 /\ todo' = Tail(todo)
      /\ UNCHANGED <<pc, useCached, groupMap, lightsOf, batch, historyVars>>
  BY DEF UpdateGroup
<1>2. PICK state \in LightStates(i.value) :
        \/ Show(g, state) /\ UNCHANGED trouble
        \/ Show(g, state) /\ trouble' = TRUE
        \/ UNCHANGED lit /\ trouble' = TRUE
  BY DEF UpdateGroup
<1>3. Types /\ HistoryTypes /\ Filed /\ Remembered /\ OfBatch /\ ShownOrLeft
  BY DEF HueInv
<1>4. /\ pc = "running" /\ Len(todo) \in Nat \ {0} /\ i = todo[1]
      /\ i.value \in Texts
      /\ i.lights # {} /\ \A l \in i.lights : l \in DOMAIN batch /\ batch[l] = i.value
  BY <1>1, <1>3, NowItem
<1>5. /\ Tail(todo) \in Seq(Item)
      /\ Len(todo) = Len(Tail(todo)) + 1 /\ Len(Tail(todo)) \in Nat
      /\ \A k \in 1..Len(Tail(todo)) : Tail(todo)[k] = todo[k + 1] /\ k + 1 \in 1..Len(todo)
  BY <1>1, <1>3, RestItems
<1>6. g \in GroupId
  BY <1>1, <1>3 DEF Types
<1>7. Show(g, state) => /\ lit' \in [Known -> LightState]
                        /\ \A l \in Known : IF l \in lightsOf[g] THEN Shows(lit'[l], i.value)
                                            ELSE lit'[l] = lit[l]
  BY <1>3, <1>4, <1>6, ShowSets
<1> HIDE DEF g
<1>8. Types'
  <2>1. lit' \in [Known -> LightState]
    BY <1>2, <1>3, <1>7 DEF Types
  <2> QED BY <1>1, <1>3, <1>5, <2>1 DEF Types, historyVars
<1>9. HistoryTypes'
  BY <1>1, <1>2, <1>3 DEF HistoryTypes, historyVars
<1>10. Filed' /\ Remembered'
  BY <1>1, <1>3, FiledSame, RememberedSame DEF historyVars
<1>11. OfBatch'
  BY <1>1, <1>3, <1>5 DEF OfBatch
<1>12. ShownOrLeft'
  <2>1. SUFFICES ASSUME ~trouble', touched' = {}, NEW l \in DOMAIN batch'
                 PROVE  \/ \E k \in 1..Len(todo') : l \in todo'[k].lights
                        \/ l \in Known /\ Shows(lit'[l], batch'[l])
    BY DEF ShownOrLeft
  <2>2. Show(g, state) /\ ~trouble /\ touched = {} /\ l \in DOMAIN batch
    BY <1>1, <1>2, <2>1 DEF historyVars, HistoryTypes
  <2>3. lightsOf[g] = i.lights
    BY <1>1, <1>3, <1>4, <1>6, <2>2 DEF Filed, g
  <2>4. CASE l \in i.lights
    <3>1. l \in Known /\ Shows(lit'[l], i.value) /\ batch'[l] = i.value
      BY <1>1, <1>4, <1>7, <2>2, <2>3, <2>4
    <3> QED BY <3>1
  <2>5. CASE l \notin i.lights
    <3>1. CASE l \in Known /\ Shows(lit[l], batch[l])
      BY <1>1, <1>7, <2>2, <2>3, <2>5, <3>1
    <3>2. ASSUME NEW k \in 1..Len(todo), l \in todo[k].lights
          PROVE  \E j \in 1..Len(todo') : l \in todo'[j].lights
      <4>1. k # 1 /\ k - 1 \in 1..Len(Tail(todo)) /\ (k - 1) + 1 = k
        BY <1>4, <1>5, <2>5, <3>2
      <4>2. Tail(todo)[k - 1] = todo[k]
        BY <1>5, <4>1
      <4> QED BY <1>1, <3>2, <4>1, <4>2
    <3>3. \/ \E k \in 1..Len(todo) : l \in todo[k].lights
          \/ l \in Known /\ Shows(lit[l], batch[l])
      BY <1>3, <1>4, <2>2 DEF ShownOrLeft
    <3> QED BY <3>1, <3>2, <3>3
  <2> QED BY <2>4, <2>5
<1> QED BY <1>8, <1>9, <1>10, <1>11, <1>12 DEF HueInv
\* A new batch is taken when nothing is left of the one before.
LEMMA BatchTaken ==
  ASSUME HueInv, NEW b \in Batches, TakeBatch(b)
  PROVE  HueInv'
<1>1. /\ pc = "running" /\ batches < MaxBatches /\ batches' = batches + 1 /\ batch' = b
      /\ (todo' = <<>> /\ trouble' = TRUE) \/ todo' \in SetToSeqs(Items(b))
      /\ trouble' \in BOOLEAN
      /\ UNCHANGED <<pc, useCached, groupMap, bridgeVars, touched, made, lost, edits>>
  BY DEF TakeBatch
<1>2. Types /\ HistoryTypes /\ Filed /\ Remembered
  BY DEF HueInv
<1>3. \/ todo' = <<>> /\ trouble' = TRUE
      \/ /\ \A k \in 1..Len(todo') :
              /\ todo'[k].lights # {}
              /\ \A l \in todo'[k].lights : l \in DOMAIN b /\ b[l] = todo'[k].value
         /\ \A l \in DOMAIN b : \E k \in 1..Len(todo') : l \in todo'[k].lights
  BY <1>1, Ordered
<1>4. todo' \in Seq(Item)
  <2>1. <<>> \in Seq(Item)
    OBVIOUS
  <2> QED BY <1>1, <2>1, Ordered
<1>5. Types'
  BY <1>1, <1>2, <1>4 DEF Types, bridgeVars
<1>6. HistoryTypes'
  <2>1. batches' \in 0..MaxBatches
    BY <1>1, <1>2, BoundAssumption DEF HistoryTypes
  <2>2. DOMAIN b \subseteq Light /\ \A l \in DOMAIN b : b[l] \in Value
    BY DEF Batches
  <2>3. pc' = pc /\ edits' = edits /\ batch' = b
    BY <1>1
  <2> QED BY <1>1, <1>2, <2>1, <2>2, <2>3, Zenon DEF HistoryTypes
<1>7. Filed' /\ Remembered'
  BY <1>1, <1>2, FiledSame, RememberedSame DEF bridgeVars
<1>8. OfBatch'
  BY <1>1, <1>3 DEF OfBatch
<1>9. ShownOrLeft'
  BY <1>1, <1>3 DEF ShownOrLeft
<1> QED BY <1>5, <1>6, <1>7, <1>8, <1>9 DEF HueInv

LEMMA StepHolds == HueInv /\ [Next]_vars => HueInv'
<1> SUFFICES ASSUME HueInv, [Next]_vars PROVE HueInv'
  OBVIOUS
<1>0. /\ Types /\ HistoryTypes /\ Filed /\ Remembered /\ OfBatch /\ ShownOrLeft
      /\ 0 \notin GroupId
  BY GroupAssumption DEF HueInv
<1>1. CASE Setup
  <2>1. /\ pc = "starting" /\ groupMap' \in GroupsRead /\ pc' \in {"running", "clearing"}
        /\ UNCHANGED <<useCached, todo, bridgeVars, batch, trouble, historyVars>>
    BY <1>1 DEF Setup
  <2>2. /\ groupMap' \in [SUBSET Known -> GroupId \cup {0}]
        /\ \A S \in SUBSET Known :
             groupMap'[S] # 0 => S # {} /\ lightsOf[groupMap'[S]] = S
    BY <2>1 DEF GroupsRead, NoLights
  <2>3. Types' /\ HistoryTypes'
    BY <1>0, <2>1, <2>2 DEF Types, HistoryTypes, bridgeVars, historyVars
  <2>4. Filed'
    BY <1>0, <2>1, <2>2 DEF Filed, bridgeVars, historyVars
  <2>5. Remembered'
    BY <1>0, <2>1 DEF Remembered, bridgeVars, historyVars
  <2> QED BY <1>0, <2>1, <2>3, <2>4, <2>5, OfBatchSame, ShownOrLeftSame
          DEF HueInv, bridgeVars, historyVars
<1>2. CASE DeleteGroup
  <2>1. PICK S \in SUBSET Known :
          /\ groupMap[S] # 0 /\ groupMap' = [groupMap EXCEPT ![S] = 0]
          /\ lightsOf' = [lightsOf EXCEPT ![groupMap[S]] = {}]
    BY <1>2 DEF DeleteGroup, NoLights
  <2>2. /\ pc = "clearing"
        /\ UNCHANGED <<pc, useCached, todo, lit, batch, trouble, historyVars>>
    BY <1>2 DEF DeleteGroup
  <2>3. /\ \A R \in SUBSET Known : groupMap'[R] = IF R = S THEN 0 ELSE groupMap[R]
        /\ groupMap[S] \in GroupId
        /\ \A h \in GroupId : lightsOf'[h] = IF h = groupMap[S] THEN {} ELSE lightsOf[h]
        /\ groupMap' \in [SUBSET Known -> GroupId \cup {0}]
        /\ lightsOf' \in [GroupId -> SUBSET Known]
    BY <1>0, <2>1 DEF Types
  <2>4. Types' /\ HistoryTypes'
    BY <1>0, <2>2, <2>3 DEF Types, HistoryTypes, historyVars
  <2>5. Filed'
    <3>1. ASSUME NEW R \in SUBSET Known, groupMap'[R] \in GroupId \ touched
          PROVE  R # {} /\ lightsOf'[groupMap'[R]] = R
      <4>1. R # S /\ groupMap'[R] = groupMap[R] /\ R # {} /\ lightsOf[groupMap[R]] = R
        BY <1>0, <2>2, <2>3, <3>1 DEF Filed
      <4>2. groupMap[R] # groupMap[S]
        BY <1>0, <2>2, <2>3, <3>1, <4>1 DEF Filed
      <4> QED BY <2>3, <3>1, <4>1, <4>2
    <3> QED BY <2>2, <3>1 DEF Filed, historyVars
  <2>6. Remembered'
    BY <1>0, <2>2 DEF Remembered, historyVars
  <2> QED BY <1>0, <2>2, <2>4, <2>5, <2>6, OfBatchSame, ShownOrLeftSame
          DEF HueInv, historyVars
<1>3. CASE ClearingDone
  <2>1. /\ pc = "clearing" /\ pc' = "running"
        /\ UNCHANGED <<useCached, groupMap, todo, bridgeVars, batch, trouble, historyVars>>
    BY <1>3 DEF ClearingDone
  <2> QED BY <1>0, <2>1, FiledSame, RememberedSame, OfBatchSame, ShownOrLeftSame
          DEF HueInv, Types, HistoryTypes, bridgeVars, historyVars
<1>4. CASE SetupFails
  <2>1. /\ pc \in {"starting", "clearing"} /\ pc' = "failed"
        /\ UNCHANGED <<useCached, groupMap, todo, bridgeVars, batch, trouble, historyVars>>
    BY <1>4 DEF SetupFails
  <2> QED BY <1>0, <2>1, FiledSame, RememberedSame, OfBatchSame, ShownOrLeftSame
          DEF HueInv, Types, HistoryTypes, bridgeVars, historyVars
<1>5. ASSUME NEW b \in Batches, TakeBatch(b)
      PROVE  HueInv'
  BY <1>5, BatchTaken
<1>6. ASSUME NEW i \in Item, UnknownLight(i)
      PROVE  HueInv'
  <2>1. /\ pc = "running" /\ pc' = "panicked"
        /\ UNCHANGED <<useCached, groupMap, todo, bridgeVars, batch, trouble, historyVars>>
    BY <1>6 DEF UnknownLight, Now
  <2> QED BY <1>0, <2>1, FiledSame, RememberedSame, OfBatchSame, ShownOrLeftSame
          DEF HueInv, Types, HistoryTypes, bridgeVars, historyVars
<1>7. ASSUME NEW i \in Item, MakeGroup(i)
      PROVE  HueInv'
  <2>1. /\ Now(i) /\ i.lights \subseteq Known /\ groupMap[i.lights] = 0 /\ pc = "running"
        /\ UNCHANGED <<pc, useCached, lit, batch, touched, batches, edits>>
    BY <1>7 DEF MakeGroup, Now
  <2>2. PICK g \in Fresh :
          /\ lightsOf' = [lightsOf EXCEPT ![g] = i.lights]
          /\ made' = made \cup {g}
          /\ \/ /\ groupMap' = [groupMap EXCEPT ![i.lights] = g]
                /\ UNCHANGED <<todo, trouble, lost>>
             \/ /\ todo' = <<>> /\ trouble' = TRUE
                /\ lost' = lost \cup {i.lights}
                /\ UNCHANGED groupMap
    BY <1>7 DEF MakeGroup, Abandon
  <2>3. /\ g \in GroupId /\ groupMap \in [SUBSET Known -> GroupId \cup {0}]
        /\ i.lights \in SUBSET Known /\ g # 0
    BY <1>0, <2>1 DEF Types, Fresh
  <2>4. PICK id \in {0, g} :
          /\ groupMap' = [groupMap EXCEPT ![i.lights] = id]
          /\ lost' = IF id = 0 THEN lost \cup {i.lights} ELSE lost
    <3>1. groupMap = [groupMap EXCEPT ![i.lights] = 0]
      BY <2>1, <2>3
    <3> QED BY <2>2, <2>3, <3>1
  <2>5. Filed' /\ Remembered'
    BY <2>1, <2>2, <2>4, GroupMade
  <2>6. Types'
    <3>1. /\ groupMap' \in [SUBSET Known -> GroupId \cup {0}]
          /\ lightsOf' \in [GroupId -> SUBSET Known]
          /\ made' \in SUBSET GroupId /\ lost' \in SUBSET SUBSET Known
      BY <1>0, <2>2, <2>3, <2>4 DEF Types
    <3>2. <<>> \in Seq(Item)
      OBVIOUS
    <3> QED BY <1>0, <2>1, <2>2, <3>1, <3>2 DEF Types
  <2>7. HistoryTypes'
    BY <1>0, <2>1, <2>2 DEF HistoryTypes
  <2>8. OfBatch'
    BY <1>0, <2>1, <2>2, OfBatchSame
  <2>9. ShownOrLeft'
    BY <1>0, <2>1, <2>2 DEF ShownOrLeft
  <2> QED BY <2>5, <2>6, <2>7, <2>8, <2>9 DEF HueInv
<1>8. ASSUME NEW i \in Item, MakeGroupFails(i) \/ NoColor(i)
      PROVE  HueInv'
  <2>1. /\ pc = "running" /\ todo' = <<>> /\ trouble' = TRUE
        /\ UNCHANGED <<pc, useCached, groupMap, bridgeVars, batch, historyVars>>
    BY <1>8 DEF MakeGroupFails, NoColor, Abandon, Now
  <2>2. <<>> \in Seq(Item)
    OBVIOUS
  <2>3. Types' /\ HistoryTypes'
    BY <1>0, <2>1, <2>2 DEF Types, HistoryTypes, bridgeVars, historyVars
  <2>4. ShownOrLeft'
    BY <2>1 DEF ShownOrLeft
  <2> QED BY <1>0, <2>1, <2>3, <2>4, FiledSame, RememberedSame, OfBatchSame
          DEF HueInv, bridgeVars, historyVars
<1>9. ASSUME NEW i \in Item, UpdateGroup(i)
      PROVE  HueInv'
  BY <1>9, RequestDone
<1>10. ASSUME NEW g \in GroupId, NEW S \in SUBSET Known, OthersEdit(g, S)
       PROVE  HueInv'
  <2>1. /\ pc = "running" /\ edits < MaxEdits /\ edits' = edits + 1
        /\ lightsOf' = [lightsOf EXCEPT ![g] = S]
        /\ touched' = touched \cup {g} /\ made' = made \ {g}
        /\ UNCHANGED <<pc, useCached, groupMap, todo, lit, batch, trouble, lost, batches>>
    BY <1>10 DEF OthersEdit
  <2>2. \A h \in GroupId : lightsOf'[h] = IF h = g THEN S ELSE lightsOf[h]
    BY <1>0, <2>1 DEF Types
  <2>3. Types'
    BY <1>0, <2>1 DEF Types
  <2>4. HistoryTypes'
    <3>1. edits' \in 0..MaxEdits
      BY <1>0, <2>1, BoundAssumption DEF HistoryTypes
    <3> QED BY <1>0, <2>1, <3>1, Zenon DEF HistoryTypes
  <2>5. Filed'
    BY <1>0, <2>1, <2>2 DEF Filed
  <2>6. Remembered'
    BY <1>0, <2>1, <2>2 DEF Remembered, Types
  <2> QED BY <1>0, <2>1, <2>3, <2>4, <2>5, <2>6, OfBatchSame, ShownOrLeftSame DEF HueInv
<1>11. CASE UNCHANGED vars
  BY <1>0, <1>11 DEF vars, bridgeVars, historyVars, HueInv, Types, HistoryTypes, Filed,
     Remembered, OfBatch, ShownOrLeft
<1> QED
  BY <1>1, <1>2, <1>3, <1>4, <1>5, <1>6, <1>7, <1>8, <1>9, <1>10, <1>11 DEF Next

LEMMA AlwaysHolds == Spec => []HueInv
BY InitHolds, StepHolds, PTL DEF Spec

\* Every variable keeps its type: what the lights are set to is within the limits of
\* the bridge, for any values of the tree.
THEOREM TypeCorrect == Spec => []TypeOK
<1>1. HueInv => TypeOK
  BY Zenon DEF HueInv, Types, HistoryTypes, TypeOK, LightState
<1> QED BY <1>1, AlwaysHolds, PTL

\* HueBridgeClient's map of groups is true of the bridge, but for groups that others
\* changed: setup() reads or deletes what it finds, and make_group() files what it
\* made.
THEOREM GroupsAlwaysTrue == Spec => []GroupsTrue
<1>1. HueInv => GroupsTrue
  BY DEF HueInv, Filed, GroupsTrue
<1> QED BY <1>1, AlwaysHolds, PTL

\* However many batches name a set of lights, one group is made for it and no second,
\* unless the answer to the first request was lost.
THEOREM NoSecondGroup == Spec => []MadeOnce
<1>1. HueInv => MadeOnce
  BY DEF HueInv, Remembered, MadeOnce
<1> QED BY <1>1, AlwaysHolds, PTL

\* A batch that went well is shown by all of its lights, in whatever order the hash
\* map gave its values.
THEOREM BatchAlwaysShown == Spec => []BatchShown
<1>1. HueInv => BatchShown
  <2>1. SUFFICES ASSUME HueInv, pc = "running", todo = <<>>, ~trouble, touched = {},
                        NEW l \in DOMAIN batch
                 PROVE  Shows(lit[l], batch[l])
    BY DEF BatchShown
  <2>2. Len(todo) = 0
    BY <2>1
  <2> QED BY <2>1, <2>2 DEF HueInv, ShownOrLeft
<1> QED BY <1>1, AlwaysHolds, PTL

\* Whatever is sent for a string shows it.
LEMMA StatesShow ==
  ASSUME NEW t \in Texts, NEW s \in LightStates(t)
  PROVE  Shows(s, t)
<1> DEFINE light == [on |-> FALSE, ct |-> 40, bri |-> 0, hue |-> 0, sat |-> 0]
<1>1. light \in LightState
  <2>1. ByteLimit - 1 \in Nat /\ WordLimit - 1 \in Nat
    BY Limits
  <2>2. 0 \in 0..(ByteLimit - 1) /\ 0 \in 0..(WordLimit - 1) /\ 40 \in 40..200
    BY <2>1
  <2> QED BY <2>2 DEF LightState
<1> QED BY <1>1, StateSet

\* BHS::from_rgb keeps the strongest and the weakest component of every color: the
\* samples may be all 256 * 256 * 256 of them.
THEOREM RgbAlwaysTrue == Spec => []RgbTrue
<1>1. RgbTrue
  BY StatesShow, ValueAssumption DEF RgbTrue
<1> QED BY <1>1, PTL

-----------------------------------------------------------------------------
\* A step that changes a light sends the first request of the batch.
LEMMA StepAsks ==
  ASSUME HueInv, [Next]_vars, NEW l \in Known, lit'[l] # lit[l]
  PROVE  /\ todo # <<>>
         /\ Shows(lit'[l], Head(todo).value)
         /\ \/ l \in Head(todo).lights
            \/ groupMap[Head(todo).lights] \in touched
<1>1. PICK i \in Item : UpdateGroup(i)
  <2>1. CASE UNCHANGED lit
    BY <2>1
  <2>2. UNCHANGED lit \/ \E i \in Item : UpdateGroup(i)
    BY Zenon DEF Next, vars, bridgeVars, Setup, DeleteGroup, ClearingDone, SetupFails,
       TakeBatch, UnknownLight, MakeGroup, MakeGroupFails, NoColor, OthersEdit
  <2> QED BY <2>1, <2>2
<1> DEFINE g == groupMap[i.lights]
<1>2. /\ Types /\ Filed /\ OfBatch /\ Now(i) /\ i.lights \subseteq Known /\ g # 0
  BY <1>1 DEF UpdateGroup, HueInv
<1>3. /\ todo # <<>> /\ i = Head(todo) /\ i.value \in Texts /\ pc = "running"
      /\ g \in GroupId
  BY <1>2, NowItem DEF Now, Types
<1>4. PICK state \in LightStates(i.value) : Show(g, state)
  <2>1. PICK state \in LightStates(i.value) : Show(g, state) \/ UNCHANGED lit
    BY <1>1 DEF UpdateGroup
  <2>2. ~UNCHANGED lit
    OBVIOUS
  <2> QED BY <2>1, <2>2
<1> HIDE DEF g
<1>5. l \in lightsOf[g] /\ Shows(lit'[l], i.value)
  BY <1>2, <1>3, <1>4, ShowSets
<1>6. g \notin touched => lightsOf[g] = i.lights
  BY <1>2, <1>3 DEF Filed, g
<1> QED BY <1>3, <1>5, <1>6 DEF g

\* A light changes only by a request that was meant for it, to the value the request
\* names, unless the group of the request was changed by another application.
THEOREM OnlyAskedChanges == Spec => OnlyAsked
<1>1. HueInv /\ [Next]_vars =>
        [\A l \in Known :
           lit'[l] # lit[l] =>
             /\ todo # <<>>
             /\ Shows(lit'[l], Head(todo).value)
             /\ \/ l \in Head(todo).lights
                \/ groupMap[Head(todo).lights] \in touched]_vars
  BY StepAsks
<1> QED BY <1>1, AlwaysHolds, PTL DEF Spec, OnlyAsked
==============================================================================
