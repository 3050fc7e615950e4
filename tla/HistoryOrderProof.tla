-------------------------- MODULE HistoryOrderProof --------------------------
(***************************************************************************)
(* RFC3339Nano text against time, for every base and any number of         *)
(* seconds.                                                                *)
(***************************************************************************)
EXTENDS HistoryOrder, ChannelsProof, SequenceTheorems

-----------------------------------------------------------------------------
(***************************************************************************)
(* Seconds and digits.                                                     *)
(***************************************************************************)

\* Division with remainder.
LEMMA DivMod ==
    ASSUME NEW m \in Nat \ {0}, NEW n \in Nat
    PROVE  n \div m \in Nat /\ n % m \in 0..(m - 1) /\ n = (n \div m) * m + (n % m)
OBVIOUS

\* Numbers compare as their quotients, and then as their remainders.
LEMMA CompareByQuotient ==
    ASSUME NEW m \in Nat \ {0}, NEW k \in Nat, NEW l \in Nat,
           NEW r \in 0..(m - 1), NEW p \in 0..(m - 1)
    PROVE  k * m + r < l * m + p <=> k < l \/ (k = l /\ r < p)
<1>1. ASSUME NEW x \in Nat, NEW y \in Nat, x < y PROVE x * m + m <= y * m
  <2>1. PICK z \in Nat : y = x + 1 + z
    <3>1. y - x - 1 \in Nat
      BY <1>1
    <3> QED
      BY <3>1
  <2>2. y * m = x * m + m + z * m /\ z * m \in Nat
    BY <2>1
  <2> QED
    BY <2>2
<1>2. k * m \in Nat /\ l * m \in Nat
  OBVIOUS
<1>3. CASE k < l
  BY <1>1, <1>2, <1>3
<1>4. CASE l < k
  BY <1>1, <1>2, <1>4
<1>5. CASE k = l
  BY <1>2, <1>5
<1> QED
  BY <1>3, <1>4, <1>5

\* A product of a sum, in the form that digits need.
LEMMA Distribute ==
    \A a, b, d \in Nat : (a * b + d) * b = a * (b * b) + d * b
OBVIOUS

\* The order of three numbers, the first one weighing most.
Less(a, b, c, x, y, z) == a < x \/ (a = x /\ (b < y \/ (b = y /\ c < z)))

\* A second is a quotient of the quotient.
LEMMA SecondOf ==
    ASSUME NEW t \in Nat
    PROVE  Second(t) = (t \div Base) \div Base
<1> DEFINE q == t \div Base
           a == q \div Base
           r == (q % Base) * Base + (t % Base)
           m == Base * Base
<1>1. Base \in Nat \ {0} /\ Base \in Nat /\ m \in Nat \ {0}
  BY TimestampsAssumption
<1>2. q \in Nat /\ t % Base \in 0..(Base - 1) /\ t = q * Base + (t % Base)
  BY <1>1, DivMod
<1>3. a \in Nat /\ q % Base \in 0..(Base - 1) /\ q = a * Base + (q % Base)
  BY <1>1, <1>2, DivMod
<1> HIDE DEF q, a
<1>4. t = a * m + r
  <2>1. q % Base \in Nat
    BY <1>1, <1>3
  <2>2. (a * Base + (q % Base)) * Base = a * m + (q % Base) * Base
    BY <1>1, <1>3, <2>1, Distribute, Zenon
  <2>3. (q % Base) * Base \in Nat /\ a * m \in Nat
    BY <1>1, <1>3, <2>1
  <2> QED
    BY <1>1, <1>2, <1>3, <2>2, <2>3
<1>5. r \in 0..(m - 1)
  <2>1. (q % Base) * Base \in Nat /\ (q % Base) * Base <= (Base - 1) * Base
    BY <1>1, <1>3
  <2> QED
    BY <1>1, <1>2, <2>1
<1>6. t \div m \in Nat /\ t % m \in 0..(m - 1) /\ t = (t \div m) * m + (t % m)
  BY <1>1, DivMod
<1>7. ~(a < t \div m) /\ ~(t \div m < a)
  <2> HIDE DEF r, m
  <2>1. a * m + r = (t \div m) * m + (t % m) /\ t \in Nat
    BY <1>4, <1>6
  <2>2. (a * m + r < (t \div m) * m + (t % m)) <=> a < t \div m \/ (a = t \div m /\ r < t % m)
    BY <1>1, <1>3, <1>5, <1>6, CompareByQuotient
  <2>3. ((t \div m) * m + (t % m) < a * m + r) <=> t \div m < a \/ (t \div m = a /\ t % m < r)
    BY <1>1, <1>3, <1>5, <1>6, CompareByQuotient
  <2>4. ~(t < t)
    OBVIOUS
  <2> QED
    BY <1>4, <1>6, <2>2, <2>3, <2>4
<1> QED
  BY <1>3, <1>6, <1>7 DEF Second, a, q

\* Second and digits are in range, and times compare by them.
LEMMA Digits ==
    ASSUME NEW t \in Nat
    PROVE  /\ Second(t) \in Nat
           /\ FirstDigit(t) \in 0..(Base - 1) /\ SecondDigit(t) \in 0..(Base - 1)
           /\ t = (t \div Base) * Base + SecondDigit(t)
           /\ t \div Base = Second(t) * Base + FirstDigit(t)
<1>1. Base \in Nat \ {0}
  BY TimestampsAssumption
<1>2. t \div Base \in Nat
  BY <1>1, DivMod
<1> QED
  BY <1>1, <1>2, DivMod, SecondOf DEF FirstDigit, SecondDigit

\* Times compare by second, first and second digit.
LEMMA TimesCompare ==
    ASSUME NEW s \in Nat, NEW t \in Nat
    PROVE  s < t <=> Less(Second(s), FirstDigit(s), SecondDigit(s),
                          Second(t), FirstDigit(t), SecondDigit(t))
<1>1. Base \in Nat \ {0}
  BY TimestampsAssumption
<1>2. PICK m \in Nat \ {0} : m = Base
  BY <1>1
<1>3. PICK a \in Nat, x \in Nat : a = Second(s) /\ x = Second(t)
  BY Digits
<1>4. PICK b \in 0..(m - 1), y \in 0..(m - 1) : b = FirstDigit(s) /\ y = FirstDigit(t)
  BY <1>2, Digits
<1>5. PICK c \in 0..(m - 1), z \in 0..(m - 1) : c = SecondDigit(s) /\ z = SecondDigit(t)
  BY <1>2, Digits
<1>6. PICK q \in Nat, p \in Nat : q = s \div Base /\ p = t \div Base
  BY <1>1, DivMod
<1>7. q = a * m + b /\ p = x * m + y /\ s = q * m + c /\ t = p * m + z
  BY <1>2, <1>3, <1>4, <1>5, <1>6, Digits
<1>8. s < t <=> q < p \/ (q = p /\ c < z)
  BY <1>7, CompareByQuotient
<1>9. q < p <=> a < x \/ (a = x /\ b < y)
  BY <1>7, CompareByQuotient
<1>10. p < q <=> x < a \/ (x = a /\ y < b)
  BY <1>7, CompareByQuotient
<1>11. q = p <=> a = x /\ b = y
  BY <1>9, <1>10
<1>12. s < t <=> Less(a, b, c, x, y, z)
  BY <1>8, <1>9, <1>11, Zenon DEF Less
<1> QED
  BY <1>3, <1>4, <1>5, <1>12

-----------------------------------------------------------------------------
(***************************************************************************)
(* Texts.                                                                  *)
(***************************************************************************)

\* Two sequences, one after the other.
LEMMA Joined ==
    ASSUME NEW x \in Seq(Nat), NEW y \in Seq(Nat)
    PROVE  /\ x \o y \in Seq(Nat)
           /\ Len(x \o y) = Len(x) + Len(y)
           /\ \A i \in 1..Len(x) : (x \o y)[i] = x[i]
           /\ \A i \in 1..Len(y) : (x \o y)[Len(x) + i] = y[i]
<1>1. Len(x) \in Nat /\ Len(y) \in Nat
  OBVIOUS
<1>2. /\ x \o y \in Seq(Nat)
      /\ Len(x \o y) = Len(x) + Len(y)
      /\ \A i \in 1..Len(x) + Len(y) :
            (x \o y)[i] = IF i <= Len(x) THEN x[i] ELSE y[i - Len(x)]
  BY ConcatProperties
<1> QED
  BY <1>1, <1>2

\* A sequence between two characters.
LEMMA Between ==
    ASSUME NEW a \in Nat, NEW y \in Seq(Nat), NEW z \in Nat
    PROVE  LET w == <<a>> \o y \o <<z>> IN
           /\ w \in Seq(Nat)
           /\ Len(w) = Len(y) + 2
           /\ w[1] = a
           /\ \A i \in 1..Len(y) : w[i + 1] = y[i]
           /\ w[Len(y) + 2] = z
<1>1. /\ <<a>> \in Seq(Nat) /\ Len(<<a>>) = 1 /\ <<a>>[1] = a
      /\ <<z>> \in Seq(Nat) /\ Len(<<z>>) = 1 /\ <<z>>[1] = z
      /\ Len(y) \in Nat
  OBVIOUS
<1> DEFINE x == <<a>> \o y
<1>2. /\ x \in Seq(Nat) /\ Len(x) = Len(y) + 1 /\ x[1] = a
      /\ \A i \in 1..Len(y) : x[i + 1] = y[i]
  BY <1>1, Joined
<1> HIDE DEF x
<1>3. /\ x \o <<z>> \in Seq(Nat) /\ Len(x \o <<z>>) = Len(y) + 2
      /\ \A i \in 1..(Len(y) + 1) : (x \o <<z>>)[i] = x[i]
      /\ (x \o <<z>>)[Len(y) + 2] = z
  BY <1>1, <1>2, Joined
<1> QED
  BY <1>1, <1>2, <1>3 DEF x

\* A sequence between two characters and one.
LEMMA Framed ==
    ASSUME NEW a \in Nat, NEW d \in Nat, NEW y \in Seq(Nat), NEW z \in Nat
    PROVE  LET w == <<a>> \o (<<d>> \o y) \o <<z>> IN
           /\ w \in Seq(Nat)
           /\ Len(w) = Len(y) + 3
           /\ w[1] = a /\ w[2] = d
           /\ \A i \in 1..Len(y) : w[i + 2] = y[i]
           /\ w[Len(y) + 3] = z
<1> DEFINE x == <<d>> \o y
           w == <<a>> \o x \o <<z>>
<1>1. <<d>> \in Seq(Nat) /\ Len(<<d>>) = 1 /\ <<d>>[1] = d /\ Len(y) \in Nat
  OBVIOUS
<1>2. /\ x \in Seq(Nat) /\ Len(x) = Len(y) + 1 /\ x[1] = d
      /\ \A i \in 1..Len(y) : x[1 + i] = y[i]
  BY <1>1, Joined
<1> HIDE DEF x
<1>3. /\ w \in Seq(Nat) /\ Len(w) = Len(x) + 2 /\ w[1] = a
      /\ \A i \in 1..Len(x) : w[i + 1] = x[i]
      /\ w[Len(x) + 2] = z
  BY <1>2, Between
<1> HIDE DEF w
<1>4. 1 \in 1..Len(x) /\ w[2] = x[1]
  <2>1. 1 \in 1..Len(x)
    BY <1>1, <1>2
  <2>2. w[1 + 1] = x[1]
    BY <2>1, <1>3
  <2> QED
    BY <2>1, <2>2
<1>5. ASSUME NEW i \in 1..Len(y) PROVE w[i + 2] = y[i]
  <2>1. PICK k \in 1..Len(x) : k = 1 + i /\ k + 1 = i + 2
    BY <1>1, <1>2
  <2>2. w[k + 1] = x[k]
    BY <1>3
  <2> QED
    BY <2>1, <2>2, <1>2
<1> QED
  BY <1>1, <1>2, <1>3, <1>4, <1>5 DEF w, x

\* The characters of a text: the second, the digits its fraction shows, "Z".
LEMMA TextCharacters ==
    ASSUME NEW t \in Nat
    PROVE  LET x == Text(t) IN
           /\ DOMAIN x = 1..(IF SecondDigit(t) # 0 THEN 5
                             ELSE IF FirstDigit(t) # 0 THEN 4 ELSE 2)
           /\ x[1] = Second(t)
           /\ x[2] = IF FirstDigit(t) = 0 /\ SecondDigit(t) = 0 THEN Zed ELSE Dot
           /\ FirstDigit(t) # 0 \/ SecondDigit(t) # 0 =>
                 /\ x[3] = Digit(FirstDigit(t))
                 /\ x[4] = IF SecondDigit(t) = 0 THEN Zed ELSE Digit(SecondDigit(t))
           /\ SecondDigit(t) # 0 => x[5] = Zed
<1> DEFINE shown == [i \in DOMAIN Fraction(t) |-> Digit(Fraction(t)[i])]
<1>1. Second(t) \in Nat /\ FirstDigit(t) \in Nat /\ SecondDigit(t) \in Nat
  BY Digits, TimestampsAssumption
<1>2. PICK a \in Nat, d \in Nat, z \in Nat : a = Second(t) /\ d = Dot /\ z = Zed
  BY <1>1, TimestampsAssumption DEF Dot, Zed
<1>3. PICK b \in Nat, c \in Nat : b = Digit(FirstDigit(t)) /\ c = Digit(SecondDigit(t))
  BY <1>1 DEF Digit
<1>4. CASE SecondDigit(t) # 0
  <2>1. Fraction(t) = <<FirstDigit(t), SecondDigit(t)>>
    BY <1>4 DEF Fraction
  <2>2. shown = <<b, c>>
    BY <1>3, <2>1
  <2>0. <<b, c>> \in Seq(Nat) /\ <<b, c>> # << >>
    OBVIOUS
  <2>3. PICK y \in Seq(Nat) : y = <<b, c>> /\ y # << >>
    BY <2>0
  <2>4. Text(t) = <<a>> \o (<<d>> \o y) \o <<z>>
    BY <1>2, <2>2, <2>3 DEF Text
  <2>5. Len(y) = 2 /\ y[1] = b /\ y[2] = c
    BY <2>3
  <2>6. PICK w : w = <<a>> \o (<<d>> \o y) \o <<z>>
    OBVIOUS
  <2>7. /\ w \in Seq(Nat) /\ Len(w) = Len(y) + 3 /\ w[1] = a /\ w[2] = d
        /\ \A i \in 1..Len(y) : w[i + 2] = y[i]
        /\ w[Len(y) + 3] = z
    BY <2>6, Framed
  <2>8. w[1 + 2] = b /\ w[2 + 2] = c
    BY <2>5, <2>7
  <2>9. Len(w) = 5 /\ w[5] = z
    BY <2>5, <2>7
  <2> QED
    BY <1>2, <1>3, <1>4, <2>4, <2>6, <2>7, <2>8, <2>9
<1>5. CASE SecondDigit(t) = 0 /\ FirstDigit(t) # 0
  <2>1. Fraction(t) = <<FirstDigit(t)>>
    BY <1>5 DEF Fraction
  <2>2. shown = <<b>>
    BY <1>3, <2>1
  <2>0. <<b>> \in Seq(Nat) /\ <<b>> # << >>
    OBVIOUS
  <2>3. PICK y \in Seq(Nat) : y = <<b>> /\ y # << >>
    BY <2>0
  <2>4. Text(t) = <<a>> \o (<<d>> \o y) \o <<z>>
    BY <1>2, <2>2, <2>3 DEF Text
  <2>5. Len(y) = 1 /\ y[1] = b
    BY <2>3
  <2>6. PICK w : w = <<a>> \o (<<d>> \o y) \o <<z>>
    OBVIOUS
  <2>7. /\ w \in Seq(Nat) /\ Len(w) = Len(y) + 3 /\ w[1] = a /\ w[2] = d
        /\ \A i \in 1..Len(y) : w[i + 2] = y[i]
        /\ w[Len(y) + 3] = z
    BY <2>6, Framed
  <2>8. w[1 + 2] = b
    BY <2>5, <2>7
  <2>9. Len(w) = 4 /\ w[4] = z
    BY <2>5, <2>7
  <2> QED
    BY <1>2, <1>3, <1>5, <2>4, <2>6, <2>7, <2>8, <2>9
<1>6. CASE SecondDigit(t) = 0 /\ FirstDigit(t) = 0
  <2>1. Fraction(t) = << >>
    BY <1>6 DEF Fraction
  <2>2. shown = << >>
    BY <2>1
  <2>0. << >> \in Seq(Nat) /\ Len(<< >>) = 0
    OBVIOUS
  <2>3. PICK y \in Seq(Nat) : y = << >> /\ Len(y) = 0
    BY <2>0
  <2>4. PICK w : w = <<a>> \o y \o <<z>>
    OBVIOUS
  <2>5. Text(t) = w
    BY <1>2, <2>2, <2>3, <2>4 DEF Text
  <2>6. w \in Seq(Nat) /\ Len(w) = 2 /\ w[1] = a /\ w[2] = z
    BY <2>3, <2>4, Between
  <2> QED
    BY <1>2, <1>6, <2>5, <2>6
<1> QED
  BY <1>1, <1>4, <1>5, <1>6

\* Where a text without a digit shows "Z", which comes after every digit.
FirstKey(t) == IF FirstDigit(t) = 0 /\ SecondDigit(t) = 0 THEN Base ELSE FirstDigit(t)
SecondKey(t) == IF SecondDigit(t) = 0 THEN Base ELSE SecondDigit(t)

\* Texts compare by second, first and second digit, a missing digit last.
LEMMA TextsCompare ==
    ASSUME NEW s \in Nat, NEW t \in Nat
    PROVE  TextBefore(Text(s), Text(t))
             <=> Less(Second(s), FirstKey(s), SecondKey(s),
                      Second(t), FirstKey(t), SecondKey(t))
<1>1. PICK m \in Nat : m = Base
  BY TimestampsAssumption
<1>2. PICK a \in Nat, b \in 0..(m - 1), c \in 0..(m - 1) :
        a = Second(s) /\ b = FirstDigit(s) /\ c = SecondDigit(s)
  BY <1>1, Digits
<1>3. PICK d \in Nat, e \in 0..(m - 1), f \in 0..(m - 1) :
        d = Second(t) /\ e = FirstDigit(t) /\ f = SecondDigit(t)
  BY <1>1, Digits
<1>4. PICK x : x = Text(s)
  OBVIOUS
<1>5. PICK y : y = Text(t)
  OBVIOUS
<1>6. /\ DOMAIN x = 1..(IF c # 0 THEN 5 ELSE IF b # 0 THEN 4 ELSE 2)
      /\ x[1] = a
      /\ x[2] = IF b = 0 /\ c = 0 THEN m + 1 ELSE 0
      /\ b # 0 \/ c # 0 => x[3] = b + 1 /\ x[4] = IF c = 0 THEN m + 1 ELSE c + 1
      /\ c # 0 => x[5] = m + 1
  BY <1>1, <1>2, <1>4, TextCharacters DEF Dot, Digit, Zed
<1>7. /\ DOMAIN y = 1..(IF f # 0 THEN 5 ELSE IF e # 0 THEN 4 ELSE 2)
      /\ y[1] = d
      /\ y[2] = IF e = 0 /\ f = 0 THEN m + 1 ELSE 0
      /\ e # 0 \/ f # 0 => y[3] = e + 1 /\ y[4] = IF f = 0 THEN m + 1 ELSE f + 1
      /\ f # 0 => y[5] = m + 1
  BY <1>1, <1>3, <1>5, TextCharacters DEF Dot, Digit, Zed
<1> DEFINE b1 == IF b = 0 /\ c = 0 THEN m ELSE b
           c1 == IF c = 0 THEN m ELSE c
           e1 == IF e = 0 /\ f = 0 THEN m ELSE e
           f1 == IF f = 0 THEN m ELSE f
<1>8. ASSUME TextBefore(x, y) PROVE Less(a, b1, c1, d, e1, f1)
  <2>1. PICK i \in DOMAIN x \cap DOMAIN y :
          x[i] < y[i] /\ \A j \in 1..(i - 1) : x[j] = y[j]
    BY <1>8 DEF TextBefore
  <2>2. i \in 1..5
    BY <1>6
  <2>3. /\ i > 1 => x[1] = y[1]
        /\ i > 2 => x[2] = y[2]
        /\ i > 3 => x[3] = y[3]
        /\ i > 4 => x[4] = y[4]
    BY <2>1, <2>2
  <2>4. CASE i = 1
    BY <1>6, <1>7, <2>1, <2>4 DEF Less
  <2>5. CASE i = 2
    BY <1>6, <1>7, <2>1, <2>3, <2>5 DEF Less
  <2>6. CASE i = 3
    BY <1>6, <1>7, <2>1, <2>3, <2>6 DEF Less
  <2>7. CASE i = 4
    BY <1>6, <1>7, <2>1, <2>3, <2>7 DEF Less
  <2>8. CASE i = 5
    BY <1>6, <1>7, <2>1, <2>3, <2>8 DEF Less
  <2> QED
    BY <2>2, <2>4, <2>5, <2>6, <2>7, <2>8
<1>9. ASSUME Less(a, b1, c1, d, e1, f1) PROVE TextBefore(x, y)
  <2>1. CASE a < d
    <3>1. 1 \in DOMAIN x \cap DOMAIN y /\ x[1] < y[1]
      BY <1>6, <1>7, <2>1
    <3> QED
      BY <3>1 DEF TextBefore
  <2>2. CASE a = d /\ b1 < e1 /\ e = 0 /\ f = 0
    <3>1. 2 \in DOMAIN x \cap DOMAIN y /\ x[2] < y[2] /\ x[1] = y[1]
      BY <1>6, <1>7, <2>2
    <3> QED
      BY <3>1 DEF TextBefore
  <2>3. CASE a = d /\ b1 < e1 /\ ~(e = 0 /\ f = 0)
    <3>1. /\ 3 \in DOMAIN x \cap DOMAIN y /\ x[3] < y[3]
          /\ x[1] = y[1] /\ x[2] = y[2]
      BY <1>6, <1>7, <2>3
    <3> QED
      BY <3>1 DEF TextBefore
  <2>4. CASE a = d /\ b1 = e1 /\ c1 < f1
    <3>1. /\ 4 \in DOMAIN x \cap DOMAIN y /\ x[4] < y[4]
          /\ x[1] = y[1] /\ x[2] = y[2] /\ x[3] = y[3]
      BY <1>6, <1>7, <2>4
    <3> QED
      BY <3>1 DEF TextBefore
  <2> QED
    BY <1>9, <2>1, <2>2, <2>3, <2>4 DEF Less
<1>10. b1 = FirstKey(s) /\ c1 = SecondKey(s) /\ e1 = FirstKey(t) /\ f1 = SecondKey(t)
  BY <1>1, <1>2, <1>3 DEF FirstKey, SecondKey
<1> QED
  BY <1>2, <1>3, <1>4, <1>5, <1>8, <1>9, <1>10

\* Keys are numbers.
LEMMA Keys ==
    ASSUME NEW t \in Nat
    PROVE  Second(t) \in Nat /\ FirstKey(t) \in Nat /\ SecondKey(t) \in Nat
<1>1. PICK m \in Nat : m = Base
  BY TimestampsAssumption
<1>2. /\ Second(t) \in Nat
      /\ FirstDigit(t) \in 0..(m - 1) /\ SecondDigit(t) \in 0..(m - 1)
  BY <1>1, Digits
<1> QED
  BY <1>1, <1>2 DEF FirstKey, SecondKey

\* Texts are in a strict order.
LEMMA TextsOrdered ==
    ASSUME NEW s \in Nat, NEW t \in Nat, NEW u \in Nat
    PROVE  /\ ~ TextBefore(Text(s), Text(s))
           /\ TextBefore(Text(s), Text(t)) /\ TextBefore(Text(t), Text(u))
                 => TextBefore(Text(s), Text(u))
           /\ TextBefore(Text(s), Text(u)) /\ ~ TextBefore(Text(t), Text(u))
                 => TextBefore(Text(s), Text(t))
<1>1. PICK a \in Nat, b \in Nat, c \in Nat :
        a = Second(s) /\ b = FirstKey(s) /\ c = SecondKey(s)
  BY Keys
<1>2. PICK d \in Nat, e \in Nat, f \in Nat :
        d = Second(t) /\ e = FirstKey(t) /\ f = SecondKey(t)
  BY Keys
<1>3. PICK k \in Nat, l \in Nat, m \in Nat :
        k = Second(u) /\ l = FirstKey(u) /\ m = SecondKey(u)
  BY Keys
<1>4. /\ TextBefore(Text(s), Text(s)) <=> Less(a, b, c, a, b, c)
      /\ TextBefore(Text(s), Text(t)) <=> Less(a, b, c, d, e, f)
      /\ TextBefore(Text(t), Text(u)) <=> Less(d, e, f, k, l, m)
      /\ TextBefore(Text(s), Text(u)) <=> Less(a, b, c, k, l, m)
  BY <1>1, <1>2, <1>3, TextsCompare
<1> QED
  BY <1>4 DEF Less

\* Ranks are numbers and compare as the texts do.
LEMMA RanksCompare ==
    ASSUME NEW M \in Nat, NEW s \in 0..M, NEW t \in 0..M
    PROVE  /\ RankOf(s, M) \in Nat
           /\ RankOf(s, M) < RankOf(t, M) <=> TextBefore(Text(s), Text(t))
<1> DEFINE Under(u) == {v \in 0..M : TextBefore(Text(v), Text(u))}
<1>1. IsFiniteSet(0..M)
  BY FS_Interval
<1>2. ASSUME NEW u \in 0..M
      PROVE  IsFiniteSet(Under(u)) /\ Cardinality(Under(u)) \in Nat
  <2>1. Under(u) \in SUBSET (0..M)
    OBVIOUS
  <2> HIDE DEF Under
  <2>2. IsFiniteSet(Under(u))
    BY <1>1, <2>1, FS_Subset
  <2> QED
    BY <2>2, FS_CardinalityType
<1>3. ASSUME NEW u \in 0..M, NEW v \in 0..M, TextBefore(Text(u), Text(v))
      PROVE  Under(u) \subseteq Under(v) /\ u \in Under(v) /\ u \notin Under(u)
  <2>1. ASSUME NEW w \in 0..M, TextBefore(Text(w), Text(u))
        PROVE  TextBefore(Text(w), Text(v))
    BY <1>3, <2>1, TextsOrdered
  <2>2. ~ TextBefore(Text(u), Text(u))
    BY TextsOrdered
  <2> QED
    BY <1>3, <2>1, <2>2
<1>4. ASSUME NEW u \in 0..M, NEW v \in 0..M, ~ TextBefore(Text(u), Text(v))
      PROVE  Under(v) \subseteq Under(u)
  <2>1. ASSUME NEW w \in 0..M, TextBefore(Text(w), Text(v))
        PROVE  TextBefore(Text(w), Text(u))
    BY <1>4, <2>1, TextsOrdered
  <2> QED
    BY <2>1
<1>5. RankOf(s, M) = Cardinality(Under(s)) /\ RankOf(t, M) = Cardinality(Under(t))
  BY DEF RankOf
<1> HIDE DEF Under
<1>6. CASE TextBefore(Text(s), Text(t))
  <2>1. Under(s) \in SUBSET Under(t) /\ Under(s) # Under(t)
    BY <1>3, <1>6
  <2>2. Cardinality(Under(s)) <= Cardinality(Under(t))
        /\ Cardinality(Under(s)) # Cardinality(Under(t))
    BY <1>2, <2>1, FS_Subset
  <2> QED
    BY <1>2, <1>5, <1>6, <2>2
<1>7. CASE ~ TextBefore(Text(s), Text(t))
  <2>1. Under(t) \in SUBSET Under(s)
    BY <1>4, <1>7
  <2>2. Cardinality(Under(t)) <= Cardinality(Under(s))
    BY <1>2, <2>1, FS_Subset
  <2> QED
    BY <1>2, <1>5, <1>7, <2>2
<1> QED
  BY <1>6, <1>7

-----------------------------------------------------------------------------
(***************************************************************************)
(* Listings.                                                               *)
(***************************************************************************)

\* Within a second, a time shows no digit and the other some, or it shows the
\* first digit of the two that the other shows.
LEMMA Beginnings ==
    ASSUME NEW s \in Nat, NEW t \in Nat
    PROVE  Begins(s, t) <=>
             /\ Second(s) = Second(t)
             /\ SecondDigit(s) = 0
             /\ \/ /\ FirstDigit(s) = 0
                   /\ FirstDigit(t) # 0 \/ SecondDigit(t) # 0
                \/ /\ FirstDigit(s) # 0 /\ FirstDigit(s) = FirstDigit(t)
                   /\ SecondDigit(t) # 0
<1> DEFINE Shows(u, x) ==
             /\ Len(x) = IF SecondDigit(u) # 0 THEN 2 ELSE IF FirstDigit(u) # 0 THEN 1 ELSE 0
             /\ DOMAIN x = 1..Len(x)
             /\ Len(x) > 0 => x[1] = FirstDigit(u)
             /\ Len(x) > 1 => x[2] = SecondDigit(u)
<1>1. ASSUME NEW u \in Nat PROVE Shows(u, Fraction(u))
  <2>1. CASE SecondDigit(u) # 0
    BY <2>1 DEF Fraction
  <2>2. CASE SecondDigit(u) = 0 /\ FirstDigit(u) # 0
    BY <2>2 DEF Fraction
  <2>3. CASE SecondDigit(u) = 0 /\ FirstDigit(u) = 0
    BY <2>3 DEF Fraction
  <2> QED
    BY <2>1, <2>2, <2>3
<1>2. PICK x, y : x = Fraction(s) /\ y = Fraction(t)
  OBVIOUS
<1>3. Begins(s, t) <=> /\ Second(s) = Second(t) /\ Len(x) < Len(y)
                       /\ \A i \in DOMAIN x : x[i] = y[i]
  BY <1>2 DEF Begins
<1>4. Shows(s, x) /\ Shows(t, y)
  BY <1>1, <1>2
<1>5. CASE SecondDigit(s) # 0
  BY <1>3, <1>4, <1>5
<1>6. CASE SecondDigit(s) = 0 /\ FirstDigit(s) # 0
  BY <1>3, <1>4, <1>6
<1>7. CASE SecondDigit(s) = 0 /\ FirstDigit(s) = 0
  BY <1>3, <1>4, <1>7
<1> QED
  BY <1>5, <1>6, <1>7

\* ShownFirst is the order of texts, reversed.
LEMMA ShownFirstIsTextOrder ==
    ASSUME NEW s \in Nat, NEW t \in Nat
    PROVE  ShownFirst(s, t) <=> TextBefore(Text(t), Text(s))
<1>1. PICK m \in Nat : m = Base
  BY TimestampsAssumption
<1>2. PICK a \in Nat, b \in 0..(m - 1), c \in 0..(m - 1) :
        a = Second(s) /\ b = FirstDigit(s) /\ c = SecondDigit(s)
  BY <1>1, Digits
<1>3. PICK d \in Nat, e \in 0..(m - 1), f \in 0..(m - 1) :
        d = Second(t) /\ e = FirstDigit(t) /\ f = SecondDigit(t)
  BY <1>1, Digits
<1>4. t < s <=> Less(d, e, f, a, b, c)
  BY <1>2, <1>3, TimesCompare
<1>5. Begins(s, t) <=> /\ a = d /\ c = 0
                       /\ \/ b = 0 /\ (e # 0 \/ f # 0)
                          \/ b # 0 /\ b = e /\ f # 0
  BY <1>2, <1>3, Beginnings
<1>6. Begins(t, s) <=> /\ d = a /\ f = 0
                       /\ \/ e = 0 /\ (b # 0 \/ c # 0)
                          \/ e # 0 /\ e = b /\ c # 0
  BY <1>2, <1>3, Beginnings
<1>7. TextBefore(Text(t), Text(s))
        <=> Less(d, IF e = 0 /\ f = 0 THEN m ELSE e, IF f = 0 THEN m ELSE f,
                 a, IF b = 0 /\ c = 0 THEN m ELSE b, IF c = 0 THEN m ELSE c)
  BY <1>1, <1>2, <1>3, TextsCompare DEF FirstKey, SecondKey
<1>8. ShownFirst(s, t) <=> Begins(s, t) \/ (t < s /\ ~ Begins(t, s))
  BY DEF ShownFirst
<1> QED
  BY <1>4, <1>5, <1>6, <1>7, <1>8 DEF Less

\* Of two seconds the earlier ranks below the later.
LEMMA SecondsRank ==
    ASSUME NEW s \in Times, NEW t \in Times, Second(s) < Second(t)
    PROVE  TextOrder[s] < TextOrder[t]
<1>1. MaxTime \in Nat /\ s \in 0..MaxTime /\ t \in 0..MaxTime /\ s \in Nat /\ t \in Nat
  BY ChannelsAssumption DEF Times
<1>2. TextBefore(Text(s), Text(t))
  BY <1>1, TextsCompare DEF Less
<1>3. RankOf(s, MaxTime) < RankOf(t, MaxTime)
  BY <1>1, <1>2, RanksCompare
<1> QED
  BY <1>3 DEF TextOrder

\* No two times have the same text: TextOrder is a value that the assumption on
\* TextRank admits, for every base and any number of seconds.
THEOREM TextOrderIsAdmitted ==
    /\ TextOrder \in [Times -> Nat]
    /\ \A s, t \in Times : TextOrder[s] = TextOrder[t] => s = t
<1>1. ASSUME NEW s \in Times, NEW t \in Times
      PROVE  /\ s \in 0..MaxTime /\ t \in 0..MaxTime /\ MaxTime \in Nat
             /\ s \in Nat /\ t \in Nat
  BY ChannelsAssumption DEF Times
<1>2. \A s \in Times : RankOf(s, MaxTime) \in Nat
  BY <1>1, RanksCompare
<1>3. TextOrder \in [Times -> Nat]
  BY <1>2 DEF TextOrder
<1>4. ASSUME NEW s \in Times, NEW t \in Times, TextOrder[s] = TextOrder[t]
      PROVE  s = t
  <2>1. RankOf(s, MaxTime) = RankOf(t, MaxTime)
    BY <1>4 DEF TextOrder
  <2>2. ~ TextBefore(Text(s), Text(t)) /\ ~ TextBefore(Text(t), Text(s))
    BY <1>1, <1>2, <2>1, RanksCompare
  <2>3. ~ ShownFirst(s, t) /\ ~ ShownFirst(t, s)
    BY <1>1, <2>2, ShownFirstIsTextOrder
  <2>4. ~ Begins(s, t) /\ ~ Begins(t, s)
    BY <2>3 DEF ShownFirst
  <2>5. ~(s > t) /\ ~(t > s)
    BY <2>3, <2>4 DEF ShownFirst
  <2> QED
    BY <1>1, <2>5
<1> QED
  BY <1>3, <1>4

\* A listing follows the texts of the stamps.
LEMMA ListingFollowsText ==
    ASSUME TypeOK, TextRank = TextOrder
    PROVE  ListingExplained
<1>1. ASSUME NEW c \in Channels, NEW i \in DOMAIN history[c], NEW j \in DOMAIN history[c],
             NEW s \in Times, NEW t \in Times,
             s = history[c][i].at, t = history[c][j].at
      PROVE  ListedBefore(history[c], i, j)
               <=> ShownFirst(s, t) \/ (s = t /\ i > j)
  <2>1. s \in 0..MaxTime /\ t \in 0..MaxTime /\ MaxTime \in Nat /\ s \in Nat /\ t \in Nat
    BY ChannelsAssumption DEF Times
  <2>2. <<s, t>> \in TextLater <=> TextRank[t] < TextRank[s]
    BY TextLaterPairs
  <2>3. TextRank[t] = RankOf(t, MaxTime) /\ TextRank[s] = RankOf(s, MaxTime)
    BY DEF TextOrder
  <2>4. TextRank[t] < TextRank[s] <=> ShownFirst(s, t)
    BY <2>1, <2>3, RanksCompare, ShownFirstIsTextOrder
  <2> QED
    BY <1>1, <2>2, <2>4 DEF ListedBefore
<1>2. \A c \in Channels : \A i \in DOMAIN history[c] : history[c][i].at \in Times
  <2>1. \A c \in Channels : \A i \in DOMAIN history[c] : history[c][i] \in Pointer
    BY DEF TypeOK
  <2> QED
    BY <2>1, PointerFields
<1> QED
  BY <1>1, <1>2 DEF ListingExplained

\* Stamps that are equal or seconds apart and in order have texts that are.
LEMMA SpacedFollowsText ==
    ASSUME TypeOK, TextRank = TextOrder
    PROVE  SpacedHistoryListedBack
<1> SUFFICES ASSUME NEW c \in Channels,
                    \A i, j \in 1..Len(history[c]) : i < j =>
                       \/ history[c][i].at = history[c][j].at
                       \/ Second(history[c][i].at) < Second(history[c][j].at)
             PROVE  LET h == history[c]
                        n == Len(h)
                    IN  /\ n > 0 => Listed(h, 0) = h[n]
                        /\ n > 1 => Listed(h, 1) = h[n - 1]
  BY DEF SpacedHistoryListedBack
<1> DEFINE h == history[c]
<1>1. h \in Seq(Pointer) /\ Len(h) \in Nat /\ DOMAIN h = 1..Len(h)
  BY DEF TypeOK
<1>2. \A i \in DOMAIN h : h[i].at \in Times
  <2>1. \A i \in DOMAIN h : h[i] \in Pointer
    BY <1>1
  <2> QED
    BY <2>1, PointerFields
<1>3. ASSUME NEW i \in DOMAIN h, NEW j \in DOMAIN h, i < j
      PROVE  TextRank[h[i].at] <= TextRank[h[j].at]
  <2>1. TextRank[h[i].at] \in Nat /\ TextRank[h[j].at] \in Nat
    BY <1>2, ChannelsAssumption
  <2>2. CASE h[i].at = h[j].at
    BY <2>1, <2>2
  <2>3. CASE Second(h[i].at) < Second(h[j].at)
    <3>1. TextOrder[h[i].at] < TextOrder[h[j].at]
      BY <1>2, <2>3, SecondsRank
    <3> QED
      BY <2>1, <3>1
  <2> QED
    BY <1>1, <1>3, <2>2, <2>3
<1> HIDE DEF h
<1>4. Len(h) > 0 => Listed(h, 0) = h[Len(h)]
  BY <1>1, <1>3, ListedBack
<1>5. Len(h) > 1 => Listed(h, 1) = h[Len(h) - 1]
  BY <1>1, <1>3, ListedBack
<1> QED
  BY <1>4, <1>5 DEF h

\* With RFC3339Nano text for stamps, whatever its base and however long the
\* history, ORDER BY lists two rows by time and equal stamps by row id, except
\* that within a second a stamp whose digits begin the other's comes first.
THEOREM ListingIsExplained == TextRank = TextOrder => (Spec => []ListingExplained)
<1> SUFFICES ASSUME TextRank = TextOrder PROVE Spec => []ListingExplained
  OBVIOUS
<1>1. TypeOK => ListingExplained
  BY ListingFollowsText
<1> QED
  BY <1>1, TypeCorrect, PTL

\* With RFC3339Nano text for stamps, a history whose stamps are equal or seconds
\* apart and in order has the pointer at its head and the rollback's target
\* after it, whatever requests interleave to write it.
THEOREM SpacedHistoriesAreListedBack ==
    TextRank = TextOrder => (Spec => []SpacedHistoryListedBack)
<1> SUFFICES ASSUME TextRank = TextOrder PROVE Spec => []SpacedHistoryListedBack
  OBVIOUS
<1>1. TypeOK => SpacedHistoryListedBack
  BY SpacedFollowsText
<1> QED
  BY <1>1, TypeCorrect, PTL
=============================================================================
