----------------------------- MODULE Timestamps -----------------------------
(***************************************************************************)
(* The order of timestamps once they are text.                             *)
(*                                                                         *)
(* Times are stored as time.RFC3339Nano text, whose fraction of a second   *)
(* has its trailing zeros cut ("05Z", "05.1Z", "05.12Z"), and SQLite       *)
(* compares that text byte by byte.  A fraction has nine decimal digits;   *)
(* here it has two, in base Base.                                          *)
(***************************************************************************)
EXTENDS Naturals, Sequences, FiniteSets

CONSTANT Base   \* digits are 0..Base-1

ASSUME TimestampsAssumption == Base \in Nat \ {0, 1}

Second(t) == t \div (Base * Base)
FirstDigit(t) == (t \div Base) % Base
SecondDigit(t) == t % Base

\* ASCII puts "." before the digits and "Z" after them.
Dot == 0
Digit(n) == n + 1
Zed == Base + 1

\* The digits of the fraction that are left when trailing zeros are cut.
Fraction(t) ==
    IF SecondDigit(t) # 0 THEN <<FirstDigit(t), SecondDigit(t)>>
    ELSE IF FirstDigit(t) # 0 THEN <<FirstDigit(t)>> ELSE << >>

\* Seeded fault: a layout of fixed width, which keeps the trailing zeros.
TextPadded(t) ==
    <<Second(t), Dot, Digit(FirstDigit(t)), Digit(SecondDigit(t)), Zed>>

\* The text of time t: the second, the fraction without trailing zeros, "Z".
\* What comes before the second is equally long in every stamp and keeps the
\* order, so the second stands for it.
Text(t) ==
    LET shown == [i \in DOMAIN Fraction(t) |-> Digit(Fraction(t)[i])]
    IN  <<Second(t)>> \o (IF shown = << >> THEN << >> ELSE <<Dot>> \o shown)
                     \o <<Zed>>

\* Byte-by-byte comparison.  No text is a prefix of another: each ends in the
\* only "Z" it has.
TextBefore(x, y) ==
    \E i \in DOMAIN x \cap DOMAIN y :
        /\ x[i] < y[i]
        /\ \A j \in 1..(i - 1) : x[j] = y[j]

\* Where time t stands among the times 0..last when they are compared as text.
RankOf(t, last) ==
    Cardinality({s \in 0..last : TextBefore(Text(s), Text(t))})
=============================================================================
