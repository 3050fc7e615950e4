---------------------------- MODULE HistoryOrder ----------------------------
(***************************************************************************)
(* The order in which ORDER BY promoted_at DESC lists a history whose      *)
(* stamps are RFC3339Nano text: what it has to do with time.               *)
(***************************************************************************)
EXTENDS Channels, Timestamps

\* Stamps compare as their texts do.
TextOrder == [t \in Times |-> RankOf(t, MaxTime)]

\* Within a second, the digits that s shows begin the digits that t shows.
Begins(s, t) ==
    /\ Second(s) = Second(t)
    /\ Len(Fraction(s)) < Len(Fraction(t))
    /\ \A i \in DOMAIN Fraction(s) : Fraction(s)[i] = Fraction(t)[i]

\* How ORDER BY treats two rows: the later stamp first, and of equal stamps the
\* later row, with one exception.  Within a second, when the digits one stamp
\* shows begin the digits the other shows, the shorter text sorts last as text
\* and so is listed first, although it is the earlier time.
ShownFirst(s, t) == Begins(s, t) \/ (s > t /\ ~ Begins(t, s))
ListingExplained ==
    \A c \in Channels : \A i, j \in DOMAIN history[c] :
        LET s == history[c][i].at
            t == history[c][j].at
        IN  ListedBefore(history[c], i, j) <=> ShownFirst(s, t) \/ (s = t /\ i > j)

\* When the stamps of a history are, from row to row, equal or seconds apart,
\* its head is the pointer and a rollback goes to the row before it.  The stamp
\* is taken before the save, so rows may also be out of order in time; such
\* histories are excepted.
SpacedHistoryListedBack ==
    \A c \in Channels :
        LET h == history[c]
            n == Len(h)
        IN  (\A i, j \in 1..n : i < j =>
                h[i].at = h[j].at \/ Second(h[i].at) < Second(h[j].at))
            => /\ n > 0 => Listed(h, 0) = h[n]
               /\ n > 1 => Listed(h, 1) = h[n - 1]
=============================================================================
