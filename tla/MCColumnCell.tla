----------------------------- MODULE MCColumnCell -----------------------------
(***************************************************************************)
(* Columns and clients for TLC.  A float64 is exact up to 4; a second has  *)
(* two ticks, a minute four, a day eight.                                  *)
(***************************************************************************)
EXTENDS ColumnCell

CONSTANTS word, standard, u1, u2

MCTexts == {Empty, word, standard}
Numbers == -7..7
Moment  == -9..9

\* A server west of Greenwich.
MCWest == -2

\* What columns hold: anything, but a column with a default no empty text.
Anything(k) ==
    CASE k = "Text"      -> MCTexts \cup {Null}
      [] k = "Str"       -> MCTexts \ {Empty}
      [] k = "Bool"      -> BOOLEAN
      [] k = "UUID"      -> {u1, u2, Null}
      [] k = "Int"       -> Numbers \cup {Null}
      [] k = "Num"       -> Numbers \cup {Null, Fraction}
      [] k = "Ints"      -> {Null, <<>>, <<Null>>} \cup {<<m, n>> : m, n \in {-4, 1, 4, 5, 7}}
      [] k = "TimeOfDay" -> (0..7) \cup {Null}
      [] OTHER           -> Moment \cup {Null}

\* What clients send; uuids are spelled as they are read.
Sent(k) ==
    CASE k = "Text"      -> MCTexts \cup {Null, Other}
      [] k = "Str"       -> MCTexts \cup {Null, Other}
      [] k = "Bool"      -> BOOLEAN \cup {Null, Other}
      [] k = "UUID"      -> {<<u, "lower">> : u \in {u1, u2}} \cup {Null, Empty, Malformed, Other}
      [] k = "Int"       -> (-6..6) \cup {Null, NegativeZero, Fraction, Other}
      [] k = "Num"       -> (-4..4) \cup {Null, Fraction, Other}
      [] k = "Ints"      -> {Null, Other, <<>>, <<NegativeZero>>, <<1, Null>>, <<Fraction>>, <<4, -4>>}
      [] k = "Time"      -> (Moment \X {-3, 0, 4}) \cup {Null, Empty, Other}
      [] k = "TimeLocal" -> Moment \cup {Null, Empty, Other}
      [] k = "TimeOfDay" -> {0, 1, Null, Empty, Other}
      [] k = "Date"      -> (-1..1) \cup {Null, Empty, Other}
===============================================================================
