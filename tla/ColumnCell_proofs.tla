--------------------------- MODULE ColumnCell_proofs ---------------------------
(***************************************************************************)
(* What a cell writes is of its column's type, what it reports is what a   *)
(* load will show, and a form that is saved as it was loaded reports       *)
(* nothing and changes nothing a form can show: for every scale, zone,     *)
(* column and client that fits the hypotheses below.  The server is not    *)
(* west of Greenwich, uuids come spelled as they are read, no numeric is   *)
(* -0, and a column with a default for the empty text holds none.  None of *)
(* them can go; the run CellDateDrift shows it of the first.               *)
(***************************************************************************)
EXTENDS ColumnCell, TLAPS

Every == {"Text", "Str", "Bool", "UUID", "Int", "Num", "Ints",
          "Time", "TimeLocal", "Date", "TimeOfDay"}

\* What a form shows and what a client sends.
Element == Int \cup {Null, Fraction, NegativeZero}
Sendable(k) ==
    CASE k \in {"Text", "Str"} -> Texts \cup {Null, Other}
      [] k = "Bool"            -> BOOLEAN \cup {Null, Other}
      [] k = "UUID"            -> (Ids \X {"lower"}) \cup {Null, Empty, Malformed, Other}
      [] k = "Int"             -> Int \cup {Null, NegativeZero, Fraction, Other}
      [] k = "Num"             -> {n \in Int : Round(n) = n} \cup {Null, Fraction, Other}
      [] k = "Ints"            -> Seq(Element) \cup {Null, Other}
      [] k = "Time"            -> (Int \X Int) \cup {Null, Empty, Other}
      [] OTHER                 -> Int \cup {Null, Empty, Other}

\* The hypotheses.
Eastern  == 0 <= Zone /\ Zone < Day
Distinct == /\ Null \notin Int /\ Null \notin Ids /\ Null \notin Seq(Int)
            /\ NegativeZero \notin Int \cup {Null, Fraction}
Fits     == /\ Kinds \subseteq Every
            /\ \A k \in Kinds : Contents(k) \subseteq Domain(k) /\ Wire(k) \subseteq Sendable(k)

\* What is in the form is what some form can send.
CellInv == /\ TypeOK /\ SavedIsShown
           /\ form # None => form \in Sendable(kind)
-------------------------------------------------------------------------------
\* A multiple of a unit and less than a unit more is that many units.
LEMMA Units ==
    ASSUME NEW d \in Nat \ {0}, NEW q \in Int, NEW r \in 0..(d - 1)
    PROVE  (q * d + r) \div d = q
<1>1. q * d + r \in Int
  OBVIOUS
<1> DEFINE p == (q * d + r) \div d
           m == (q * d + r) % d
<1>2. p \in Int /\ m \in 0..(d - 1) /\ q * d + r = d * p + m
  BY <1>1
<1> QED
  BY <1>2

\* A number that is rounded is not rounded any further.
LEMMA RoundOnce ==
    ASSUME NEW n \in Int
    PROVE  Round(n) \in Int /\ Round(Round(n)) = Round(n)
  BY ScaleAssumption DEF Round

\* wholeNumber: what is echoed is the integer that is written, and it is exact.
LEMMA WholeNumberExact ==
    ASSUME NEW v \in Element, Distinct, WholeNumber(v).ok
    PROVE  /\ WholeNumber(v).value \in Int
           /\ WholeNumber(v).echo = WholeNumber(v).value
           /\ Round(WholeNumber(v).value) = WholeNumber(v).value
  BY ScaleAssumption DEF WholeNumber, Skip, To, Element, Distinct, Round

\* What a load shows is something a form can send.
LEMMA DecodeIsSendable ==
    ASSUME Distinct, Fits, NEW k \in Kinds, NEW s \in Domain(k)
    PROVE  Decode(k, s) \in Sendable(k)
<1>1. CASE s = Null
  BY <1>1, Fits DEF Fits, Every, Decode, Sendable, Domain
<1>2. CASE s # Null /\ k \in {"Text", "Str", "Bool", "UUID"}
  BY <1>2 DEF Decode, Sendable, Domain
<1>3. CASE s # Null /\ k \in {"Int", "Num"}
  BY <1>3, RoundOnce, ScaleAssumption DEF Decode, Sendable, Domain, Shown
<1>4. CASE s # Null /\ k = "Ints"
  <2>1. s \in Seq(Int \cup {Null}) /\ Decode(k, s) = [n \in DOMAIN s |-> Shown(s[n])]
    BY <1>4 DEF Decode, Domain
  <2>2. \A n \in DOMAIN s : Shown(s[n]) \in Element
    BY <2>1, RoundOnce DEF Shown, Element
  <2>3. [n \in DOMAIN s |-> Shown(s[n])] \in Seq(Element)
    BY <2>1, <2>2
  <2> QED
    BY <1>4, <2>1, <2>3 DEF Sendable
<1>5. CASE s # Null /\ k \in {"Time", "TimeLocal", "Date", "TimeOfDay"}
  <2>1. s \in Int
    BY <1>5 DEF Domain, Moments
  <2>2. ToSecond(s) \in Int /\ (s + Zone) \div Day \in Int /\ s \div Minute \in Int
    BY <2>1, ScaleAssumption DEF ToSecond
  <2> QED
    BY <1>5, <2>1, <2>2 DEF Decode, Sendable, AsUTC
<1> QED
  BY <1>1, <1>2, <1>3, <1>4, <1>5 DEF Fits, Every

\* What a cell parses of a list of numbers.
LEMMA IntsAreShown ==
    ASSUME Distinct, NEW v \in Seq(Element) \cup {Null, Other}, Ints(v).ok
    PROVE  /\ Ints(v).value \in Domain("Ints")
           /\ Ints(v).echo = Decode("Ints", Ints(v).value)
<1>1. CASE v = Null
  BY <1>1 DEF Ints, To, Domain, Decode
<1>2. CASE v # Null
  <2>1. v # Other /\ \A n \in DOMAIN v : WholeNumber(v[n]).ok
    BY <1>2 DEF Ints, Skip
  <2>2. v \in Seq(Element)
    BY <1>2, <2>1
  <2> DEFINE w == [n \in DOMAIN v |-> WholeNumber(v[n]).value]
             e == [n \in DOMAIN v |-> WholeNumber(v[n]).echo]
  <2>3. Ints(v).value = w /\ Ints(v).echo = e
    BY <1>2, <2>1 DEF Ints, To
  <2>4. \A n \in DOMAIN v : v[n] \in Element
    BY <2>2
  <2>5. \A n \in DOMAIN v : w[n] \in Int /\ e[n] = w[n] /\ Round(w[n]) = w[n]
    BY <2>1, <2>4, WholeNumberExact
  <2>6. w \in Seq(Int)
    BY <2>2, <2>5
  <2>7. w # Null /\ DOMAIN w = DOMAIN v
    BY <2>6 DEF Distinct
  <2>8. Decode("Ints", w) = [n \in DOMAIN w |-> Shown(w[n])]
    BY <2>7 DEF Decode
  <2>9. \A n \in DOMAIN w : Shown(w[n]) = e[n]
    BY <2>5, <2>7 DEF Shown
  <2>10. Decode("Ints", w) = e
    <3> HIDE DEF w
    <3> QED
      BY <2>7, <2>8, <2>9
  <2>11. w \in Seq(Int \cup {Null})
    BY <2>6, <2>5, <2>7
  <2> QED
    BY <2>3, <2>10, <2>11 DEF Domain
<1> QED
  BY <1>1, <1>2

\* What a cell parses and the column admits is of the column's type, and the
\* echo is what a load shows of it.
LEMMA ParsedIsShown ==
    ASSUME Eastern, Distinct, Fits, NEW k \in Kinds, NEW v \in Sendable(k),
           Parse(k, v).ok, ~Refused(k, Parse(k, v).value)
    PROVE  /\ Parse(k, v).value \in Domain(k)
           /\ Parse(k, v).echo = Decode(k, Parse(k, v).value)
<1>1. CASE k \in {"Text", "Str", "Bool"}
  BY <1>1, SentinelAssumption DEF Parse, Text, Str, Bool, Skip, To, Decode, Domain, Sendable
<1>2. CASE k = "UUID"
  BY <1>2 DEF Parse, UUID, Skip, To, Decode, Domain, Sendable, Refused, Distinct
<1>3. CASE k = "Int"
  <2>1. CASE v = Null
    BY <1>3, <2>1 DEF Parse, Int1, To, Decode, Domain
  <2>2. CASE v # Null
    <3>1. Parse(k, v) = WholeNumber(v)
      BY <1>3, <2>2 DEF Parse, Int1
    <3>2. v \in Element
      BY <1>3, <3>1 DEF Sendable, Element, WholeNumber, Skip
    <3>3. /\ WholeNumber(v).value \in Int
          /\ WholeNumber(v).echo = WholeNumber(v).value
          /\ Round(WholeNumber(v).value) = WholeNumber(v).value
      BY <3>1, <3>2, WholeNumberExact
    <3> QED
      BY <1>3, <3>1, <3>3, ScaleAssumption DEF Decode, Domain, Refused, Distinct
  <2> QED
    BY <2>1, <2>2
<1>4. CASE k = "Num"
  BY <1>4 DEF Parse, Num, Skip, To, Decode, Domain, Sendable, Shown, Distinct
<1>5. CASE k = "Ints"
  BY <1>5, IntsAreShown DEF Parse, Sendable
<1>6. CASE k \in {"Time", "TimeLocal", "Date", "TimeOfDay"} /\ v \in {Null, Empty}
  BY <1>6 DEF Parse, Time, TimeLocal, Date, TimeOfDay, Clock, To, Decode, Domain, Moments
<1>7. CASE k = "Time" /\ v \notin {Null, Empty}
  <2>1. v \in Int \X Int
    BY <1>7 DEF Parse, Time, Clock, Skip, Sendable
  <2> QED
    BY <1>7, <2>1 DEF Parse, Time, Clock, Skip, To, Decode, Domain, Moments, Distinct
<1>8. CASE k \in {"TimeLocal", "Date", "TimeOfDay"} /\ v \notin {Null, Empty}
  <2>1. v \in Int
    BY <1>8 DEF Parse, TimeLocal, Date, TimeOfDay, Clock, Skip, Sendable
  <2>2. v * Day \in Int /\ v * Minute \in Int
    BY <2>1, ScaleAssumption
  <2>3. (v * Day + Zone) \div Day = v
    BY <2>1, Units, ScaleAssumption DEF Eastern
  <2>4. (v * Minute) \div Minute = v
    BY <2>1, <2>2, Units, ScaleAssumption
  <2> QED
    BY <1>8, <2>1, <2>2, <2>3, <2>4
    DEF Parse, TimeLocal, Date, TimeOfDay, Clock, Skip, To, Decode, Domain, Moments, Distinct
<1> QED
  BY <1>1, <1>2, <1>3, <1>4, <1>5, <1>6, <1>7, <1>8 DEF Fits, Every
-------------------------------------------------------------------------------
\* Initially, and after each step, the column holds a value of its type, the
\* journal is right, and the form has what a form can send.
LEMMA InitCell == ASSUME Fits PROVE Init => CellInv
  BY DEF Fits, Init, CellInv, TypeOK, SavedIsShown

LEMMA NextCell ==
    ASSUME Eastern, Distinct, Fits
    PROVE  CellInv /\ [Next]_vars => CellInv'
<1> SUFFICES ASSUME CellInv, [Next]_vars
             PROVE  CellInv'
  OBVIOUS
<1>1. CASE Load
  <2>1. Decode(kind, stored) \in Sendable(kind)
    BY DecodeIsSendable DEF CellInv, TypeOK
  <2> QED
    BY <1>1, <2>1 DEF Load, CellInv, TypeOK, SavedIsShown
<1>2. CASE Type
  <2>1. Wire(kind) \subseteq Sendable(kind)
    BY DEF CellInv, TypeOK, Fits
  <2> QED
    BY <1>2, <2>1 DEF Type, CellInv, TypeOK, SavedIsShown
<1>3. CASE Save
  <2>1. form \in Sendable(kind) /\ kind \in Kinds
    BY <1>3 DEF Save, Closes, CellInv, TypeOK
  <2> DEFINE new == Parse(kind, form)
  <2>2. /\ kind' = kind /\ form' = None /\ typed' = FALSE
        /\ new.ok /\ ~Refused(kind, new.value)
        /\ stored' = new.value
        /\ change' = [old |-> Decode(kind, stored), new |-> new.echo]
    BY <1>3 DEF Save, Closes
  <2>3. new.value \in Domain(kind) /\ new.echo = Decode(kind, new.value)
    BY <2>1, <2>2, ParsedIsShown
  <2> HIDE DEF new
  <2>4. TypeOK'
    BY <2>1, <2>2, <2>3 DEF TypeOK
  <2>5. SavedIsShown'
    BY <2>2, <2>3 DEF SavedIsShown
  <2> QED
    BY <2>2, <2>4, <2>5 DEF CellInv
<1>4. CASE SaveWithout
  BY <1>4 DEF SaveWithout, Closes, CellInv, TypeOK, SavedIsShown
<1>5. CASE SaveFails
  BY <1>5 DEF SaveFails, Closes, CellInv, TypeOK, SavedIsShown
<1>6. CASE Elsewhere
  BY <1>6 DEF Elsewhere, CellInv, TypeOK, SavedIsShown, Fits
<1>7. CASE UNCHANGED vars
  BY <1>7 DEF vars, CellInv, TypeOK, SavedIsShown
<1> QED
  BY <1>1, <1>2, <1>3, <1>4, <1>5, <1>6, <1>7 DEF Next

\* No cell writes what its column cannot hold.
THEOREM WritesFit ==
    ASSUME Eastern, Distinct, Fits
    PROVE  Spec => []TypeOK
<1>1. Init => CellInv
  BY InitCell
<1>2. CellInv /\ [Next]_vars => CellInv'
  BY NextCell
<1>3. CellInv => TypeOK
  BY DEF CellInv
<1> QED
  BY <1>1, <1>2, <1>3, PTL DEF Spec

\* What the journal is told was written is what a load then shows.
THEOREM EchoIsRead ==
    ASSUME Eastern, Distinct, Fits
    PROVE  Spec => []SavedIsShown
<1>1. Init => CellInv
  BY InitCell
<1>2. CellInv /\ [Next]_vars => CellInv'
  BY NextCell
<1>3. CellInv => SavedIsShown
  BY DEF CellInv
<1> QED
  BY <1>1, <1>2, <1>3, PTL DEF Spec
-------------------------------------------------------------------------------
(* A form that is saved as it was loaded.                                   *)

\* The hypotheses: what null and the empty text are not; no form is sent that is
\* no form; and a column whose cell has a default for the empty text holds none.
Legible == /\ \A k \in Kinds : None \notin Wire(k)
           /\ Empty \notin Int \cup (Int \X Int) \cup (Ids \X {"lower"})
           /\ Null \notin (Int \X Int) \cup (Ids \X {"lower"})
           /\ "Str" \in Kinds => Empty \notin Contents("Str") \/ Fallback = Empty

\* A form nobody has typed in still shows what the column holds.
Open == /\ form # None /\ ~typed => form = Decode(kind, stored)
        /\ kind = "Str" => stored # Empty \/ Fallback = Empty

LEMMA ToFields ==
    /\ \A v, e : To(v, e).ok /\ To(v, e).value = v /\ To(v, e).echo = e
    /\ ~Skip.ok
BY DEF To, Skip

\* A whole number of units is that many units.
LEMMA WholeUnits ==
    ASSUME NEW d \in Nat \ {0}, NEW s \in Int
    PROVE  s % d = 0 => (s \div d) * d = s
<1>1. s \div d \in Int /\ s = (d * (s \div d)) + (s % d)
  OBVIOUS
<1>2. d * (s \div d) = (s \div d) * d
  BY <1>1
<1> QED
  BY <1>1, <1>2

LEMMA SecondsOnce ==
    ASSUME NEW s \in Int
    PROVE  /\ ToSecond(s) \in Int /\ ToSecond(ToSecond(s)) = ToSecond(s)
           /\ s % Second = 0 => ToSecond(s) = s
<1> DEFINE q == s \div Second
<1>1. q \in Int /\ ToSecond(s) = q * Second /\ q * Second \in Int
  BY ScaleAssumption DEF ToSecond
<1>2. (q * Second + 0) \div Second = q
  <2> HIDE DEF q
  <2> QED
    BY <1>1, Units, ScaleAssumption
<1>3. ToSecond(ToSecond(s)) = ToSecond(s)
  <2> HIDE DEF q
  <2>1. (q * Second) \div Second = q
    BY <1>1, <1>2
  <2> QED
    BY <1>1, <2>1 DEF ToSecond
<1>4. s % Second = 0 => q * Second = s
  BY WholeUnits, ScaleAssumption
<1> QED
  BY <1>1, <1>3, <1>4

LEMMA IntsLeftAlone ==
    ASSUME Distinct, NEW s \in Seq(Int \cup {Null}), s # Null,
           Ints(Decode("Ints", s)).ok
    PROVE  /\ Ints(Decode("Ints", s)).echo = Decode("Ints", s)
           /\ Expressible("Ints", s) => Ints(Decode("Ints", s)).value = s
<1> DEFINE v == [n \in DOMAIN s |-> Shown(s[n])]
<1>1. Decode("Ints", s) = v /\ DOMAIN v = DOMAIN s
  BY DEF Decode
<1>2. \A n \in DOMAIN s : v[n] \in Int \cup {Null}
  BY RoundOnce DEF Shown
<1>3. CASE v = Null
  <2>1. \A n \in DOMAIN s : s[n] \in -MaxSafe..MaxSafe => Shown(s[n]) = s[n]
    BY ScaleAssumption DEF Shown, Round
  <2>2. Expressible("Ints", s) => v = s
    <3> SUFFICES ASSUME Expressible("Ints", s) PROVE v = s
      OBVIOUS
    <3>1. \A n \in DOMAIN s : s[n] \in -MaxSafe..MaxSafe
      BY DEF Expressible
    <3>2. \A n \in DOMAIN s : v[n] = s[n]
      BY <2>1, <3>1
    <3>3. s = [n \in DOMAIN s |-> s[n]]
      OBVIOUS
    <3> QED
      BY <1>1, <3>2, <3>3
  <2> HIDE DEF v
  <2>3. Ints(v) = To(Null, Null)
    BY <1>3 DEF Ints
  <2> QED
    BY <1>1, <1>3, <2>2, <2>3, ToFields
<1>4. CASE v # Null
  <2>1. \A n \in DOMAIN s : Expressible("Ints", s) => v[n] = s[n]
    <3> SUFFICES ASSUME NEW n \in DOMAIN s, Expressible("Ints", s) PROVE v[n] = s[n]
      OBVIOUS
    <3>1. s[n] \in -MaxSafe..MaxSafe
      BY DEF Expressible
    <3>2. Shown(s[n]) = s[n]
      BY <3>1, ScaleAssumption DEF Shown, Round
    <3> QED
      BY <3>2
  <2>0. v = [n \in DOMAIN v |-> v[n]] /\ s = [n \in DOMAIN s |-> s[n]]
    OBVIOUS
  <2> HIDE DEF v
  <2>2. /\ v # Other /\ \A n \in DOMAIN v : WholeNumber(v[n]).ok
        /\ Ints(v) = To([n \in DOMAIN v |-> WholeNumber(v[n]).value],
                        [n \in DOMAIN v |-> WholeNumber(v[n]).echo])
    BY <1>1, <1>4, ToFields DEF Ints
  <2>3. \A n \in DOMAIN v : WholeNumber(v[n]) = To(v[n], v[n])
    BY <1>1, <1>2, <2>2, ToFields DEF WholeNumber, Distinct
  <2>4. /\ [n \in DOMAIN v |-> WholeNumber(v[n]).value] = v
        /\ [n \in DOMAIN v |-> WholeNumber(v[n]).echo] = v
    BY <2>0, <2>3, ToFields
  <2>5. Ints(v).echo = v /\ Ints(v).value = v
    BY <2>2, <2>4, ToFields
  <2>6. Expressible("Ints", s) => v = s
    BY <1>1, <2>0, <2>1
  <2> QED
    BY <1>1, <2>5, <2>6
<1> QED
  BY <1>3, <1>4

\* What is loaded and sent back is echoed as it was, and is written as it was
\* where a form can show it.
LEMMA LeftAlone ==
    ASSUME Eastern, Distinct, Legible, NEW k \in Every, NEW s \in Domain(k),
           k = "Str" => s # Empty \/ Fallback = Empty,
           Parse(k, Decode(k, s)).ok, ~Refused(k, Parse(k, Decode(k, s)).value)
    PROVE  /\ Parse(k, Decode(k, s)).echo = Decode(k, s)
           /\ Expressible(k, s) => Parse(k, Decode(k, s)).value = s
<1>1. CASE s = Null
  <2>1. Decode(k, s) = Null
    BY <1>1 DEF Decode
  <2>2. Parse(k, Null) \in {To(Null, Null), Skip}
    BY <1>1, ToFields DEF Every, Parse, Text, Str, Bool, UUID, Int1, Num, Ints, Time, TimeLocal,
       Date, TimeOfDay, Clock, Distinct
  <2> QED
    BY <1>1, <2>1, <2>2, ToFields
<1>2. CASE s # Null /\ k \in {"Text", "Str", "Bool"}
  <2>1. Decode(k, s) = s
    BY <1>2 DEF Decode
  <2>2. Parse(k, s) \in {To(s, s), Skip}
    BY <1>2 DEF Parse, Text, Str, Bool
  <2> QED
    BY <2>1, <2>2, ToFields
<1>3. CASE s # Null /\ k = "UUID"
  <2>1. Decode(k, s) = <<s, "lower">> /\ s \in Ids
    BY <1>3 DEF Decode, Domain
  <2>2. <<s, "lower">> \notin {Null, Empty}
    BY <2>1 DEF Legible
  <2>3. \/ Parse(k, <<s, "lower">>) = To(s, <<s, "lower">>)
        \/ Parse(k, <<s, "lower">>) = To(Malformed, <<s, "lower">>)
        \/ Parse(k, <<s, "lower">>) = Skip
    BY <1>3, <2>2 DEF Parse, UUID
  <2>4. Parse(k, <<s, "lower">>).value # Malformed
    BY <1>3, <2>1 DEF Refused
  <2> QED
    BY <2>1, <2>3, <2>4, ToFields
<1>4. CASE s # Null /\ k = "Int"
  <2>1. s \in Int /\ Decode(k, s) = Round(s) /\ Round(s) \in Int
    BY <1>4, RoundOnce, ScaleAssumption DEF Decode, Domain
  <2>2. Parse(k, Round(s)) = WholeNumber(Round(s))
    BY <1>4, <2>1 DEF Parse, Int1, Distinct
  <2>3. WholeNumber(Round(s)) \in {To(Round(s), Round(s)), Skip}
    BY <2>1 DEF WholeNumber, Distinct
  <2>4. Expressible(k, s) => Round(s) = s
    BY <1>4, <2>1 DEF Expressible, Round
  <2> QED
    BY <2>1, <2>2, <2>3, <2>4, ToFields
<1>5. CASE s # Null /\ k = "Num"
  <2>1. Decode(k, s) = Shown(s) /\ Shown(s) \in Int \cup {Null, Fraction}
    BY <1>5, RoundOnce DEF Decode, Domain, Shown
  <2>2. Parse(k, Shown(s)) \in {To(Shown(s), Shown(s)), Skip}
    BY <1>5, <2>1 DEF Parse, Num, Distinct
  <2>3. Expressible(k, s) => Shown(s) = s
    BY <1>5 DEF Expressible
  <2> QED
    BY <2>1, <2>2, <2>3, ToFields
<1>6. CASE s # Null /\ k = "Ints"
  <2>1. s \in Seq(Int \cup {Null})
    BY <1>6 DEF Domain
  <2>2. \A v : Parse(k, v) = Ints(v)
    BY <1>6 DEF Parse
  <2> QED
    BY <1>6, <2>1, <2>2, IntsLeftAlone
<1>7. CASE s # Null /\ k = "Time"
  <2>1. s \in Int /\ Decode(k, s) = <<ToSecond(s), 0>>
    BY <1>7 DEF Decode, AsUTC, Domain, Moments
  <2>2. /\ ToSecond(s) \in Int /\ ToSecond(ToSecond(s)) = ToSecond(s)
        /\ s % Second = 0 => ToSecond(s) = s
    BY <2>1, SecondsOnce
  <2>3. <<ToSecond(s), 0>> \notin {Null, Empty} /\ ToSecond(s) - 0 = ToSecond(s)
    BY <2>2 DEF Legible
  <2>4. Parse(k, <<ToSecond(s), 0>>) \in {To(ToSecond(s), <<ToSecond(s), 0>>), Skip}
    BY <1>7, <2>2, <2>3 DEF Parse, Time, Clock, AsUTC
  <2>5. Expressible(k, s) => s % Second = 0
    BY <1>7 DEF Expressible
  <2> QED
    BY <2>1, <2>2, <2>4, <2>5, ToFields
<1>8. CASE s # Null /\ k = "TimeLocal"
  <2>1. s \in Int /\ Decode(k, s) = ToSecond(s)
    BY <1>8 DEF Decode, Domain, Moments
  <2>2. /\ ToSecond(s) \in Int /\ ToSecond(ToSecond(s)) = ToSecond(s)
        /\ s % Second = 0 => ToSecond(s) = s
    BY <2>1, SecondsOnce
  <2>3. ToSecond(s) \notin {Null, Empty}
    BY <2>2 DEF Legible, Distinct
  <2>4. Parse(k, ToSecond(s)) \in {To(ToSecond(s), ToSecond(s)), Skip}
    BY <1>8, <2>2, <2>3 DEF Parse, TimeLocal, Clock
  <2>5. Expressible(k, s) => s % Second = 0
    BY <1>8 DEF Expressible
  <2> QED
    BY <2>1, <2>2, <2>4, <2>5, ToFields
<1>9. CASE s # Null /\ k = "Date"
  <2> DEFINE v == (s + Zone) \div Day
  <2>1. s \in Int /\ Decode(k, s) = v /\ v \in Int
    BY <1>9, ScaleAssumption DEF Decode, Domain, Moments
  <2>2. s % Day = 0 => v * Day = s
    <3>1. s \div Day \in Int
      BY <2>1, ScaleAssumption
    <3>2. ((s \div Day) * Day + Zone) \div Day = s \div Day
      BY <3>1, Units, ScaleAssumption DEF Eastern
    <3>3. s % Day = 0 => (s \div Day) * Day = s
      BY <2>1, WholeUnits, ScaleAssumption
    <3> QED
      BY <3>2, <3>3
  <2> HIDE DEF v
  <2>3. Parse(k, v) \in {To(v * Day, v), Skip}
    BY <1>9, <2>1 DEF Parse, Date, Clock, Legible, Distinct
  <2>4. Expressible(k, s) => s % Day = 0
    BY <1>9 DEF Expressible
  <2> QED
    BY <2>1, <2>2, <2>3, <2>4, ToFields
<1>10. CASE s # Null /\ k = "TimeOfDay"
  <2> DEFINE v == s \div Minute
  <2>1. s \in Int /\ Decode(k, s) = v /\ v \in Int
    BY <1>10, ScaleAssumption DEF Decode, Domain, Moments
  <2>2. s % Minute = 0 => v * Minute = s
    BY <2>1, WholeUnits, ScaleAssumption
  <2> HIDE DEF v
  <2>3. Parse(k, v) \in {To(v * Minute, v), Skip}
    BY <1>10, <2>1 DEF Parse, TimeOfDay, Clock, Legible, Distinct
  <2>4. Expressible(k, s) => s % Minute = 0
    BY <1>10 DEF Expressible
  <2> QED
    BY <2>1, <2>2, <2>3, <2>4, ToFields
<1> QED
  BY <1>1, <1>2, <1>3, <1>4, <1>5, <1>6, <1>7, <1>8, <1>9, <1>10 DEF Every

LEMMA NextOpen ==
    ASSUME Eastern, Distinct, Fits, Legible
    PROVE  CellInv /\ Open /\ [Next]_vars => Open'
<1> SUFFICES ASSUME CellInv, Open, [Next]_vars PROVE Open'
  OBVIOUS
<1>0. kind \in Kinds
  BY DEF CellInv, TypeOK
<1>1. CASE Load
  BY <1>1 DEF Load, Open
<1>2. CASE Type
  BY <1>2 DEF Type, Open
<1>3. CASE Save
  <2>1. kind = "Str" => stored' # Empty \/ Fallback = Empty
    <3> SUFFICES ASSUME kind = "Str" PROVE stored' # Empty \/ Fallback = Empty
      OBVIOUS
    <3>1. Str(form).ok /\ stored' = Str(form).value
      BY <1>3 DEF Save, Parse
    <3>2. Str(form) \in {Skip, To(Fallback, Fallback)} \/ (form # Empty /\ Str(form) = To(form, form))
      BY DEF Str
    <3> QED
      BY <3>1, <3>2, ToFields
  <2> QED
    BY <1>3, <2>1 DEF Save, Closes, Open
<1>4. CASE SaveWithout \/ SaveFails
  BY <1>4 DEF SaveWithout, SaveFails, Closes, Open
<1>5. CASE Elsewhere
  BY <1>0, <1>5 DEF Elsewhere, Open, Legible
<1>6. CASE UNCHANGED vars
  BY <1>6 DEF vars, Open
<1> QED
  BY <1>1, <1>2, <1>3, <1>4, <1>5, <1>6 DEF Next

LEMMA OpenAlways ==
    ASSUME Eastern, Distinct, Fits, Legible
    PROVE  Spec => [](CellInv /\ Open)
<1>1. Init => CellInv /\ Open
  BY InitCell DEF Init, Open, Fits, Legible
<1>2. CellInv /\ Open /\ [Next]_vars => (CellInv /\ Open)'
  BY NextCell, NextOpen
<1> QED
  BY <1>1, <1>2, PTL DEF Spec

\* What a save of an untouched form does.
LEMMA UntouchedSaves ==
    ASSUME Eastern, Distinct, Fits, Legible, CellInv, Open, [Next]_vars, Untouched
    PROVE  /\ change' = None \/ change'.old = change'.new
           /\ Expressible(kind, stored) => stored' = stored
<1>1. /\ form = Decode(kind, stored) /\ kind \in Every /\ stored \in Domain(kind)
      /\ kind = "Str" => stored # Empty \/ Fallback = Empty
  BY DEF Open, Untouched, CellInv, TypeOK, Fits
<1>2. CASE Save
  <2>1. /\ Parse(kind, form).ok /\ ~Refused(kind, Parse(kind, form).value)
        /\ stored' = Parse(kind, form).value
        /\ change' = [old |-> Decode(kind, stored), new |-> Parse(kind, form).echo]
    BY <1>2 DEF Save
  <2>2. /\ Parse(kind, form).echo = Decode(kind, stored)
        /\ Expressible(kind, stored) => Parse(kind, form).value = stored
    BY <1>1, <2>1, LeftAlone
  <2> QED
    BY <2>1, <2>2
<1>3. CASE SaveWithout \/ SaveFails
  BY <1>3 DEF SaveWithout, SaveFails
<1>4. CASE Type
  BY <1>4 DEF Type, Untouched, CellInv, TypeOK, Legible
<1>5. ~Load /\ ~Elsewhere /\ ~UNCHANGED vars
  BY DEF Untouched, Load, Elsewhere, vars
<1> QED
  BY <1>2, <1>3, <1>4, <1>5 DEF Next

\* A field that is left alone is never reported as changed.
THEOREM NoFalseChanges ==
    ASSUME Eastern, Distinct, Fits, Legible
    PROVE  Spec => UntouchedIsUnreported
<1>1. CellInv /\ Open /\ [Next]_vars
        => [Untouched => change' = None \/ change'.old = change'.new]_vars
  BY UntouchedSaves
<1> QED
  BY <1>1, OpenAlways, PTL DEF Spec, UntouchedIsUnreported

\* A field that is left alone keeps what it holds, where a form can show it.
THEOREM NothingIsDistorted ==
    ASSUME Eastern, Distinct, Fits, Legible
    PROVE  Spec => UntouchedIsKept
<1>1. CellInv /\ Open /\ [Next]_vars
        => [Untouched /\ Expressible(kind, stored) => stored' = stored]_vars
  BY UntouchedSaves
<1> QED
  BY <1>1, OpenAlways, PTL DEF Spec, UntouchedIsKept
===============================================================================
