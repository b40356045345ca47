------------------------------ MODULE ColumnCell ------------------------------
(***************************************************************************)
(* The scalar and array cells (adapter/erjet/column.go, array.go): how a   *)
(* column is shown in a form, and how what the form sends back is parsed   *)
(* into a value for the column and an echo for the journal.                *)
(*                                                                         *)
(* The state machine is one column and a form over it: the row is loaded,  *)
(* the field is typed in or left alone, and the form is saved whole.       *)
(* While no form is open other programs may write the column.              *)
(*                                                                         *)
(* Numbers and clocks are scaled down.  A float64 is exact up to MaxSafe   *)
(* (2^53 in the code) and from there on holds every second integer.  Time  *)
(* is counted in ticks; seconds, minutes and days are a few ticks.         *)
(***************************************************************************)
EXTENDS Integers, Sequences

CONSTANTS Kinds,          \* the cells of this instance
          MaxSafe,        \* maxSafeInt
          ColumnMax,      \* the largest integer the column can hold
          Second, Minute, Day,  \* in ticks
          Zone,           \* local time less UTC where the server runs, in ticks
          Texts, Empty,   \* texts, and the empty one
          Fallback,       \* what Str writes for the empty text; Empty for none
          Ids,            \* uuids
          Fraction,       \* a number that is not whole
          NegativeZero,   \* the number -0
          Null,           \* null, and SQL NULL
          Other,          \* what no cell parses
          Malformed,      \* a text that is no uuid
          Contents(_),    \* what the column of a kind of cell may hold
          Wire(_),        \* what a client may send for it
          None

ASSUME ScaleAssumption ==
    /\ MaxSafe \in Nat /\ MaxSafe % 4 = 0 /\ ColumnMax \in Nat
    /\ {Second, Minute, Day} \subseteq Nat \ {0} /\ Zone \in Int
    /\ Minute % Second = 0 /\ Day % Minute = 0
ASSUME SentinelAssumption == Empty \in Texts /\ Fallback \in Texts

VARIABLES kind,         \* the cell of this behaviour
          stored,       \* what the column holds
          form,         \* what the form shows, None when there is none
          typed,        \* history: has the user changed it?
          change        \* what the last save wrote, as the journal has it

vars == <<kind, stored, form, typed, change>>
-------------------------------------------------------------------------------
(* From the column to the form.                                             *)

\* An int64 or numeric as a float64: of the even neighbours of an odd number
\* beyond MaxSafe the multiple of four.
Round(n) == IF (-MaxSafe <= n /\ n <= MaxSafe) \/ n % 2 = 0 THEN n
            ELSE IF (n + 1) % 4 = 0 THEN n + 1 ELSE n - 1
Shown(n) == IF n \in {Null, Fraction} THEN n ELSE Round(n)

ToSecond(t) == (t \div Second) * Second

\* An instant is sent as the clock it shows and the offset of that clock.
AsUTC(t) == <<ToSecond(t), 0>>

\* Normalize and the cells' own decode.  A text, a boolean and a uuid are
\* themselves; Date takes the day of the server's own zone.
Decode(k, s) ==
    IF s = Null THEN Null ELSE
    CASE k = "UUID"       -> <<s, "lower">>
      [] k = "Int"        -> Round(s)
      [] k = "Num"        -> Shown(s)
      [] k = "Ints"       -> [n \in DOMAIN s |-> Shown(s[n])]
      [] k = "Time"       -> AsUTC(s)
      [] k = "TimeLocal"  -> ToSecond(s)
      [] k = "Date"       -> (s + Zone) \div Day
      [] k = "TimeOfDay"  -> s \div Minute
      [] OTHER            -> s
-------------------------------------------------------------------------------
(* From the form to the column: the value that is written and its echo.     *)

Skip == [ok |-> FALSE]
To(value, echo) == [ok |-> TRUE, value |-> value, echo |-> echo]

\* Fault: the empty text clears, as it does in the other cells.
TextOrNull(v) == IF v \in {Null, Empty} THEN To(Null, Null)
                 ELSE IF v = Other THEN Skip ELSE To(v, v)

\* Text, and Bool, which has no NULL.
Text(v) == IF v = Other THEN Skip ELSE To(v, v)
Bool(v) == IF v \in {Null, Other} THEN Skip ELSE To(v, v)

\* Fault: null is written to a column that is NOT NULL.
StrOrNull(v) == IF v = Other THEN Skip ELSE LET s == IF v = Empty THEN Fallback ELSE v IN To(s, s)

\* Str: NOT NULL, the empty text may stand for a default.
Str(v) == IF v \in {Null, Other} THEN Skip
          ELSE LET s == IF v = Empty THEN Fallback ELSE v IN To(s, s)

\* UUID: the database reads either spelling; the echo is as sent.
UUID(v) == IF v \in {Null, Empty} THEN To(Null, Null)
           ELSE IF v = Other THEN Skip
           ELSE IF v = Malformed THEN To(Malformed, v)
           ELSE To(v[1], v)

\* wholeNumber: nothing is rounded, -0 is 0.
WholeNumber(v) ==
    IF v = NegativeZero THEN To(0, 0)
    ELSE IF v \in {Null, Fraction, Other} THEN Skip
    ELSE IF v > MaxSafe \/ v < -MaxSafe THEN Skip
    ELSE To(v, v)

Int1(v) == IF v = Null THEN To(Null, Null) ELSE WholeNumber(v)

\* Num: any number.  A numeric has no negative zero.
Num(v) == IF v = Other THEN Skip
          ELSE IF v = NegativeZero THEN To(0, v) ELSE To(v, v)

\* Ints: all elements are written or none.
Ints(v) ==
    IF v = Null THEN To(Null, Null)
    ELSE IF v = Other \/ \E n \in DOMAIN v : ~WholeNumber(v[n]).ok THEN Skip
    ELSE To([n \in DOMAIN v |-> WholeNumber(v[n]).value],
            [n \in DOMAIN v |-> WholeNumber(v[n]).echo])

\* The clocks: null and the empty text clear, what does not parse is skipped.
Clock(v, value, echo) == IF v \in {Null, Empty} THEN To(Null, Null)
                         ELSE IF v = Other THEN Skip ELSE To(value, echo)

\* Fault: the echo of an instant is as sent.
TimeAsSent(v) == Clock(v, v[1] - v[2], v)

\* Fault: what the browser sends is taken to the minute.
TimeLocalShort(v) == Clock(v, (v \div Minute) * Minute, (v \div Minute) * Minute)

Time(v) == Clock(v, v[1] - v[2], AsUTC(v[1] - v[2]))
TimeLocal(v) == Clock(v, v, ToSecond(v))
Date(v) == Clock(v, v * Day, v)
TimeOfDay(v) == Clock(v, v * Minute, v)

Parse(k, v) ==
    CASE k = "Text"      -> Text(v)
      [] k = "Str"       -> Str(v)
      [] k = "Bool"      -> Bool(v)
      [] k = "UUID"      -> UUID(v)
      [] k = "Int"       -> Int1(v)
      [] k = "Num"       -> Num(v)
      [] k = "Ints"      -> Ints(v)
      [] k = "Time"      -> Time(v)
      [] k = "TimeLocal" -> TimeLocal(v)
      [] k = "Date"      -> Date(v)
      [] k = "TimeOfDay" -> TimeOfDay(v)

\* External: values the column's type does not admit.
Refused(k, s) == \/ k = "UUID" /\ s = Malformed
                 \/ k = "Int" /\ s # Null /\ (s > ColumnMax \/ s < -ColumnMax)
-------------------------------------------------------------------------------
Init == /\ kind \in Kinds
        /\ stored \in Contents(kind)
        /\ form = None /\ typed = FALSE /\ change = None

\* Table.Row: the form shows the row.
Load == /\ form = None
        /\ form' = Decode(kind, stored)
        /\ UNCHANGED <<kind, stored, typed, change>>

Type == /\ form # None
        /\ form' \in Wire(kind)
        /\ typed' = TRUE
        /\ UNCHANGED <<kind, stored, change>>

Closes == form # None /\ form' = None /\ typed' = FALSE /\ UNCHANGED kind

\* Table.Assignments and the UPDATE, with what diff is given.
Save == /\ Closes
        /\ LET new == Parse(kind, form)
           IN /\ new.ok /\ ~Refused(kind, new.value)
              /\ stored' = new.value
              /\ change' = [old |-> Decode(kind, stored), new |-> new.echo]

\* What does not parse is left out of the save.
SaveWithout == /\ Closes /\ ~Parse(kind, form).ok
               /\ change' = None
               /\ UNCHANGED stored

\* What the database refuses fails the save.
SaveFails == /\ Closes
             /\ Parse(kind, form).ok /\ Refused(kind, Parse(kind, form).value)
             /\ change' = None
             /\ UNCHANGED stored

\* Another program writes the column.
Elsewhere == /\ form = None
             /\ stored' \in Contents(kind) /\ change' = None
             /\ UNCHANGED <<kind, form, typed>>

Next == Load \/ Type \/ Save \/ SaveWithout \/ SaveFails \/ Elsewhere

Spec == Init /\ [][Next]_vars
-------------------------------------------------------------------------------
(* Properties.                                                              *)

\* What the columns can hold.
Moments == Int \cup {Null}
Domain(k) ==
    CASE k = "Text"  -> Texts \cup {Null}
      [] k = "Str"   -> Texts
      [] k = "Bool"  -> BOOLEAN
      [] k = "UUID"  -> Ids \cup {Null}
      [] k = "Int"   -> (-ColumnMax .. ColumnMax) \cup {Null}
      [] k = "Num"   -> Int \cup {Null, Fraction}
      [] k = "Ints"  -> Seq(Int \cup {Null}) \cup {Null}
      [] OTHER       -> Moments

\* The types: no cell writes what its column cannot hold.
TypeOK == /\ kind \in Kinds /\ stored \in Domain(kind) /\ typed \in BOOLEAN
          /\ change # None => DOMAIN change = {"old", "new"}

\* column.go:45-49: what the journal is told was written is what a load shows.
SavedIsShown == change # None => change.new = Decode(kind, stored)

\* A form that is saved as it was loaded.
Untouched == form # None /\ ~typed /\ form' = None

\* store.go:293-296, "no false changes": a field left alone is not reported.
UntouchedIsUnreported ==
    [][Untouched => change' = None \/ change'.old = change'.new]_vars

\* What a form can show without loss: an exact number, a clock to the second, a
\* time of day to the minute, a day that begins at midnight, a text that does
\* not stand for the default.
Expressible(k, s) ==
    \/ s = Null
    \/ k \in {"Text", "Bool", "UUID"}
    \/ k = "Str" /\ (s # Empty \/ Fallback = Empty)
    \/ k = "Int" /\ s \in -MaxSafe..MaxSafe
    \/ k = "Num" /\ s = Shown(s)
    \/ k = "Ints" /\ \A n \in DOMAIN s : s[n] \in -MaxSafe..MaxSafe
    \/ k \in {"Time", "TimeLocal"} /\ s % Second = 0
    \/ k = "TimeOfDay" /\ s % Minute = 0
    \/ k = "Date" /\ s % Day = 0

\* column.go:320-325, nothing is written back distorted: a field that is left
\* alone keeps what it holds, where a form can show it.
UntouchedIsKept == [][Untouched /\ Expressible(kind, stored) => stored' = stored]_vars
===============================================================================
