----------------------------- MODULE MCKeyedTable -----------------------------
(***************************************************************************)
(* The instance of KeyedTable for TLC: a table with a title that is NOT    *)
(* NULL and a note that is not, another with a slug alone, in two          *)
(* languages, one of them without rows at the start.                       *)
(***************************************************************************)
EXTENDS KeyedTable, TLC

CONSTANTS c1, c2, c3, p1, p2, noKey, en, ru, words, slugs, title, note, slug, x, y

MCKeyRank  == (noKey :> 0) @@ (en :> 1) @@ (ru :> 2)
MCCellRank == (title :> 1) @@ (note :> 2) @@ (slug :> 3)
MCTableOf  == (title :> words) @@ (note :> words) @@ (slug :> slugs)
Policies   == (title :> "empty") @@ (note :> "null") @@ (slug :> "deleteRow")

MCRows == [r \in Places |-> IF r[3] = en THEN [f \in CellsOf(r[1]) |-> x] ELSE Absent]

\* Forms with a language or two, filled, cleared, garbled or left out.
Forms == {title :> (en :> y) @@ note :> (en :> y @@ ru :> Empty),
          title :> (ru :> x) @@ note :> (ru :> Other) @@ slug :> (en :> Null @@ ru :> y),
          title :> (en :> Empty) @@ note :> Bad @@ slug :> (noKey :> y),
          title :> (noKey :> y) @@ note :> (noKey :> Null),
          title :> Bad @@ note :> (en :> Null),
          note :> (ru :> y)}

\* Both languages in every table a body touches, so that the saves cross, and the
\* tables of one, of the other or of both: a save that waits for one of the last
\* finds it waiting for one of the second.
Crossing == {title :> (en :> y @@ ru :> y),
             slug :> (en :> y @@ ru :> Null),
             title :> (en :> Empty @@ ru :> x) @@ note :> (ru :> y) @@ slug :> (en :> y @@ ru :> x),
             slug :> (en :> x @@ ru :> y) @@ note :> (en :> y @@ ru :> Null) @@ title :> (en :> x @@ ru :> x)}

\* Both, the first not overlapping others of the same parent: without the
\* parent's lock a save may be half of each (see the clearing in Clear).
MCBodies == Forms \cup Crossing
Alone == \A c, d \in Open : c # d /\ Parent(c) = Parent(d) => In(c) \notin Forms
AloneNext == Alone'

\* The saves differ in nothing but their names.
Anonymous == Permutations(Calls)

\* One filled, the other cleared.
HalfCleared == {title :> (en :> Empty) @@ note :> (en :> y)}
===============================================================================
