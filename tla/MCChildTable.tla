----------------------------- MODULE MCChildTable -----------------------------
(***************************************************************************)
(* The instance of ChildTable for TLC: two parents and two partitions with *)
(* some rows between them, and lists of both sorts: those that come with   *)
(* columns of the main row, and those that do not and cross.               *)
(***************************************************************************)
EXTENDS ChildTable, TLC

CONSTANTS c1, c2, p1, p2, en, ru, noKey, a, b, f, g, n1, n2, n3, n4, title, note, text, x, y

MCKeyRank == (noKey :> 0) @@ (en :> 1) @@ (ru :> 2)

Stored(p, k, pos) == [parent |-> p, key |-> k, pos |-> pos, cells |-> [h \in Cells |-> x]]

\* a and b are the list of p1 in en, f and g are foreign to it.
MCRows == [i \in Ids |-> CASE i = a -> Stored(p1, en, 1)
                           [] i = b -> Stored(p1, en, 2)
                           [] i = f -> Stored(p2, en, 1)
                           [] i = g -> Stored(p1, ru, 1)
                           [] OTHER -> Absent]

Element(i, set) == [id |-> i, set |-> set]
Untouched == <<>>

\* Ids that no row has at the start are as good as each other: they are used in
\* this order, which leaves the properties what they say.
Fresh == <<n1, n2, n3, n4>>
InOrder == \A m \in 1..3 : home[Fresh[m + 1]] # None => home[Fresh[m]] # None

\* Lists that are forged, garbled, reordered, cut, or sent for another
\* partition or none, with rows nested in their elements.
Varied == {en :> <<Element(b, title :> y), Element(a, text :> y)>>,
           en :> <<Element(f, text :> y), Bad, Element(a, (title :> Bad) @@ (note :> y))>>,
           (en :> <<Element(a, title :> y), Element(a, (title :> Null) @@ (text :> Null))>>)
               @@ (ru :> Bad),
           (ru :> <<Element(a, title :> y), Element(g, Untouched)>>) @@ (noKey :> <<>>),
           (en :> <<Element(NoId, text :> y), Element(b, Untouched)>>) @@ (ru :> <<>>),
           noKey :> <<Element(f, title :> y)>>}

\* The same rows in two orders, and one of them replaced by a foreign one.
Crossing == {en :> <<Element(a, title :> y), Element(b, Untouched)>>,
             en :> <<Element(b, note :> y), Element(a, Untouched)>>,
             en :> <<Element(b, title :> y), Element(f, Untouched)>>}

\* Saves of the first are not overlapped by others of the same parent; the
\* second are for p1, whose list is long enough to cross in.
MCPatches == Varied \cup Crossing
Alone == \A c, d \in Open : c # d /\ Parent(c) = Parent(d) => In(c) \notin Varied
AtHome == \A c \in Open : In(c) \in Crossing => Parent(c) = p1
Selected == Alone' /\ AtHome' /\ InOrder'
===============================================================================
