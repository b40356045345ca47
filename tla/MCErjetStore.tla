----------------------------- MODULE MCErjetStore -----------------------------
(***************************************************************************)
(* The instance of ErjetStore for TLC: one row at the start and one id to  *)
(* create, a plain column, a deferred column and a list, and sets of       *)
(* bodies chosen for what each run is about.                               *)
(***************************************************************************)
EXTENDS ErjetStore, SequencesExt

CONSTANTS c1, c2, c3, i1, i2, title, cover, tags, notes, key, en, ru, x, y, z, nil

MCRank == (title :> 1) @@ (cover :> 2) @@ (tags :> 3) @@ (notes :> 4)
MCKeyRank == (EmptyKey :> 1) @@ (en :> 2) @@ (ru :> 3) @@ (Whole :> 4) @@ (Reread :> 5)
MCHookRow == (title :> x) @@ (cover :> x)

\* As text z reads like two elements y, and nil like null: of a column its word, of
\* a list the words of its rows, in order.
MCWords(v) == CASE v = z -> <<y, y>> [] v = nil -> <<Null>> [] OTHER -> <<v>>
Before(r, q) == \/ MCKeyRank[r[1]] < MCKeyRank[q[1]]
                \/ r[1] = q[1] /\ r[2] <= q[2]
OfKey(v, k) == LET s == SetToSortSeq({r \in DOMAIN v : r[1] = k}, Before)
               IN FlattenSeq([j \in DOMAIN s |-> FlattenSeq([h \in 1..v[s[j]] |-> MCWords(s[j][3])])])
MCText(v) == IF v \in Values \cup {Null} THEN MCWords(v)
             ELSE [k \in {r[1] : r \in DOMAIN v} |-> OfKey(v, k)]

\* The wrapped list is sent names (z) of what it holds values of (y).
MCResolve == (x :> x) @@ (y :> y) @@ (z :> y) @@ (nil :> nil) @@ (Bad :> Bad)
MCSeed == (title :> x) @@ (cover :> Null) @@ (tags :> <<x>>)
            @@ (notes :> ((en :> <<x>>) @@ (ru :> <<y>>)))

\* Every body writes the main table, and none of its lists is empty.
Locking == {(title :> x) @@ (cover :> y) @@ (tags :> <<x, y>>) @@ (notes :> (en :> <<y, y>>)),
            (title :> y) @@ (tags :> <<y>>)}

\* Everything Save tells apart: fields that are absent, null, do not parse or
\* are not writable (key), an element that is sent twice or under its name, a key
\* that is empty or holds no list, a value that only reads like another, a body that
\* writes nothing.
Varied == {(title :> y) @@ (cover :> y) @@ (tags :> <<y, x, z>>),
           (title :> x) @@ (cover :> Bad) @@ (tags :> <<>>) @@ (notes :> Bad),
           (cover :> Null) @@ (tags :> Null) @@ (notes :> ((en :> <<>>) @@ (ru :> <<Bad, x>>))),
           (title :> Bad) @@ (cover :> nil) @@ (tags :> <<Bad, z>>)
             @@ (notes :> ((EmptyKey :> <<x>>) @@ (ru :> Bad) @@ (en :> <<z>>))),
           (key :> x)}

\* Saves of these are not overlapped by other calls: a save that does not write
\* the main row first may mix its list with another's (see ListOnly).
Alone == \A c, d \in Open : c # d => call[c].in \notin Varied
AloneNext == Alone'
MCPayloads == Locking \cup Varied

\* The calls differ in nothing but their names.
Anonymous == Permutations(Calls)

\* Bodies that write the list alone.
ListOnly == {tags :> <<x, y>>, tags :> <<y>>}

\* Bodies that write the plain column alone.
ColumnOnly == {title :> x, title :> y}

\* Bodies whose statements lock in different orders, the empty list among them.
Crossing == {(title :> y) @@ (tags :> <<y>>), (tags :> <<x>>) @@ (cover :> y),
             notes :> ((en :> <<x>>) @@ (ru :> <<>>)), tags :> <<>>}
MCCrossing == Crossing \cup Varied
===============================================================================
