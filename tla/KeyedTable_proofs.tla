--------------------------- MODULE KeyedTable_proofs ---------------------------
(***************************************************************************)
(* Saves of keyed fields, for any number of saves, parents, tables, keys   *)
(* and fields: the rows fit their tables, full forms are not refused, and  *)
(* no saves deadlock among themselves, since the rows a save has locked    *)
(* are of its own parent and not beyond the key it is at, and it still has *)
(* only later ones to go.                                                  *)
(***************************************************************************)
EXTENDS KeyedTable, FiniteSetTheorems, TLAPS

AtKey == {"clear", "upsert"}

\* The rows a key of a body may be in: a table has a field.
Spots == {s \in Tables \X Keys : CellsOf(s[1]) # {}}

Shaped ==
    /\ held \in [Places -> Calls \cup {None}]
    /\ pc \in [Calls -> Stage]
    /\ call \in [Calls -> [parent : Parents, in : Bodies] \cup {None}]
    /\ answer \in [Calls -> {None, "ok", "err", "refused"}]
    /\ DOMAIN tx = Calls
    /\ \A c \in Calls : /\ DOMAIN tx[c] = DOMAIN NoTx
                        /\ pc[c] # "done" => answer[c] = None
    /\ DOMAIN rows = Places /\ \A r \in Places : Fits(r, rows[r])

\* What a save has to do is of its body, and a save that is not open has nothing.
Given(c) ==
    IF c \in Open
    THEN /\ Parent(c) \in Parents /\ In(c) \in Bodies
         /\ tx[c].todo \subseteq Steps(In(c)) /\ tx[c].unread \subseteq Written(In(c))
         /\ pc[c] \in AtKey => /\ tx[c].at \in Steps(In(c))
                               /\ tx[c].clears \subseteq ToClear(In(c), tx[c].at)
         /\ pc[c] # "clear" => tx[c].clears = {}
         /\ pc[c] = "upsert" => ToSet(In(c), tx[c].at) # {}
    ELSE tx[c] = NoTx

\* Its rows fit.
Fitting(c) == /\ DOMAIN tx[c].writes \subseteq Places
              /\ \A r \in DOMAIN tx[c].writes : Fits(r, tx[c].writes[r])

\* A save is refused for a field it has left out of a row it fills.
Partial(in, s) == ToSet(in, s) # {} /\ ~(NotNull \cap CellsOf(s[1]) \subseteq ToSet(in, s))
Excused(c) == answer[c] = "refused" => \E s \in Steps(In(c)) : Partial(In(c), s)

\* The keys a save has yet to take come after the one it is at...
Ascending(c) == pc[c] \in AtKey => \A s \in tx[c].todo : Earlier(tx[c].at, s)

\* ... and what it has locked before them.
Behind(c) ==
    \A t \in Tables, p \in Parents, k \in Keys : held[<<t, p, k>>] = c =>
        /\ c \in Open /\ p = Parent(c) /\ <<t, k>> \in Spots
        /\ \A s \in tx[c].todo : Earlier(<<t, k>>, s)
        /\ pc[c] \in AtKey => <<t, k>> = tx[c].at \/ Earlier(<<t, k>>, tx[c].at)

Sound(c) == Given(c) /\ Fitting(c) /\ Excused(c) /\ (Together => Ascending(c) /\ Behind(c))
Inv == Shaped /\ \A c \in Calls : Sound(c)

\* The call c moves and the others do not, and it locks its place at the most.
Moves(c) ==
    /\ \A d \in Calls \ {c} : /\ pc'[d] = pc[d] /\ call'[d] = call[d] /\ tx'[d] = tx[d]
                              /\ answer'[d] = answer[d]
    /\ \A r \in Places, d \in Calls \ {c} : held'[r] = d => held[r] = d
-------------------------------------------------------------------------------
(* The order of the tables and keys.                                        *)

LEMMA EarlierTransitive ==
    ASSUME NEW s \in Spots, NEW t \in Spots, NEW u \in Spots, Earlier(s, t), Earlier(t, u)
    PROVE  Earlier(s, u)
<1>1. /\ s[1] \in Tables /\ t[1] \in Tables /\ u[1] \in Tables
      /\ s[2] \in Keys /\ t[2] \in Keys /\ u[2] \in Keys
      /\ CellsOf(s[1]) # {} /\ CellsOf(t[1]) # {} /\ CellsOf(u[1]) # {}
  BY DEF Spots
<1>2. \A k \in Keys : KeyRank[k] \in Nat
  BY RankAssumption
<1>3. \A f \in Cells : CellRank[f] \in Nat
  BY RankAssumption
<1>4. CASE s[1] = t[1] /\ t[1] = u[1]
  BY <1>1, <1>2, <1>4 DEF Earlier
<1>5. CASE s[1] = t[1] /\ t[1] # u[1]
  BY <1>5 DEF Earlier
<1>6. CASE s[1] # t[1] /\ t[1] = u[1]
  BY <1>6 DEF Earlier
<1>7. CASE s[1] # t[1] /\ t[1] # u[1]
  <2>1. SideBySide(s[1], t[1]) /\ SideBySide(t[1], u[1])
    BY <1>7 DEF Earlier
  <2>2. PICK g \in CellsOf(t[1]) : TRUE
    BY <1>1
  <2>3. \A f \in CellsOf(s[1]), h \in CellsOf(u[1]) : CellRank[f] < CellRank[h]
    BY <1>3, <2>1, <2>2 DEF SideBySide, CellsOf
  <2>4. s[1] # u[1]
    BY <1>1, <1>3, <2>3 DEF CellsOf
  <2> QED
    BY <2>3, <2>4 DEF Earlier, SideBySide
<1> QED
  BY <1>4, <1>5, <1>6, <1>7

LEMMA EarlierIsStrict == ASSUME NEW s \in Spots PROVE ~Earlier(s, s)
BY RankAssumption DEF Earlier, Spots

LEMMA StepsAreSpots == ASSUME NEW in, NEW s \in Steps(in) PROVE s \in Spots
BY DEF Steps, Spots, Saying, Group

LEMMA PrecedesIsEarlier ==
    ASSUME Together, NEW in \in Bodies, NEW s \in Steps(in), NEW t \in Steps(in), Precedes(in, s, t)
    PROVE  Earlier(s, t)
<1>1. CASE s[1] = t[1]
  BY <1>1 DEF Precedes, Earlier
<1>2. CASE s[1] # t[1]
  <2>1. PICK f \in Group(in, s[1]) : \A g \in Group(in, t[1]) : CellRank[f] < CellRank[g]
    BY <1>2 DEF Precedes
  <2>2. PICK g \in Group(in, t[1]) : TRUE
    BY DEF Steps, Saying
  <2>3. f \in CellsOf(s[1]) /\ g \in CellsOf(t[1]) /\ CellRank[f] < CellRank[g]
    BY <2>1, <2>2 DEF Group
  <2>4. ~(CellRank[g] < CellRank[f])
    BY <2>3, RankAssumption DEF CellsOf
  <2>5. s[1] \in Tables /\ t[1] \in Tables
    BY DEF Steps
  <2> QED
    BY <1>2, <2>3, <2>4, <2>5 DEF Together, SideBySide, Earlier
<1> QED
  BY <1>1, <1>2
-------------------------------------------------------------------------------
(* The rows.                                                                *)

LEMMA OverFits ==
    ASSUME NEW v, NEW w, DOMAIN v \subseteq Places, DOMAIN w \subseteq Places,
           \A r \in DOMAIN v : Fits(r, v[r]), \A r \in DOMAIN w : Fits(r, w[r])
    PROVE  /\ DOMAIN Over(v, w) = DOMAIN v \cup DOMAIN w
           /\ \A r \in DOMAIN Over(v, w) : Fits(r, Over(v, w)[r])
BY DEF Over

LEMMA ClearedFits ==
    ASSUME NEW r \in Places, NEW row, Fits(r, row), row # Absent, NEW f \in CellsOf(r[1])
    PROVE  Fits(r, Cleared(row, f))
<1>1. /\ row \in [CellsOf(r[1]) -> Texts \cup {Empty, Null}]
      /\ \A g \in NotNull \cap CellsOf(r[1]) : row[g] # Null
  BY DEF Fits, RowsOf
<1>2. f \in Cells /\ Clears[f] \in {"null", "empty", "deleteRow"}
  BY ClearsAssumption DEF CellsOf
<1>3. CASE Clears[f] = "deleteRow"
  BY <1>3 DEF Cleared, Fits
<1>4. CASE Clears[f] = "empty"
  <2>1. Cleared(row, f) = [row EXCEPT ![f] = Empty]
    BY <1>4 DEF Cleared
  <2>2. [row EXCEPT ![f] = Empty] \in [CellsOf(r[1]) -> Texts \cup {Empty, Null}]
    BY <1>1
  <2>3. \A g \in NotNull \cap CellsOf(r[1]) : [row EXCEPT ![f] = Empty][g] # Null
    BY <1>1, TextsAssumption
  <2> QED
    BY <2>1, <2>2, <2>3 DEF Fits, RowsOf
<1>5. CASE Clears[f] = "null"
  <2>1. Cleared(row, f) = [row EXCEPT ![f] = Null]
    BY <1>5 DEF Cleared
  <2>2. [row EXCEPT ![f] = Null] \in [CellsOf(r[1]) -> Texts \cup {Empty, Null}]
    BY <1>1
  <2>3. f \notin NotNull
    BY <1>5, ClearsAssumption
  <2>4. \A g \in NotNull \cap CellsOf(r[1]) : [row EXCEPT ![f] = Null][g] # Null
    BY <1>1, <2>3
  <2> QED
    BY <2>1, <2>2, <2>4 DEF Fits, RowsOf
<1> QED
  BY <1>2, <1>3, <1>4, <1>5

\* The row as the upsert leaves it.
Upserted(in, s, old) ==
    Over([f \in ToSet(in, s) |-> in[f][s[2]]], IF old = Absent THEN [f \in CellsOf(s[1]) |-> Null] ELSE old)

LEMMA UpsertedFits ==
    ASSUME NEW in \in Bodies, NEW s \in Steps(in), NEW p \in Parents, NEW old,
           Fits(<<s[1], p, s[2]>>, old), Admitted(s[1], ToSet(in, s))
    PROVE  /\ Fits(<<s[1], p, s[2]>>, Upserted(in, s, old))
           /\ Upserted(in, s, old) \in RowsOf(s[1])
           /\ \A f \in CellsOf(s[1]) : Upserted(in, s, old)[f] =
                  IF f \in ToSet(in, s) THEN in[f][s[2]] ELSE IF old = Absent THEN Null ELSE old[f]
<1> DEFINE base == IF old = Absent THEN [f \in CellsOf(s[1]) |-> Null] ELSE old
           new  == [f \in ToSet(in, s) |-> in[f][s[2]]]
<1>1. /\ base \in [CellsOf(s[1]) -> Texts \cup {Empty, Null}]
      /\ \A f \in NotNull \cap CellsOf(s[1]) : f \notin ToSet(in, s) => base[f] # Null
  BY DEF Fits, RowsOf, Admitted, Inserts
<1>2. ToSet(in, s) \subseteq CellsOf(s[1]) /\ \A f \in ToSet(in, s) : in[f][s[2]] \in Texts
  BY DEF ToSet, Saying, Group
<1>3. Upserted(in, s, old) = Over(new, base)
  BY DEF Upserted
<1>9. \A f \in CellsOf(s[1]) : base[f] = IF old = Absent THEN Null ELSE old[f]
  OBVIOUS
<1> HIDE DEF base
<1>4. DOMAIN Over(new, base) = CellsOf(s[1])
  BY <1>1, <1>2 DEF Over
<1>5. \A f \in CellsOf(s[1]) : Over(new, base)[f] = IF f \in ToSet(in, s) THEN in[f][s[2]] ELSE base[f]
  BY <1>1, <1>2 DEF Over
<1>6. Over(new, base) = [f \in CellsOf(s[1]) |-> Over(new, base)[f]]
  BY <1>4 DEF Over
<1>7. Over(new, base) \in [CellsOf(s[1]) -> Texts \cup {Empty, Null}]
  BY <1>1, <1>2, <1>5, <1>6
<1>8. \A f \in NotNull \cap CellsOf(s[1]) : Over(new, base)[f] # Null
  BY <1>1, <1>2, <1>5, TextsAssumption
<1>10. Fits(<<s[1], p, s[2]>>, Upserted(in, s, old)) /\ Upserted(in, s, old) \in RowsOf(s[1])
  BY <1>3, <1>7, <1>8 DEF Fits, RowsOf
<1> QED
  BY <1>3, <1>5, <1>9, <1>10

\* What a save sees.
LEMMA ViewFits ==
    ASSUME Inv, NEW c \in Calls
    PROVE  DOMAIN View(c) = Places /\ \A r \in Places : Fits(r, View(c)[r])
<1>1. DOMAIN View(c) = DOMAIN tx[c].writes \cup DOMAIN rows
  BY OverFits DEF Inv, Sound, Fitting, Shaped, View
<1>2. \A r \in DOMAIN View(c) : Fits(r, View(c)[r])
  BY OverFits DEF Inv, Sound, Fitting, Shaped, View
<1> QED
  BY <1>1, <1>2 DEF Inv, Sound, Fitting, Shaped
-------------------------------------------------------------------------------
(* The steps.                                                               *)

LEMMA OthersAsBefore ==
    ASSUME Inv, NEW c \in Calls, Moves(c), NEW d \in Calls \ {c}
    PROVE  Sound(d)'
<1>1. pc'[d] = pc[d] /\ call'[d] = call[d] /\ tx'[d] = tx[d] /\ answer'[d] = answer[d]
  BY DEF Moves
<1>2. Parent(d)' = Parent(d) /\ In(d)' = In(d) /\ (d \in Open <=> (d \in Open)')
  BY <1>1 DEF Parent, In, Open
<1>3. \A t \in Tables, p \in Parents, k \in Keys : held'[<<t, p, k>>] = d => held[<<t, p, k>>] = d
  BY DEF Moves, Places
<1>4. Sound(d)
  BY DEF Inv
<1>5. (Given(d) /\ Fitting(d) /\ Excused(d))'
  BY <1>1, <1>2, <1>4 DEF Sound, Given, Fitting, Excused
<1>6. (Together => Ascending(d) /\ Behind(d))'
  BY <1>1, <1>2, <1>3, <1>4 DEF Sound, Ascending, Behind
<1> QED
  BY <1>5, <1>6 DEF Sound

LEMMA StepsOfBody ==
    ASSUME NEW in \in Bodies
    PROVE  /\ Written(in) \subseteq Cells
           /\ Steps(in) \subseteq Tables \X Keys
           /\ \A s \in Steps(in) : ToClear(in, s) \subseteq CellsOf(s[1])
BY BodiesAssumption DEF Written, Steps, ToClear, Saying, Group

LEMMA StartKeeps ==
    ASSUME Inv, NEW c \in Calls, Start(c)
    PROVE  Inv'
<1>1. PICK p \in Parents, in \in Bodies :
        /\ call' = [call EXCEPT ![c] = [parent |-> p, in |-> in]]
        /\ tx' = [tx EXCEPT ![c].todo = Steps(in), ![c].unread = Written(in)]
        /\ Goto(c, Onward(Steps(in), Written(in)))
  BY DEF Start
<1>2. /\ pc[c] = "idle" /\ UNCHANGED <<rows, held, answer>> /\ answer[c] = None
      /\ tx[c] = NoTx
  BY DEF Start, Inv, Shaped, Sound, Given, Open
<1>3. tx'[c] = [NoTx EXCEPT !.todo = Steps(in), !.unread = Written(in)]
  BY <1>1, <1>2 DEF Inv, Shaped
<1>4. call'[c] = [parent |-> p, in |-> in] /\ pc'[c] \in {"key", "echo", "commit"}
  BY <1>1 DEF Inv, Shaped, Goto, Onward
<1>5. Moves(c)
  BY <1>1, <1>2 DEF Goto, Inv, Shaped, Moves
<1>6. Shaped'
  <2>1. call' \in [Calls -> [parent : Parents, in : Bodies] \cup {None}]
    BY <1>1 DEF Inv, Shaped
  <2>2. pc' \in [Calls -> Stage]
    BY <1>1, <1>4 DEF Inv, Shaped, Goto, Stage
  <2>3. DOMAIN tx' = Calls /\ \A d \in Calls : DOMAIN tx'[d] = DOMAIN NoTx
    BY <1>1, <1>3 DEF Inv, Shaped, NoTx
  <2>4. \A d \in Calls : pc'[d] # "done" => answer'[d] = None
    BY <1>1, <1>2 DEF Goto, Inv, Shaped
  <2> QED
    BY <1>2, <2>1, <2>2, <2>3, <2>4 DEF Inv, Shaped
<1>7. Given(c)'
  <2>1. Parent(c)' = p /\ In(c)' = in /\ (c \in Open)' /\ pc'[c] \notin AtKey
    BY <1>4 DEF Parent, In, Open, AtKey
  <2>2. tx'[c].todo = Steps(in) /\ tx'[c].unread = Written(in) /\ tx'[c].clears = {}
    BY <1>3 DEF NoTx
  <2> QED
    BY <2>1, <2>2 DEF Given, AtKey
<1>8. Fitting(c)' /\ Excused(c)'
  <2>1. tx'[c].writes = <<>>
    BY <1>3 DEF NoTx
  <2>2. answer'[c] # "refused"
    BY <1>2, SentinelAssumption
  <2> QED
    BY <2>1, <2>2 DEF Fitting, Excused
<1>9. Together => Ascending(c)' /\ Behind(c)'
  <2> SUFFICES ASSUME Together PROVE Ascending(c)' /\ Behind(c)'
    OBVIOUS
  <2>1. \A t \in Tables, q \in Parents, k \in Keys : held[<<t, q, k>>] # c
    BY <1>2 DEF Inv, Sound, Behind, Open
  <2> QED
    BY <1>2, <1>4, <2>1 DEF Ascending, Behind, AtKey
<1> QED
  BY <1>5, <1>6, <1>7, <1>8, <1>9, OthersAsBefore DEF Inv, Sound, Together

LEMMA TakeKeyKeeps ==
    ASSUME Inv, NEW c \in Calls, TakeKey(c)
    PROVE  Inv'
<1>1. PICK s \in tx[c].todo : (\A t \in tx[c].todo \ {s} : Precedes(In(c), s, t)) /\ Take(c, s)
  BY DEF TakeKey
<1>2. /\ tx' = [tx EXCEPT ![c].todo = @ \ {s}, ![c].at = s, ![c].clears = ToClear(In(c), s)]
      /\ pc[c] = "key" /\ pc' = [pc EXCEPT ![c] = "clear"]
      /\ UNCHANGED <<rows, held, call, answer>>
  BY <1>1 DEF Take, Goto
<1>3. tx'[c] = [tx[c] EXCEPT !.todo = @ \ {s}, !.at = s, !.clears = ToClear(In(c), s)]
  BY <1>2 DEF Inv, Shaped
<1>4. /\ DOMAIN tx'[c] = DOMAIN NoTx
      /\ tx'[c].todo = tx[c].todo \ {s} /\ tx'[c].at = s /\ tx'[c].clears = ToClear(In(c), s)
      /\ tx'[c].writes = tx[c].writes /\ tx'[c].unread = tx[c].unread
  BY <1>3 DEF Inv, Shaped, NoTx
<1>5. pc'[c] = "clear" /\ Parent(c)' = Parent(c) /\ In(c)' = In(c) /\ c \in Open /\ (c \in Open)'
  BY <1>2 DEF Inv, Shaped, Parent, In, Open
<1>6. Moves(c)
  BY <1>2 DEF Inv, Shaped, Moves
<1>7. Shaped'
  BY <1>2, <1>4 DEF Inv, Shaped, Stage
<1>8. /\ Parent(c) \in Parents /\ In(c) \in Bodies
      /\ tx[c].todo \subseteq Steps(In(c)) /\ tx[c].unread \subseteq Written(In(c))
  BY <1>5 DEF Inv, Sound, Given
<1>9. Given(c)' /\ Fitting(c)' /\ Excused(c)'
  <2>1. Given(c)'
    BY <1>4, <1>5, <1>8 DEF Given, AtKey
  <2>2. Fitting(c)' /\ Excused(c)'
    BY <1>2, <1>4, <1>5 DEF Inv, Sound, Fitting, Excused
  <2> QED
    BY <2>1, <2>2
<1>10. Together => Ascending(c)' /\ Behind(c)'
  <2> SUFFICES ASSUME Together PROVE Ascending(c)' /\ Behind(c)'
    OBVIOUS
  <2>1. \A t \in tx[c].todo \ {s} : Earlier(s, t)
    BY <1>1, <1>8, PrecedesIsEarlier
  <2>2. Ascending(c)'
    BY <1>4, <2>1 DEF Ascending
  <2>3. Behind(c)'
    BY <1>1, <1>2, <1>4, <1>5 DEF Inv, Sound, Behind
  <2> QED
    BY <2>2, <2>3
<1> QED
  BY <1>6, <1>7, <1>9, <1>10, OthersAsBefore DEF Inv, Sound, Together

\* A step of a save that is open and stays so leaves what was to do; it may lock
\* and write its place.
LEMMA WorkKeeps ==
    ASSUME Inv, NEW c \in Calls, Moves(c), Shaped', c \in Open, (c \in Open)', Given(c)', Fitting(c)',
           UNCHANGED <<call, answer>>, tx'[c].todo = tx[c].todo, tx'[c].at = tx[c].at,
           pc'[c] \in AtKey => pc[c] \in AtKey,
           held' = held \/ (pc[c] \in AtKey /\ held' = [held EXCEPT ![Place(c)] = c])
    PROVE  Inv'
<1>1. Parent(c)' = Parent(c) /\ In(c)' = In(c) /\ Sound(c) /\ Given(c)
  BY DEF Parent, In, Inv, Sound
<1>2. Excused(c)'
  BY <1>1 DEF Sound, Excused
<1>3. Together => Ascending(c)' /\ Behind(c)'
  <2> SUFFICES ASSUME Together PROVE Ascending(c)' /\ Behind(c)'
    OBVIOUS
  <2>1. Ascending(c)'
    BY <1>1 DEF Sound, Ascending
  <2>2. ASSUME NEW t \in Tables, NEW p \in Parents, NEW k \in Keys, held'[<<t, p, k>>] = c
        PROVE  /\ p = Parent(c) /\ <<t, k>> \in Spots
               /\ \A s \in tx[c].todo : Earlier(<<t, k>>, s)
               /\ pc'[c] \in AtKey => <<t, k>> = tx[c].at \/ Earlier(<<t, k>>, tx[c].at)
    <3>1. CASE held[<<t, p, k>>] = c
      BY <1>1, <3>1 DEF Sound, Behind
    <3>2. CASE held[<<t, p, k>>] # c
      <4>1. pc[c] \in AtKey /\ <<t, p, k>> = Place(c)
        BY <2>2, <3>2 DEF Inv, Shaped, Places
      <4>2. tx[c].at \in Spots /\ tx[c].at \in Tables \X Keys
        BY <1>1, <4>1, StepsAreSpots DEF Given, Spots
      <4>3. p = Parent(c) /\ <<t, k>> = tx[c].at
        BY <4>1, <4>2 DEF Place
      <4> QED
        BY <1>1, <4>1, <4>2, <4>3 DEF Sound, Ascending
    <3> QED
      BY <3>1, <3>2
  <2>3. Behind(c)'
    BY <1>1, <2>2 DEF Behind
  <2> QED
    BY <2>1, <2>3
<1> QED
  BY <1>2, <1>3, OthersAsBefore DEF Inv, Sound, Together

LEMMA ClearKeeps ==
    ASSUME Inv, NEW c \in Calls, Clear(c)
    PROVE  Inv'
<1>1. pc[c] = "clear" /\ UNCHANGED <<rows, pc, call, answer>>
  BY DEF Clear, Runs
<1>2. /\ Parent(c) \in Parents /\ In(c) \in Bodies
      /\ tx[c].todo \subseteq Steps(In(c)) /\ tx[c].unread \subseteq Written(In(c))
      /\ tx[c].at \in Steps(In(c)) /\ tx[c].clears \subseteq ToClear(In(c), tx[c].at)
  BY <1>1 DEF Inv, Sound, Given, Open, AtKey
<1>3. tx[c].at \in Tables \X Keys /\ Place(c) \in Places /\ Place(c)[1] = tx[c].at[1]
  BY <1>2, StepsOfBody DEF Place, Places
<1>4. /\ \A d \in Calls \ {c} : tx'[d] = tx[d]
      /\ DOMAIN tx' = Calls /\ DOMAIN tx'[c] = DOMAIN NoTx
      /\ tx'[c].todo = tx[c].todo /\ tx'[c].at = tx[c].at /\ tx'[c].unread = tx[c].unread
      /\ tx'[c].clears \subseteq tx[c].clears
      /\ Fitting(c)'
      /\ held' = held \/ held' = [held EXCEPT ![Place(c)] = c]
  <2>1. PICK f \in tx[c].clears :
          LET old  == View(c)[Place(c)]
              left == [tx EXCEPT ![c].clears = @ \ {f}]
          IN IF old = Absent THEN tx' = left /\ UNCHANGED held
             ELSE /\ tx' = [left EXCEPT ![c].writes =
                               Over([r \in {Place(c)} |-> Cleared(old, f)], @)]
                  /\ held' = [held EXCEPT ![Place(c)] = c]
    BY DEF Clear
  <2> DEFINE left == [tx EXCEPT ![c].clears = @ \ {f}]
             row  == Cleared(View(c)[Place(c)], f)
             w    == Over([r \in {Place(c)} |-> row], tx[c].writes)
  <2>2. left[c] = [tx[c] EXCEPT !.clears = @ \ {f}] /\ DOMAIN left = Calls
        /\ \A d \in Calls \ {c} : left[d] = tx[d]
    BY DEF Inv, Shaped
  <2>3. /\ DOMAIN left[c] = DOMAIN NoTx /\ left[c].todo = tx[c].todo /\ left[c].at = tx[c].at
        /\ left[c].clears = tx[c].clears \ {f} /\ left[c].writes = tx[c].writes
        /\ left[c].unread = tx[c].unread
    BY <2>2 DEF Inv, Shaped, NoTx
  <2>4. CASE View(c)[Place(c)] = Absent
    <3>1. tx' = left /\ held' = held
      BY <2>1, <2>4
    <3>2. Fitting(c)'
      BY <2>3, <3>1 DEF Inv, Sound, Fitting
    <3> QED
      BY <2>2, <2>3, <3>1, <3>2
  <2>5. CASE View(c)[Place(c)] # Absent
    <3>1. tx' = [left EXCEPT ![c].writes = w] /\ held' = [held EXCEPT ![Place(c)] = c]
      BY <2>1, <2>3, <2>5
    <3>2. /\ tx'[c] = [left[c] EXCEPT !.writes = w] /\ DOMAIN tx' = Calls
          /\ \A d \in Calls \ {c} : tx'[d] = tx[d]
      BY <2>2, <3>1
    <3>3. /\ DOMAIN tx'[c] = DOMAIN NoTx /\ tx'[c].todo = tx[c].todo /\ tx'[c].at = tx[c].at
          /\ tx'[c].clears = tx[c].clears \ {f} /\ tx'[c].unread = tx[c].unread
          /\ tx'[c].writes = w
      BY <2>3, <3>2 DEF NoTx
    <3>4. f \in CellsOf(Place(c)[1])
      BY <1>2, <1>3, StepsOfBody
    <3>5. Fits(Place(c), row)
      BY <1>3, <2>5, <3>4, ViewFits, ClearedFits
    <3>6. DOMAIN w \subseteq Places /\ \A r \in DOMAIN w : Fits(r, w[r])
      <4>1. DOMAIN tx[c].writes \subseteq Places /\ \A r \in DOMAIN tx[c].writes : Fits(r, tx[c].writes[r])
        BY DEF Inv, Sound, Fitting
      <4> DEFINE v == [r \in {Place(c)} |-> row]
      <4>2. DOMAIN v \subseteq Places /\ \A r \in DOMAIN v : Fits(r, v[r])
        BY <1>3, <3>5
      <4>3. DOMAIN v = {Place(c)}
        OBVIOUS
      <4> HIDE DEF v
      <4>4. DOMAIN Over(v, tx[c].writes) \subseteq Places
            /\ \A r \in DOMAIN Over(v, tx[c].writes) : Fits(r, Over(v, tx[c].writes)[r])
        BY <1>3, <4>1, <4>2, OverFits
      <4> QED
        BY <4>4 DEF v
    <3>7. Fitting(c)'
      BY <3>3, <3>6 DEF Fitting
    <3> QED
      BY <3>1, <3>2, <3>3, <3>7
  <2> QED
    BY <2>4, <2>5
<1>5. Moves(c)
  BY <1>1, <1>3, <1>4 DEF Moves, Inv, Shaped
<1>6. Shaped'
  BY <1>1, <1>3, <1>4 DEF Inv, Shaped
<1>7. c \in Open /\ (c \in Open)' /\ Parent(c)' = Parent(c) /\ In(c)' = In(c) /\ pc[c] \in AtKey
  BY <1>1 DEF Open, Parent, In, AtKey
<1>8. Given(c)'
  BY <1>1, <1>2, <1>4, <1>7 DEF Given
<1> QED
  BY <1>1, <1>4, <1>5, <1>6, <1>7, <1>8, WorkKeeps

LEMMA ClearsDoneKeeps ==
    ASSUME Inv, NEW c \in Calls, ClearsDone(c)
    PROVE  Inv'
<1>1. /\ pc[c] = "clear" /\ UNCHANGED <<rows, held, call, tx, answer>> /\ tx[c].clears = {}
      /\ pc' = [pc EXCEPT ![c] = IF ToSet(In(c), tx[c].at) # {} THEN "upsert" ELSE AfterKey(c)]
  BY DEF ClearsDone, Goto
<1>2. pc'[c] \in {"upsert", "key", "echo", "commit"} /\ (pc'[c] = "upsert" => ToSet(In(c), tx[c].at) # {})
  BY <1>1 DEF AfterKey, Onward, Inv, Shaped
<1>3. c \in Open /\ (c \in Open)' /\ Parent(c)' = Parent(c) /\ In(c)' = In(c) /\ pc[c] \in AtKey
  BY <1>1, <1>2 DEF Open, Parent, In, AtKey
<1>4. Given(c)' /\ Fitting(c)'
  BY <1>1, <1>2, <1>3 DEF Inv, Sound, Given, Fitting, AtKey
<1>5. Moves(c) /\ Shaped'
  BY <1>1, <1>2 DEF Inv, Shaped, Moves, Stage
<1> QED
  BY <1>1, <1>3, <1>4, <1>5, WorkKeeps

LEMMA UpsertKeeps ==
    ASSUME Inv, NEW c \in Calls, Upsert(c)
    PROVE  Inv'
<1> DEFINE row == Upserted(In(c), tx[c].at, View(c)[Place(c)])
           v   == [r \in {Place(c)} |-> row]
           w   == Over(v, tx[c].writes)
<1>1. /\ pc[c] = "upsert" /\ Admitted(tx[c].at[1], ToSet(In(c), tx[c].at))
      /\ held' = [held EXCEPT ![Place(c)] = c] /\ UNCHANGED <<rows, call, answer>>
      /\ pc' = [pc EXCEPT ![c] = AfterKey(c)]
  BY DEF Upsert, Runs, Goto
<1>2. tx' = [tx EXCEPT ![c].writes = w]
  BY DEF Upsert, Upserted, Inv, Shaped
<1>3. /\ Parent(c) \in Parents /\ In(c) \in Bodies
      /\ tx[c].todo \subseteq Steps(In(c)) /\ tx[c].unread \subseteq Written(In(c))
      /\ tx[c].at \in Steps(In(c)) /\ tx[c].clears \subseteq ToClear(In(c), tx[c].at)
  BY <1>1 DEF Inv, Sound, Given, Open, AtKey
<1>4. /\ tx[c].at \in Tables \X Keys /\ Place(c) \in Places
      /\ Place(c) = <<tx[c].at[1], Parent(c), tx[c].at[2]>>
  BY <1>3, StepsOfBody DEF Place, Places
<1>5. Fits(Place(c), row)
  BY <1>1, <1>3, <1>4, ViewFits, UpsertedFits
<1>6. DOMAIN v = {Place(c)} /\ \A r \in DOMAIN v : Fits(r, v[r])
  BY <1>5
<1> HIDE DEF v
<1>7. DOMAIN w \subseteq Places /\ \A r \in DOMAIN w : Fits(r, w[r])
  <2>1. DOMAIN tx[c].writes \subseteq Places /\ \A r \in DOMAIN tx[c].writes : Fits(r, tx[c].writes[r])
    BY DEF Inv, Sound, Fitting
  <2>2. DOMAIN v \subseteq Places
    BY <1>4, <1>6
  <2> DEFINE old == tx[c].writes
  <2> HIDE DEF old
  <2>3. DOMAIN Over(v, old) = DOMAIN v \cup DOMAIN old /\ \A r \in DOMAIN Over(v, old) : Fits(r, Over(v, old)[r])
    BY <1>6, <2>1, <2>2, OverFits DEF old
  <2> QED
    BY <2>1, <2>2, <2>3 DEF old
<1> HIDE DEF w
<1>8. tx'[c] = [tx[c] EXCEPT !.writes = w] /\ DOMAIN tx' = Calls
      /\ \A d \in Calls \ {c} : tx'[d] = tx[d]
  BY <1>2 DEF Inv, Shaped
<1>9. /\ DOMAIN tx'[c] = DOMAIN NoTx /\ tx'[c].todo = tx[c].todo /\ tx'[c].at = tx[c].at
      /\ tx'[c].clears = tx[c].clears /\ tx'[c].unread = tx[c].unread /\ tx'[c].writes = w
  BY <1>8 DEF Inv, Shaped, NoTx
<1>10. pc'[c] \in {"key", "echo", "commit"}
  BY <1>1 DEF AfterKey, Onward, Inv, Shaped
<1>11. c \in Open /\ (c \in Open)' /\ Parent(c)' = Parent(c) /\ In(c)' = In(c) /\ pc[c] \in AtKey
  BY <1>1, <1>10 DEF Open, Parent, In, AtKey
<1>12. Fitting(c)'
  BY <1>7, <1>9 DEF Fitting
<1>13. Given(c)'
  <2>1. tx[c].clears = {}
    BY <1>1, <1>11 DEF Inv, Sound, Given
  <2> QED
    BY <1>3, <1>9, <1>10, <1>11, <2>1 DEF Given, AtKey
<1>14. Moves(c)
  BY <1>1, <1>4, <1>8 DEF Moves, Inv, Shaped
<1>15. Shaped'
  BY <1>1, <1>4, <1>8, <1>9, <1>10 DEF Inv, Shaped, Stage
<1> QED
  BY <1>1, <1>9, <1>10, <1>11, <1>12, <1>13, <1>14, <1>15, WorkKeeps DEF AtKey

LEMMA EchoKeeps ==
    ASSUME Inv, NEW c \in Calls, Echo(c)
    PROVE  Inv'
<1>1. PICK f \in tx[c].unread : EchoAs(c, f, Read(View(c), Parent(c), f))
  BY DEF Echo
<1> DEFINE e == Over([g \in {f} |-> Read(View(c), Parent(c), f)], tx[c].echo)
<1>2. /\ pc[c] = "echo" /\ UNCHANGED <<rows, held, call, answer>>
      /\ tx' = [tx EXCEPT ![c].unread = tx[c].unread \ {f}, ![c].echo = e]
      /\ pc' = [pc EXCEPT ![c] = Onward({}, tx[c].unread \ {f})]
  BY <1>1 DEF EchoAs, Goto, Inv, Shaped
<1> HIDE DEF e
<1>3. tx'[c] = [tx[c] EXCEPT !.unread = tx[c].unread \ {f}, !.echo = e]
  BY <1>2 DEF Inv, Shaped
<1>4. /\ DOMAIN tx'[c] = DOMAIN NoTx /\ tx'[c].todo = tx[c].todo /\ tx'[c].at = tx[c].at
      /\ tx'[c].clears = tx[c].clears /\ tx'[c].writes = tx[c].writes
      /\ tx'[c].unread \subseteq tx[c].unread
  BY <1>3 DEF Inv, Shaped, NoTx
<1>5. pc'[c] \in {"echo", "commit"}
  BY <1>2 DEF Onward, Inv, Shaped
<1>6. c \in Open /\ (c \in Open)' /\ Parent(c)' = Parent(c) /\ In(c)' = In(c)
  BY <1>2, <1>5 DEF Open, Parent, In
<1>7. Given(c)' /\ Fitting(c)'
  BY <1>2, <1>4, <1>5, <1>6 DEF Inv, Sound, Given, Fitting, AtKey
<1>8. Moves(c) /\ Shaped'
  BY <1>2, <1>4, <1>5 DEF Inv, Shaped, Moves, Stage
<1> QED
  BY <1>2, <1>4, <1>5, <1>6, <1>7, <1>8, WorkKeeps DEF AtKey

LEMMA EndKeeps ==
    ASSUME Inv, NEW c \in Calls, NEW a \in {"ok", "err", "refused"}, Return(c, a),
           a = "refused" => \E s \in Steps(In(c)) : Partial(In(c), s),
           rows' \in {rows, View(c)}
    PROVE  Inv'
<1>1. /\ tx' = [tx EXCEPT ![c] = NoTx] /\ pc' = [pc EXCEPT ![c] = "done"]
      /\ answer' = [answer EXCEPT ![c] = a] /\ call' = call
      /\ held' = [r \in Places |-> IF held[r] = c THEN None ELSE held[r]]
  BY DEF Return, Goto
<1>2. /\ tx'[c] = NoTx /\ pc'[c] = "done" /\ answer'[c] = a /\ In(c)' = In(c)
      /\ \A r \in Places : held'[r] # c
  BY <1>1, SentinelAssumption DEF Inv, Shaped, In
<1>3. Moves(c)
  BY <1>1, SentinelAssumption DEF Inv, Shaped, Moves
<1>4. DOMAIN rows' = Places /\ \A r \in Places : Fits(r, rows'[r])
  BY ViewFits DEF Inv, Shaped
<1>5. Shaped'
  BY <1>1, <1>2, <1>4 DEF Inv, Shaped, Stage
<1>6. Given(c)' /\ Fitting(c)' /\ Excused(c)'
  BY <1>2 DEF Given, Fitting, Excused, Open, NoTx
<1>7. Ascending(c)' /\ Behind(c)'
  BY <1>2 DEF Ascending, Behind, AtKey, Places
<1> QED
  BY <1>3, <1>5, <1>6, <1>7, OthersAsBefore DEF Inv, Sound, Together

LEMMA RefuseKeeps ==
    ASSUME Inv, NEW c \in Calls, Refuse(c)
    PROVE  Inv'
<1>1. tx[c].at \in Steps(In(c)) /\ ToSet(In(c), tx[c].at) # {}
  BY DEF Refuse, Inv, Sound, Given, Open, AtKey
<1>2. Partial(In(c), tx[c].at)
  BY <1>1 DEF Refuse, Admitted, Inserts, Partial
<1> QED
  BY <1>1, <1>2, EndKeeps DEF Refuse, Abort

LEMMA InvNext == ASSUME Inv, [Next]_vars PROVE Inv'
<1>1. CASE UNCHANGED vars
  <2>1. Shaped'
    BY <1>1 DEF vars, Inv, Shaped
  <2>2. ASSUME NEW c \in Calls PROVE Sound(c)'
    BY <1>1 DEF vars, Inv, Sound, Given, Fitting, Excused, Ascending, Behind, Open, Parent, In,
                Together
  <2> QED
    BY <2>1, <2>2 DEF Inv
<1>2. CASE Finished
  BY <1>1, <1>2 DEF Finished
<1>3. ASSUME NEW c \in Calls, Start(c) \/ Statement(c) \/ Fail(c)
      PROVE  Inv'
  <2>1. CASE Start(c)
    BY <2>1, StartKeeps
  <2>2. CASE TakeKey(c)
    BY <2>2, TakeKeyKeeps
  <2>3. CASE Clear(c)
    BY <2>3, ClearKeeps
  <2>4. CASE ClearsDone(c)
    BY <2>4, ClearsDoneKeeps
  <2>5. CASE Upsert(c)
    BY <2>5, UpsertKeeps
  <2>6. CASE Echo(c)
    BY <2>6, EchoKeeps
  <2>7. CASE Refuse(c)
    BY <2>7, RefuseKeeps
  <2>8. CASE Commit(c) \/ Fail(c)
    BY <2>8, EndKeeps DEF Commit, Fail, Abort
  <2> QED
    BY <1>3, <2>1, <2>2, <2>3, <2>4, <2>5, <2>6, <2>7, <2>8 DEF Statement
<1> QED
  BY <1>1, <1>2, <1>3 DEF Next

LEMMA InvInit == ASSUME Init PROVE Inv
<1>1. Shaped
  BY InitialRowsAssumption DEF Init, Shaped, Stage
<1>2. ASSUME NEW c \in Calls PROVE Sound(c)
  <2>1. pc[c] = "idle" /\ tx[c] = NoTx /\ answer[c] = None /\ \A r \in Places : held[r] # c
    BY SentinelAssumption DEF Init
  <2>2. Given(c) /\ Fitting(c) /\ Excused(c)
    BY <2>1, SentinelAssumption DEF Given, Fitting, Excused, Open, NoTx
  <2>3. Ascending(c) /\ Behind(c)
    BY <2>1 DEF Ascending, Behind, AtKey, Places
  <2> QED
    BY <2>2, <2>3 DEF Sound
<1> QED
  BY <1>1, <1>2 DEF Inv

LEMMA InvHolds == Spec => []Inv
<1>1. Init => Inv
  BY InvInit
<1>2. Inv /\ [Next]_vars => Inv'
  BY InvNext
<1> QED
  BY <1>1, <1>2, PTL DEF Spec
-------------------------------------------------------------------------------
\* The types, with the committed rows and those a save is about to commit: no
\* clearing and no upsert leaves NULL in a column that is NOT NULL.
THEOREM TypeCorrect == Spec => []TypeOK
<1>1. ASSUME Inv PROVE TypeOK
  <2>1. ASSUME NEW c \in Calls
        PROVE  /\ tx[c].todo \subseteq Tables \X Keys
               /\ tx[c].clears \subseteq Cells /\ tx[c].unread \subseteq Cells
    <3>1. CASE c \notin Open
      <4>1. tx[c] = NoTx
        BY <1>1, <3>1 DEF Inv, Sound, Given
      <4> QED
        BY <4>1 DEF NoTx
    <3>2. CASE c \in Open
      <4>1. /\ In(c) \in Bodies /\ tx[c].todo \subseteq Steps(In(c)) /\ tx[c].unread \subseteq Written(In(c))
            /\ tx[c].clears = {} \/ (tx[c].at \in Steps(In(c)) /\ tx[c].clears \subseteq ToClear(In(c), tx[c].at))
        BY <1>1, <3>2 DEF Inv, Sound, Given, AtKey
      <4> QED
        BY <4>1, StepsOfBody DEF CellsOf
    <3> QED
      BY <3>1, <3>2
  <2>2. \A c \in Calls : Fitting(c)
    BY <1>1 DEF Inv, Sound
  <2> QED
    BY <1>1, <2>1, <2>2 DEF TypeOK, Inv, Shaped, Fitting
<1> QED
  BY <1>1, InvHolds, PTL

\* satellite.go:233-241: a save is refused only if, of a row it fills in part, it
\* leaves out a field that is NOT NULL; whatever the row holds already.
THEOREM FullFormsPass == Spec => []FullFormsAreSaved
<1>1. Inv => FullFormsAreSaved
  BY DEF Inv, Sound, Excused, Partial, FullFormsAreSaved
<1> QED
  BY <1>1, InvHolds, PTL

\* satellite.go:248: the keys are sorted.  Whoever waits, waits for a save of
\* the same parent that, if it waits itself, does so at a later key or in a later
\* table; the order is strict, so no chain of waits is a circle.
THEOREM WaitsRise == Spec => []WaitsAscend
<1>1. ASSUME Inv, Together, NEW c \in Calls, NEW d \in Calls, d \in WaitsFor(c), WaitsFor(d) # {}
      PROVE  Parent(c) = Parent(d) /\ Earlier(tx[c].at, tx[d].at)
  <2>1. /\ pc[c] \in AtKey /\ pc[d] \in AtKey
        /\ held[Place(c)] = d /\ d # c /\ held[Place(d)] # d
    BY <1>1 DEF WaitsFor, AtKey
  <2>2. /\ tx[c].at \in Steps(In(c)) /\ Parent(c) \in Parents
        /\ tx[d].at \in Steps(In(d)) /\ Parent(d) \in Parents
    BY <1>1, <2>1 DEF Inv, Sound, Given, Open, AtKey
  <2>3. tx[c].at \in Tables \X Keys /\ tx[d].at \in Tables \X Keys
    BY <2>2 DEF Steps
  <2>4. Behind(d) /\ held[<<tx[c].at[1], Parent(c), tx[c].at[2]>>] = d
    BY <1>1, <2>1 DEF Inv, Sound, Place
  <2>5. Parent(c) = Parent(d) /\ (tx[c].at = tx[d].at \/ Earlier(tx[c].at, tx[d].at))
    BY <2>1, <2>2, <2>3, <2>4 DEF Behind
  <2>6. tx[c].at # tx[d].at
    BY <2>1, <2>5 DEF Place
  <2> QED
    BY <2>5, <2>6
<1>2. Inv => WaitsAscend
  BY <1>1 DEF WaitsAscend
<1> QED
  BY <1>2, InvHolds, PTL

\* A relation on a finite set that is an order does not go up for ever.
LEMMA OrderEnds ==
    ASSUME NEW S, IsFiniteSet(S), S # {}, NEW R,
           \A x \in S : <<x, x>> \notin R,
           \A x, y, z \in S : <<x, y>> \in R /\ <<y, z>> \in R => <<x, z>> \in R
    PROVE  \E x \in S : \A y \in S : <<x, y>> \notin R
<1> DEFINE Above(x) == {y \in S : <<x, y>> \in R}
           Sets == {Above(x) : x \in S}
<1>1. Sets \subseteq FiniteSubsetsOf(S) /\ Sets # {}
  <2>1. \A x \in S : Above(x) \in SUBSET S /\ IsFiniteSet(Above(x))
    BY FS_Subset
  <2> HIDE DEF Above
  <2>2. \A x \in S : Above(x) \in FiniteSubsetsOf(S)
    BY <2>1 DEF FiniteSubsetsOf
  <2> QED
    BY <2>2
<1>2. IsWellFoundedOn(StrictSubsetOrdering(S), FiniteSubsetsOf(S))
  BY FS_StrictSubsetOrderingWellFounded
<1>3. PICK A \in Sets : \A B \in Sets : <<B, A>> \notin StrictSubsetOrdering(S)
  <2> HIDE DEF Sets
  <2> QED
    BY <1>1, <1>2, WFMin
<1>4. PICK x \in S : A = Above(x)
  BY <1>3
<1>5. ASSUME NEW y \in S, <<x, y>> \in R PROVE FALSE
  <2>1. Above(y) \subseteq Above(x) /\ y \in Above(x) /\ y \notin Above(y)
    BY <1>5
  <2>2. <<Above(y), Above(x)>> \in StrictSubsetOrdering(S)
    BY <2>1 DEF StrictSubsetOrdering
  <2> QED
    BY <1>3, <1>4, <2>2
<1> QED
  BY <1>5

\* satellite.go:248: no set of saves wait for each other, whatever fields they
\* were sent, where the fields of a table are declared side by side: of the ones that
\* wait, one is at a last key.
THEOREM NoCircle ==
    ASSUME IsFiniteSet(Calls)
    PROVE  Spec => []NoneStuck
<1>1. ASSUME Inv, WaitsAscend, Together, NEW S \in SUBSET Open, Stuck(S) PROVE FALSE
  <2> DEFINE R == {p \in S \X S : Earlier(tx[p[1]].at, tx[p[2]].at)}
  <2>1. S # {} /\ IsFiniteSet(S) /\ S \subseteq Calls
    BY <1>1, FS_Subset DEF Stuck, Open
  <2>2. ASSUME NEW c \in S PROVE \E d \in S : <<c, d>> \in R
    <3>1. PICK d \in S : d \in WaitsFor(c)
      BY <1>1 DEF Stuck
    <3>2. WaitsFor(d) # {}
      BY <1>1 DEF Stuck
    <3>3. Earlier(tx[c].at, tx[d].at)
      BY <1>1, <2>1, <3>1, <3>2 DEF WaitsAscend
    <3> QED
      BY <3>3
  <2>3. ASSUME NEW c \in S PROVE tx[c].at \in Spots
    <3>1. pc[c] \in AtKey
      BY <1>1 DEF Stuck, WaitsFor, AtKey
    <3>2. tx[c].at \in Steps(In(c))
      BY <1>1, <3>1 DEF Inv, Sound, Given, Open, AtKey
    <3> QED
      BY <3>2, StepsAreSpots
  <2>4. \A c \in S : <<c, c>> \notin R
    BY <2>3, EarlierIsStrict
  <2>5. \A c, d, e \in S : <<c, d>> \in R /\ <<d, e>> \in R => <<c, e>> \in R
    BY <2>3, EarlierTransitive
  <2>6. \E c \in S : \A d \in S : <<c, d>> \notin R
    <3> HIDE DEF R
    <3> QED
      BY <2>1, <2>4, <2>5, OrderEnds
  <2> QED
    BY <2>2, <2>6
<1>2. Inv /\ WaitsAscend => NoneStuck
  BY <1>1 DEF NoneStuck
<1> QED
  BY <1>2, InvHolds, WaitsRise, PTL
-------------------------------------------------------------------------------
(* What a save of keyed fields leaves and what the journal is told of it,  *)
(* where a save has written its main row first (LocksParent).              *)
(*                                                                         *)
(* The main row keeps the saves of a parent apart, so that the committed   *)
(* rows of an open save's parent stand still.  What the save sees of each  *)
(* field at each key is then either what is committed or what it was sent, *)
(* according to whether the loops have come to it.                         *)

Writing == {"key", "clear", "upsert"}

\* The text of a field at a key; all that is none is one.
Text(view, p, f, k) ==
    LET row == view[<<TableOf[f], p, k>>]
    IN IF row # Absent /\ row[f] \in Texts THEN row[f] ELSE Null

\* ... and what a body makes of it.
SavedText(in, f, k, old) ==
    IF f \in Written(in) /\ k \in DOMAIN in[f]
    THEN IF in[f][k] \in Texts THEN in[f][k] ELSE Null
    ELSE old

\* The loops have not come to this field at this key.
Pending(c, f, k) ==
    \/ <<TableOf[f], k>> \in tx[c].todo
    \/ pc[c] \in AtKey /\ <<TableOf[f], k>> = tx[c].at
         /\ (f \in tx[c].clears \/ f \in ToSet(In(c), tx[c].at))

\* The saves that are open are of parents of their own.
Apart == \A c, d \in Open : c # d => Parent(c) # Parent(d)

\* What is read back is what the save sees, once it has written everything.
Staged(c) ==
    /\ \A r \in DOMAIN tx[c].writes : r[2] = Parent(c)
    /\ pc[c] \in Writing => tx[c].unread = Written(In(c))
    /\ pc[c] \in AtKey => tx[c].at \notin tx[c].todo
    /\ pc[c] \in {"echo", "commit"} => tx[c].todo = {}
    /\ pc[c] = "commit" => tx[c].unread = {}
    /\ tx[c].echo = [f \in Written(In(c)) \ tx[c].unread |-> Read(View(c), Parent(c), f)]

Progress(c) ==
    \A f \in Cells, k \in Keys :
        LET old == Text(rows, Parent(c), f, k)
        IN Text(View(c), Parent(c), f, k) =
               IF Pending(c, f, k) THEN old ELSE SavedText(In(c), f, k, old)

Saving == Inv /\ Apart /\ \A c \in Open : Staged(c) /\ Progress(c)
-------------------------------------------------------------------------------
(* What is seen where.                                                      *)

LEMMA ViewAt ==
    ASSUME Inv, NEW c \in Calls, NEW r \in Places
    PROVE  View(c)[r] = IF r \in DOMAIN tx[c].writes THEN tx[c].writes[r] ELSE rows[r]
BY DEF View, Over, Inv, Shaped

LEMMA ViewAtNext ==
    ASSUME Inv', NEW c \in Calls, NEW r \in Places
    PROVE  View(c)'[r] = IF r \in DOMAIN tx'[c].writes THEN tx'[c].writes[r] ELSE rows'[r]
BY DEF View, Over, Inv, Shaped

LEMMA FieldPlace ==
    ASSUME NEW f \in Cells, NEW p \in Parents, NEW k \in Keys
    PROVE  <<TableOf[f], p, k>> \in Places /\ f \in CellsOf(TableOf[f]) /\ <<TableOf[f], k>> \in Tables \X Keys
BY TablesAssumption DEF Places, CellsOf

LEMMA SameRead ==
    ASSUME NEW v, NEW w, NEW p, NEW f,
           \A k \in Keys : v[<<TableOf[f], p, k>>] = w[<<TableOf[f], p, k>>]
    PROVE  Read(v, p, f) = Read(w, p, f)
BY DEF Read

\* Read by the texts.
LEMMA ReadTexts ==
    ASSUME NEW v, NEW p, NEW f
    PROVE  Read(v, p, f) = [k \in {l \in Keys \ {EmptyKey} : Text(v, p, f, l) \in Texts} |-> Text(v, p, f, k)]
BY TextsAssumption DEF Read, Text
-------------------------------------------------------------------------------
LEMMA OthersStand ==
    ASSUME Saving, NEW c \in Calls, Moves(c), NEW d \in Open \ {c}, Inv',
           \A r \in Places : r[2] = Parent(d) => rows'[r] = rows[r]
    PROVE  (Staged(d) /\ Progress(d))'
<1>1. d \in Calls /\ pc'[d] = pc[d] /\ call'[d] = call[d] /\ tx'[d] = tx[d]
  BY DEF Moves, Open
<1>2. Parent(d)' = Parent(d) /\ In(d)' = In(d) /\ Parent(d) \in Parents
  BY <1>1 DEF Parent, In, Saving, Inv, Sound, Given
<1>3. ASSUME NEW f \in Cells, NEW k \in Keys
      PROVE  /\ rows'[<<TableOf[f], Parent(d), k>>] = rows[<<TableOf[f], Parent(d), k>>]
             /\ View(d)'[<<TableOf[f], Parent(d), k>>] = View(d)[<<TableOf[f], Parent(d), k>>]
  <2> DEFINE r == <<TableOf[f], Parent(d), k>>
  <2>1. r \in Places /\ rows'[r] = rows[r]
    BY <1>2, FieldPlace
  <2>2. View(d)[r] = IF r \in DOMAIN tx[d].writes THEN tx[d].writes[r] ELSE rows[r]
    BY <1>1, <2>1, ViewAt DEF Saving
  <2>3. View(d)'[r] = IF r \in DOMAIN tx'[d].writes THEN tx'[d].writes[r] ELSE rows'[r]
    BY <1>1, <2>1, ViewAtNext
  <2> QED
    BY <1>1, <2>1, <2>2, <2>3
<1>4. Staged(d) /\ Progress(d)
  BY DEF Saving
<1>5. Written(In(d)) \subseteq Cells
  BY StepsOfBody DEF Saving, Inv, Sound, Given, Open
<1>6. Staged(d)'
  <2>1. \A f \in Written(In(d)) : Read(View(d)', Parent(d), f) = Read(View(d), Parent(d), f)
    BY <1>3, <1>5, SameRead
  <2> QED
    BY <1>1, <1>2, <1>4, <2>1 DEF Staged
<1>7. Progress(d)'
  <2> SUFFICES ASSUME NEW f \in Cells, NEW k \in Keys
               PROVE  (Text(View(d), Parent(d), f, k) =
                         IF Pending(d, f, k) THEN Text(rows, Parent(d), f, k)
                         ELSE SavedText(In(d), f, k, Text(rows, Parent(d), f, k)))'
    BY DEF Progress
  <2>1. /\ Text(View(d), Parent(d), f, k)' = Text(View(d), Parent(d), f, k)
        /\ Text(rows, Parent(d), f, k)' = Text(rows, Parent(d), f, k)
    BY <1>2, <1>3 DEF Text
  <2>2. Pending(d, f, k)' <=> Pending(d, f, k)
    BY <1>1, <1>2 DEF Pending
  <2> QED
    BY <1>2, <1>4, <2>1, <2>2 DEF Progress, SavedText
<1> QED
  BY <1>6, <1>7

\* A step in which no rows are committed.
LEMMA OneAtATime ==
    ASSUME LocksParent, Saving, NEW c \in Calls, Moves(c), Inv', rows' = rows,
           c \in Open => Parent(c)' = Parent(c),
           c \notin Open /\ (c \in Open)' => \A d \in Open : Parent(d) # Parent(c)',
           (c \in Open)' => Staged(c)' /\ Progress(c)'
    PROVE  Saving'
<1>1. \A d \in Calls \ {c} : Parent(d)' = Parent(d) /\ (d \in Open <=> (d \in Open)')
  BY DEF Moves, Parent, Open
<1>2. Apart'
  BY <1>1 DEF Saving, Apart, Open
<1>3. \A d \in Open \ {c} : (Staged(d) /\ Progress(d))'
  BY OthersStand
<1> QED
  BY <1>1, <1>2, <1>3 DEF Saving, Open

LEMMA StartSaves ==
    ASSUME LocksParent, Saving, NEW c \in Calls, Start(c), Inv'
    PROVE  Saving'
<1>1. PICK p \in Parents, in \in Bodies :
        /\ \A d \in Open : Parent(d) # p
        /\ call' = [call EXCEPT ![c] = [parent |-> p, in |-> in]]
        /\ tx' = [tx EXCEPT ![c].todo = Steps(in), ![c].unread = Written(in)]
        /\ Goto(c, Onward(Steps(in), Written(in)))
  BY DEF Start
<1>2. /\ pc[c] = "idle" /\ UNCHANGED <<rows, held, answer>> /\ tx[c] = NoTx /\ c \notin Open
  BY DEF Start, Saving, Inv, Sound, Given, Open
<1>3. tx'[c] = [NoTx EXCEPT !.todo = Steps(in), !.unread = Written(in)]
  BY <1>1, <1>2 DEF Saving, Inv, Shaped
<1>4. tx'[c].todo = Steps(in) /\ tx'[c].unread = Written(in) /\ tx'[c].writes = <<>> /\ tx'[c].echo = <<>>
  BY <1>3 DEF NoTx
<1>5. call'[c] = [parent |-> p, in |-> in] /\ pc'[c] = Onward(Steps(in), Written(in))
  BY <1>1 DEF Saving, Inv, Shaped, Goto
<1>6. Parent(c)' = p /\ In(c)' = in
  BY <1>5 DEF Parent, In
<1>7. Moves(c)
  BY <1>1, <1>2 DEF Goto, Saving, Inv, Shaped, Moves
<1>8. \A r \in Places : View(c)'[r] = rows[r]
  BY <1>2, <1>4, ViewAtNext
<1>9. Staged(c)'
  <2>1. pc'[c] \notin AtKey
    BY <1>5 DEF Onward, AtKey
  <2>2. pc'[c] \in {"echo", "commit"} => Steps(in) = {}
    BY <1>5 DEF Onward
  <2>3. pc'[c] = "commit" => Written(in) = {}
    BY <1>5 DEF Onward
  <2>4. tx'[c].echo = [f \in Written(in) \ Written(in) |-> Read(View(c)', p, f)]
    BY <1>4
  <2> QED
    BY <1>4, <1>6, <2>1, <2>2, <2>3, <2>4 DEF Staged
<1>10. Progress(c)'
  <2> SUFFICES ASSUME NEW f \in Cells, NEW k \in Keys
               PROVE  (Text(View(c), Parent(c), f, k) =
                         IF Pending(c, f, k) THEN Text(rows, Parent(c), f, k)
                         ELSE SavedText(In(c), f, k, Text(rows, Parent(c), f, k)))'
    BY DEF Progress
  <2>1. Text(View(c), Parent(c), f, k)' = Text(rows, Parent(c), f, k)'
    BY <1>2, <1>6, <1>8, FieldPlace DEF Text
  <2>2. CASE f \in Written(in) /\ k \in DOMAIN in[f]
    <3>1. <<TableOf[f], k>> \in Steps(in)
      BY <2>2, TablesAssumption DEF Steps, Saying, Group, CellsOf
    <3> QED
      BY <1>4, <2>1, <3>1 DEF Pending
  <2>3. CASE ~(f \in Written(in) /\ k \in DOMAIN in[f])
    BY <1>6, <2>1, <2>3 DEF SavedText
  <2> QED
    BY <2>2, <2>3
<1> QED
  BY <1>1, <1>2, <1>6, <1>7, <1>9, <1>10, OneAtATime

LEMMA TakeKeySaves ==
    ASSUME LocksParent, Saving, NEW c \in Calls, TakeKey(c), Inv'
    PROVE  Saving'
<1>1. PICK s \in tx[c].todo : Take(c, s)
  BY DEF TakeKey
<1>2. /\ tx' = [tx EXCEPT ![c].todo = @ \ {s}, ![c].at = s, ![c].clears = ToClear(In(c), s)]
      /\ pc[c] = "key" /\ pc' = [pc EXCEPT ![c] = "clear"]
      /\ UNCHANGED <<rows, held, call, answer>>
  BY <1>1 DEF Take, Goto
<1>3. tx'[c] = [tx[c] EXCEPT !.todo = @ \ {s}, !.at = s, !.clears = ToClear(In(c), s)]
  BY <1>2 DEF Saving, Inv, Shaped
<1>4. /\ tx'[c].todo = tx[c].todo \ {s} /\ tx'[c].at = s /\ tx'[c].clears = ToClear(In(c), s)
      /\ tx'[c].writes = tx[c].writes /\ tx'[c].unread = tx[c].unread /\ tx'[c].echo = tx[c].echo
  BY <1>3 DEF Saving, Inv, Shaped, NoTx
<1>5. pc'[c] = "clear" /\ Parent(c)' = Parent(c) /\ In(c)' = In(c) /\ c \in Open
  BY <1>2 DEF Saving, Inv, Shaped, Parent, In, Open
<1>6. Moves(c)
  BY <1>2 DEF Saving, Inv, Shaped, Moves
<1>7. View(c)' = View(c) /\ Staged(c) /\ Progress(c)
  BY <1>2, <1>4, <1>5 DEF View, Saving
<1>8. Staged(c)'
  BY <1>2, <1>4, <1>5, <1>7 DEF Staged, Writing, AtKey
<1>9. Progress(c)'
  <2> SUFFICES ASSUME NEW f \in Cells, NEW k \in Keys
               PROVE  (Text(View(c), Parent(c), f, k) =
                         IF Pending(c, f, k) THEN Text(rows, Parent(c), f, k)
                         ELSE SavedText(In(c), f, k, Text(rows, Parent(c), f, k)))'
    BY DEF Progress
  <2>1. /\ Text(View(c), Parent(c), f, k)' = Text(View(c), Parent(c), f, k)
        /\ Text(rows, Parent(c), f, k)' = Text(rows, Parent(c), f, k)
        /\ SavedText(In(c), f, k, Text(rows, Parent(c), f, k))' = SavedText(In(c), f, k, Text(rows, Parent(c), f, k))
    BY <1>2, <1>5, <1>7 DEF Text, SavedText
  <2>2. Pending(c, f, k) <=> <<TableOf[f], k>> \in tx[c].todo
    BY <1>2 DEF Pending, AtKey
  <2>3. CASE <<TableOf[f], k>> # s
    <3>1. Pending(c, f, k)' <=> Pending(c, f, k)
      BY <1>4, <1>5, <2>2, <2>3 DEF Pending
    <3> QED
      BY <1>7, <2>1, <3>1 DEF Progress
  <2>4. CASE <<TableOf[f], k>> = s
    <3>1. Pending(c, f, k)' <=> f \in Saying(In(c), s)
      BY <1>4, <1>5, <2>4 DEF Pending, ToClear, ToSet, AtKey
    <3>2. f \in Saying(In(c), s) <=> f \in Written(In(c)) /\ k \in DOMAIN In(c)[f]
      BY <2>4 DEF Saying, Group, CellsOf
    <3>3. Text(View(c), Parent(c), f, k) = Text(rows, Parent(c), f, k)
      BY <1>7, <2>2, <2>4 DEF Progress
    <3> QED
      BY <2>1, <3>1, <3>2, <3>3 DEF SavedText
  <2> QED
    BY <2>3, <2>4
<1> QED
  BY <1>2, <1>5, <1>6, <1>8, <1>9, OneAtATime

\* The steps at a key.  A field of the row it is at is left alone or becomes what
\* the body makes of it.
LEMMA RowSaves ==
    ASSUME LocksParent, Saving, NEW c \in Calls, pc[c] \in AtKey, Moves(c), Inv',
           UNCHANGED <<rows, call>>, NEW row, (c \in Open)',
           tx'[c].todo = tx[c].todo, tx'[c].unread = tx[c].unread, tx'[c].echo = tx[c].echo,
           tx'[c].at = tx[c].at, pc'[c] \in {"clear", "upsert", Onward(tx[c].todo, tx[c].unread)},
           tx'[c].writes \in {tx[c].writes, Over([r \in {Place(c)} |-> row], tx[c].writes)},
           \A f \in CellsOf(tx[c].at[1]) :
              LET old == Text(View(c), Parent(c), f, tx[c].at[2])
                  new == Text(View(c)', Parent(c), f, tx[c].at[2])
              IN \/ new = old /\ (Pending(c, f, tx[c].at[2])' <=> Pending(c, f, tx[c].at[2]))
                 \/ /\ ~Pending(c, f, tx[c].at[2])'
                    /\ \A v : new = SavedText(In(c), f, tx[c].at[2], v)
    PROVE  Saving'
<1>1. /\ c \in Open /\ Parent(c)' = Parent(c) /\ In(c)' = In(c)
      /\ Staged(c) /\ Progress(c) /\ Given(c)
  BY DEF Open, AtKey, Parent, In, Saving, Inv, Sound
<1>2. /\ tx[c].at \in Tables \X Keys /\ Place(c) \in Places /\ Place(c)[2] = Parent(c)
      /\ Parent(c) \in Parents
  BY <1>1, StepsOfBody DEF Given, Place, Places
<1>3. \A r \in DOMAIN tx'[c].writes : r \in DOMAIN tx[c].writes \/ r = Place(c)
  BY DEF Over
<1>4. Staged(c)'
  <2>1. \A r \in DOMAIN tx'[c].writes : r[2] = Parent(c)
    BY <1>1, <1>2, <1>3 DEF Staged
  <2>2. tx[c].unread = Written(In(c)) /\ tx[c].at \notin tx[c].todo
    BY <1>1 DEF Staged, Writing, AtKey
  <2>3. pc'[c] \in {"echo", "commit"} => tx[c].todo = {}
    BY DEF Onward
  <2>4. pc'[c] = "commit" => tx[c].unread = {}
    BY DEF Onward
  <2>5. tx'[c].echo = [f \in Written(In(c)) \ tx[c].unread |-> Read(View(c)', Parent(c), f)]
    BY <1>1, <2>2 DEF Staged
  <2> QED
    BY <1>1, <2>1, <2>2, <2>3, <2>4, <2>5 DEF Staged
<1>5. Progress(c)'
  <2> SUFFICES ASSUME NEW f \in Cells, NEW k \in Keys
               PROVE  (Text(View(c), Parent(c), f, k) =
                         IF Pending(c, f, k) THEN Text(rows, Parent(c), f, k)
                         ELSE SavedText(In(c), f, k, Text(rows, Parent(c), f, k)))'
    BY DEF Progress
  <2>1. Text(rows, Parent(c), f, k)' = Text(rows, Parent(c), f, k)
    BY <1>1 DEF Text
  <2>2. Text(View(c), Parent(c), f, k)' = Text(View(c)', Parent(c), f, k)
    BY <1>1 DEF Text
  <2>3. SavedText(In(c), f, k, Text(rows, Parent(c), f, k))' = SavedText(In(c), f, k, Text(rows, Parent(c), f, k))
    BY <1>1, <2>1 DEF SavedText
  <2>4. CASE <<TableOf[f], k>> # tx[c].at
    <3>1. Pending(c, f, k)' <=> Pending(c, f, k)
      BY <1>1, <2>4 DEF Pending
    <3>2. <<TableOf[f], Parent(c), k>> \in Places /\ <<TableOf[f], Parent(c), k>> # Place(c)
      <4>1. <<TableOf[f], Parent(c), k>> \in Places
        BY <1>2, FieldPlace
      <4>2. tx[c].at = <<tx[c].at[1], tx[c].at[2]>>
        BY <1>2
      <4> QED
        BY <2>4, <4>1, <4>2 DEF Place
    <3>3. View(c)'[<<TableOf[f], Parent(c), k>>] = View(c)[<<TableOf[f], Parent(c), k>>]
      <4> DEFINE r == <<TableOf[f], Parent(c), k>>
      <4>1. r \in DOMAIN tx'[c].writes <=> r \in DOMAIN tx[c].writes
        BY <3>2 DEF Over
      <4>2. r \in DOMAIN tx[c].writes => tx'[c].writes[r] = tx[c].writes[r]
        BY <3>2 DEF Over
      <4>3. View(c)[r] = IF r \in DOMAIN tx[c].writes THEN tx[c].writes[r] ELSE rows[r]
        BY <3>2, ViewAt DEF Saving
      <4>4. View(c)'[r] = IF r \in DOMAIN tx'[c].writes THEN tx'[c].writes[r] ELSE rows'[r]
        BY <3>2, ViewAtNext
      <4> QED
        BY <4>1, <4>2, <4>3, <4>4
    <3> QED
      BY <1>1, <2>1, <2>2, <2>3, <3>1, <3>3 DEF Progress, Text
  <2>5. CASE <<TableOf[f], k>> = tx[c].at
    <3>1. f \in CellsOf(tx[c].at[1]) /\ k = tx[c].at[2]
      BY <2>5 DEF CellsOf
    <3>2. CASE /\ Text(View(c)', Parent(c), f, k) = Text(View(c), Parent(c), f, k)
               /\ Pending(c, f, k)' <=> Pending(c, f, k)
      BY <1>1, <2>1, <2>2, <2>3, <3>2 DEF Progress
    <3>3. CASE /\ ~Pending(c, f, k)'
               /\ \A v : Text(View(c)', Parent(c), f, k) = SavedText(In(c), f, k, v)
      BY <2>1, <2>2, <2>3, <3>3
    <3> QED
      BY <3>1, <3>2, <3>3
  <2> QED
    BY <2>4, <2>5
<1> QED
  BY <1>1, <1>4, <1>5, OneAtATime

LEMMA ClearSaves ==
    ASSUME LocksParent, Saving, NEW c \in Calls, Clear(c), Inv'
    PROVE  Saving'
<1>1. PICK g \in tx[c].clears :
        LET old  == View(c)[Place(c)]
            left == [tx EXCEPT ![c].clears = @ \ {g}]
        IN IF old = Absent THEN tx' = left /\ UNCHANGED held
           ELSE /\ tx' = [left EXCEPT ![c].writes =
                             Over([r \in {Place(c)} |-> Cleared(old, g)], @)]
                /\ held' = [held EXCEPT ![Place(c)] = c]
  BY DEF Clear
<1> DEFINE old  == View(c)[Place(c)]
           left == [tx EXCEPT ![c].clears = @ \ {g}]
           row  == Cleared(old, g)
           w    == IF old = Absent THEN tx[c].writes ELSE Over([r \in {Place(c)} |-> row], tx[c].writes)
<1>2. pc[c] = "clear" /\ UNCHANGED <<rows, pc, call, answer>>
  BY DEF Clear, Runs
<1>3. /\ In(c) \in Bodies /\ Parent(c) \in Parents /\ Parent(c)' = Parent(c) /\ In(c)' = In(c)
      /\ tx[c].at \in Steps(In(c)) /\ g \in ToClear(In(c), tx[c].at)
      /\ (c \in Open)'
  BY <1>1, <1>2 DEF Saving, Inv, Sound, Given, Open, AtKey, Parent, In
<1>4. /\ tx[c].at \in Tables \X Keys /\ Place(c) \in Places
      /\ Place(c) = <<tx[c].at[1], Parent(c), tx[c].at[2]>> /\ g \in CellsOf(tx[c].at[1])
  BY <1>3, StepsOfBody DEF Place, Places
<1>5. /\ left[c] = [tx[c] EXCEPT !.clears = @ \ {g}] /\ DOMAIN left = Calls
      /\ \A d \in Calls \ {c} : left[d] = tx[d]
  BY DEF Saving, Inv, Shaped
<1>6. /\ DOMAIN left[c] = DOMAIN NoTx /\ left[c].todo = tx[c].todo /\ left[c].at = tx[c].at
      /\ left[c].clears = tx[c].clears \ {g} /\ left[c].writes = tx[c].writes
      /\ left[c].unread = tx[c].unread /\ left[c].echo = tx[c].echo
  BY <1>5 DEF Saving, Inv, Shaped, NoTx
<1>7. /\ tx'[c].todo = tx[c].todo /\ tx'[c].at = tx[c].at /\ tx'[c].unread = tx[c].unread
      /\ tx'[c].clears = tx[c].clears \ {g} /\ tx'[c].echo = tx[c].echo /\ tx'[c].writes = w
      /\ \A d \in Calls \ {c} : tx'[d] = tx[d]
      /\ held' = held \/ held' = [held EXCEPT ![Place(c)] = c]
  <2>1. CASE old = Absent
    BY <1>1, <1>5, <1>6, <2>1
  <2>2. CASE old # Absent
    <3>1. tx' = [left EXCEPT ![c].writes = w] /\ held' = [held EXCEPT ![Place(c)] = c]
      BY <1>1, <1>6, <2>2
    <3> HIDE DEF w
    <3>2. tx'[c] = [left[c] EXCEPT !.writes = w] /\ \A d \in Calls \ {c} : tx'[d] = tx[d]
      BY <1>5, <3>1
    <3>3. /\ tx'[c].todo = left[c].todo /\ tx'[c].at = left[c].at /\ tx'[c].unread = left[c].unread
          /\ tx'[c].clears = left[c].clears /\ tx'[c].echo = left[c].echo /\ tx'[c].writes = w
      BY <1>6, <3>2 DEF NoTx
    <3> QED
      BY <1>6, <3>1, <3>2, <3>3
  <2> QED
    BY <2>1, <2>2
<1>8. Moves(c)
  BY <1>2, <1>4, <1>7 DEF Moves, Saving, Inv, Shaped
<1>9. View(c)'[Place(c)] = IF old = Absent THEN Absent ELSE row
  <2>1. View(c)'[Place(c)] = IF Place(c) \in DOMAIN w THEN w[Place(c)] ELSE rows[Place(c)]
    BY <1>2, <1>4, <1>7, ViewAtNext
  <2>2. old = IF Place(c) \in DOMAIN tx[c].writes THEN tx[c].writes[Place(c)] ELSE rows[Place(c)]
    BY <1>4, ViewAt DEF Saving
  <2> QED
    BY <2>1, <2>2 DEF Over
<1>10. ASSUME NEW f \in CellsOf(tx[c].at[1])
       PROVE  LET was == Text(View(c), Parent(c), f, tx[c].at[2])
                  new == Text(View(c)', Parent(c), f, tx[c].at[2])
              IN \/ new = was /\ (Pending(c, f, tx[c].at[2])' <=> Pending(c, f, tx[c].at[2]))
                 \/ /\ ~Pending(c, f, tx[c].at[2])'
                    /\ \A v : new = SavedText(In(c), f, tx[c].at[2], v)
  <2>1. /\ f \in Cells /\ TableOf[f] = tx[c].at[1] /\ <<TableOf[f], tx[c].at[2]>> = tx[c].at
        /\ <<TableOf[f], Parent(c), tx[c].at[2]>> = Place(c)
    BY <1>4 DEF CellsOf
  <2>2. old # Absent => old \in [CellsOf(tx[c].at[1]) -> Texts \cup {Empty, Null}]
    BY <1>4, ViewFits DEF Saving, Fits, RowsOf
  <2>3. CASE f = g
    <3>1. ~Pending(c, f, tx[c].at[2])'
      <4>1. Staged(c) /\ tx[c].at \notin tx[c].todo
        BY <1>2 DEF Saving, Staged, AtKey, Open
      <4>2. f \notin ToSet(In(c), tx[c].at) /\ f \notin tx'[c].clears
        BY <1>3, <1>7, <2>3 DEF ToClear
      <4> QED
        BY <1>3, <1>7, <2>1, <4>1, <4>2 DEF Pending
    <3>2. Text(View(c)', Parent(c), f, tx[c].at[2]) = Null
      <4>1. old # Absent => row = Absent \/ row[f] \in {Empty, Null}
        BY <2>1, <2>2, <2>3, ClearsAssumption DEF Cleared
      <4> QED
        BY <1>9, <2>1, <4>1, TextsAssumption DEF Text
    <3>3. \A v : SavedText(In(c), f, tx[c].at[2], v) = Null
      BY <1>3, <2>3 DEF SavedText, ToClear, ToSet, Saying, Group
    <3> QED
      BY <3>1, <3>2, <3>3
  <2>4. CASE f # g
    <3>1. Pending(c, f, tx[c].at[2])' <=> Pending(c, f, tx[c].at[2])
      BY <1>2, <1>3, <1>7, <2>4 DEF Pending
    <3>2. old # Absent => row # Absent /\ row[f] = old[f]
      <4>1. g \in Cells /\ Clears[g] \in {"empty", "null"}
        BY <1>4, <2>1, <2>4, ClearsAssumption DEF CellsOf
      <4>2. old # Absent => row \in {[old EXCEPT ![g] = Empty], [old EXCEPT ![g] = Null]}
        BY <4>1 DEF Cleared
      <4>3. old # Absent => row \in RowsOf(tx[c].at[1]) /\ row[f] = old[f]
        BY <2>2, <2>4, <4>2 DEF RowsOf
      <4> QED
        BY <1>4, <4>3, SentinelAssumption
    <3>3. Text(View(c)', Parent(c), f, tx[c].at[2]) = Text(View(c), Parent(c), f, tx[c].at[2])
      BY <1>9, <2>1, <3>2 DEF Text
    <3> QED
      BY <3>1, <3>3
  <2> QED
    BY <2>3, <2>4
<1>11. tx'[c].writes \in {tx[c].writes, Over([r \in {Place(c)} |-> row], tx[c].writes)}
  BY <1>7
<1> HIDE DEF row
<1> QED
  BY <1>2, <1>3, <1>7, <1>8, <1>10, <1>11, RowSaves DEF AtKey

LEMMA ClearsDoneSaves ==
    ASSUME LocksParent, Saving, NEW c \in Calls, ClearsDone(c), Inv'
    PROVE  Saving'
<1>1. /\ pc[c] = "clear" /\ UNCHANGED <<rows, held, call, tx, answer>> /\ tx[c].clears = {}
      /\ pc' = [pc EXCEPT ![c] = IF ToSet(In(c), tx[c].at) # {} THEN "upsert" ELSE AfterKey(c)]
  BY DEF ClearsDone, Goto
<1>2. \/ pc'[c] = "upsert"
      \/ pc'[c] = Onward(tx[c].todo, tx[c].unread) /\ ToSet(In(c), tx[c].at) = {}
  BY <1>1 DEF AfterKey, Saving, Inv, Shaped
<1>3. (c \in Open)' /\ pc[c] \in AtKey /\ Parent(c)' = Parent(c) /\ In(c)' = In(c)
  BY <1>1, <1>2 DEF Open, Onward, AtKey, Parent, In
<1>4. Moves(c)
  BY <1>1 DEF Saving, Inv, Shaped, Moves
<1>5. ASSUME NEW f \in CellsOf(tx[c].at[1])
      PROVE  /\ Text(View(c)', Parent(c), f, tx[c].at[2]) = Text(View(c), Parent(c), f, tx[c].at[2])
             /\ Pending(c, f, tx[c].at[2])' <=> Pending(c, f, tx[c].at[2])
  <2>1. View(c)' = View(c)
    BY <1>1 DEF View
  <2>2. Pending(c, f, tx[c].at[2])' <=> Pending(c, f, tx[c].at[2])
    BY <1>1, <1>2, <1>3 DEF Pending, AtKey
  <2> QED
    BY <2>1, <2>2
<1> QED
  BY <1>1, <1>2, <1>3, <1>4, <1>5, RowSaves

LEMMA UpsertSaves ==
    ASSUME LocksParent, Saving, NEW c \in Calls, Upsert(c), Inv'
    PROVE  Saving'
<1> DEFINE s   == tx[c].at
           old == View(c)[Place(c)]
           row == Upserted(In(c), s, old)
           w   == Over([r \in {Place(c)} |-> row], tx[c].writes)
<1>1. /\ pc[c] = "upsert" /\ UNCHANGED <<rows, call, answer>>
      /\ pc' = [pc EXCEPT ![c] = AfterKey(c)] /\ held' = [held EXCEPT ![Place(c)] = c]
      /\ Admitted(s[1], ToSet(In(c), s))
  BY DEF Upsert, Runs, Goto
<1>2. tx' = [tx EXCEPT ![c].writes = w]
  BY DEF Upsert, Upserted, Saving, Inv, Shaped
<1>3. /\ In(c) \in Bodies /\ Parent(c) \in Parents /\ Parent(c)' = Parent(c) /\ In(c)' = In(c)
      /\ s \in Steps(In(c)) /\ tx[c].clears = {} /\ s \notin tx[c].todo
  BY <1>1 DEF Saving, Inv, Sound, Given, Open, AtKey, Staged, Parent, In
<1>4. /\ s \in Tables \X Keys /\ Place(c) \in Places /\ Place(c) = <<s[1], Parent(c), s[2]>>
  BY <1>3, StepsOfBody DEF Place, Places
<1>5. pc'[c] = Onward(tx[c].todo, tx[c].unread) /\ (c \in Open)' /\ pc'[c] \notin AtKey
  BY <1>1 DEF AfterKey, Onward, Open, AtKey, Saving, Inv, Shaped
<1>6. Fits(<<s[1], Parent(c), s[2]>>, old)
  BY <1>4, ViewFits DEF Saving
<1>7. /\ row \in RowsOf(s[1])
      /\ \A f \in CellsOf(s[1]) : row[f] =
             IF f \in ToSet(In(c), s) THEN In(c)[f][s[2]] ELSE IF old = Absent THEN Null ELSE old[f]
  <2> HIDE DEF s, old
  <2> QED
    BY <1>1, <1>3, <1>6, UpsertedFits
<1>8. row # Absent
  BY <1>4, <1>7, SentinelAssumption
<1> HIDE DEF row
<1>9. /\ tx'[c].writes = w /\ tx'[c].todo = tx[c].todo /\ tx'[c].at = s /\ tx'[c].unread = tx[c].unread
      /\ tx'[c].clears = {} /\ tx'[c].echo = tx[c].echo
      /\ \A d \in Calls \ {c} : tx'[d] = tx[d]
  <2> HIDE DEF w
  <2>1. tx'[c] = [tx[c] EXCEPT !.writes = w] /\ \A d \in Calls \ {c} : tx'[d] = tx[d]
    BY <1>2 DEF Saving, Inv, Shaped
  <2> QED
    BY <1>3, <2>1 DEF Saving, Inv, Shaped, NoTx
<1>10. Moves(c)
  BY <1>1, <1>4, <1>9 DEF Moves, Saving, Inv, Shaped
<1>11. View(c)'[Place(c)] = row
  <2>1. View(c)'[Place(c)] = IF Place(c) \in DOMAIN w THEN w[Place(c)] ELSE rows'[Place(c)]
    BY <1>4, <1>9, ViewAtNext
  <2> QED
    BY <2>1 DEF Over
<1>12. ASSUME NEW f \in CellsOf(s[1])
       PROVE  \/ /\ Text(View(c)', Parent(c), f, s[2]) = Text(View(c), Parent(c), f, s[2])
                 /\ Pending(c, f, s[2])' <=> Pending(c, f, s[2])
              \/ /\ ~Pending(c, f, s[2])'
                 /\ \A v : Text(View(c)', Parent(c), f, s[2]) = SavedText(In(c), f, s[2], v)
  <2>1. /\ f \in Cells /\ TableOf[f] = s[1] /\ <<TableOf[f], s[2]>> = s
        /\ <<TableOf[f], Parent(c), s[2]>> = Place(c)
    BY <1>4 DEF CellsOf
  <2>2. ~Pending(c, f, s[2])'
    BY <1>3, <1>5, <1>9, <2>1 DEF Pending
  <2>3. CASE f \in ToSet(In(c), s)
    <3>1. /\ In(c)[f][s[2]] \in Texts
          /\ \A v : SavedText(In(c), f, s[2], v) = In(c)[f][s[2]]
      BY <2>3 DEF SavedText, ToSet, Saying, Group
    <3>2. Text(View(c)', Parent(c), f, s[2]) = In(c)[f][s[2]]
      BY <1>7, <1>8, <1>11, <2>1, <2>3, <3>1 DEF Text
    <3> QED
      BY <2>2, <3>1, <3>2
  <2>4. CASE f \notin ToSet(In(c), s)
    <3>1. ~Pending(c, f, s[2])
      BY <1>3, <2>1, <2>4 DEF Pending
    <3>2. Text(View(c)', Parent(c), f, s[2]) = Text(View(c), Parent(c), f, s[2])
      BY <1>7, <1>8, <1>11, <2>1, <2>4, TextsAssumption DEF Text
    <3> QED
      BY <2>2, <3>1, <3>2
  <2> QED
    BY <2>3, <2>4
<1>13. tx'[c].writes = Over([r \in {Place(c)} |-> row], tx[c].writes)
  BY <1>9
<1>14. pc[c] \in AtKey /\ tx'[c].at = tx[c].at
  BY <1>1, <1>9 DEF AtKey
<1> HIDE DEF s, w
<1> QED
  BY <1>1, <1>5, <1>9, <1>10, <1>12, <1>13, <1>14, RowSaves DEF s

LEMMA EchoSaves ==
    ASSUME LocksParent, Saving, NEW c \in Calls, Echo(c), Inv'
    PROVE  Saving'
<1>1. PICK f \in tx[c].unread : EchoAs(c, f, Read(View(c), Parent(c), f))
  BY DEF Echo
<1> DEFINE e == Over([g \in {f} |-> Read(View(c), Parent(c), f)], tx[c].echo)
<1>2. /\ pc[c] = "echo" /\ UNCHANGED <<rows, held, call, answer>>
      /\ tx' = [tx EXCEPT ![c].unread = tx[c].unread \ {f}, ![c].echo = e]
      /\ pc' = [pc EXCEPT ![c] = Onward({}, tx[c].unread \ {f})]
  BY <1>1 DEF EchoAs, Goto, Saving, Inv, Shaped
<1>3. c \in Open /\ Staged(c) /\ Progress(c) /\ tx[c].unread \subseteq Written(In(c))
  BY <1>2 DEF Open, Saving, Inv, Sound, Given
<1>4. e = [g \in Written(In(c)) \ (tx[c].unread \ {f}) |-> Read(View(c), Parent(c), g)]
  BY <1>1, <1>3 DEF Staged, Over
<1> HIDE DEF e
<1>5. tx'[c] = [tx[c] EXCEPT !.unread = tx[c].unread \ {f}, !.echo = e]
  BY <1>2 DEF Saving, Inv, Shaped
<1>6. /\ tx'[c].todo = tx[c].todo /\ tx'[c].at = tx[c].at /\ tx'[c].clears = tx[c].clears
      /\ tx'[c].writes = tx[c].writes /\ tx'[c].unread = tx[c].unread \ {f} /\ tx'[c].echo = e
  BY <1>5 DEF Saving, Inv, Shaped, NoTx
<1>7. pc'[c] = Onward({}, tx[c].unread \ {f}) /\ pc'[c] \in {"echo", "commit"}
  BY <1>2 DEF Onward, Saving, Inv, Shaped
<1>8. Parent(c)' = Parent(c) /\ In(c)' = In(c) /\ View(c)' = View(c)
  BY <1>2, <1>6 DEF Parent, In, View
<1>9. Moves(c)
  BY <1>2 DEF Moves, Saving, Inv, Shaped
<1>10. Staged(c)'
  <2>1. pc'[c] = "commit" => tx[c].unread \ {f} = {}
    BY <1>7 DEF Onward
  <2> QED
    BY <1>2, <1>3, <1>4, <1>6, <1>7, <1>8, <2>1 DEF Staged, Writing, AtKey
<1>11. Progress(c)'
  <2>1. \A g \in Cells, k \in Keys : Pending(c, g, k)' <=> Pending(c, g, k)
    BY <1>2, <1>6, <1>7 DEF Pending, AtKey
  <2> QED
    BY <1>2, <1>3, <1>8, <2>1 DEF Progress, Text, SavedText
<1> QED
  BY <1>2, <1>3, <1>8, <1>9, <1>10, <1>11, OneAtATime

\* The end of a save: what it commits is of its own parent.
LEMMA EndSaves ==
    ASSUME LocksParent, Saving, NEW c \in Open, NEW a, Return(c, a), rows' \in {rows, View(c)}, Inv'
    PROVE  Saving'
<1>1. /\ tx' = [tx EXCEPT ![c] = NoTx] /\ pc' = [pc EXCEPT ![c] = "done"]
      /\ answer' = [answer EXCEPT ![c] = a] /\ call' = call /\ c \in Calls
      /\ held' = [r \in Places |-> IF held[r] = c THEN None ELSE held[r]]
  BY DEF Return, Goto, Open
<1>2. (c \notin Open)' /\ \A d \in Calls \ {c} : Parent(d)' = Parent(d) /\ (d \in Open <=> (d \in Open)')
  BY <1>1 DEF Saving, Inv, Shaped, Parent, Open
<1>3. Moves(c)
  BY <1>1, SentinelAssumption DEF Saving, Inv, Shaped, Moves
<1>4. ASSUME NEW d \in Open \ {c} PROVE (Staged(d) /\ Progress(d))'
  <2>1. ASSUME NEW r \in Places, r[2] = Parent(d) PROVE rows'[r] = rows[r]
    <3>1. r \notin DOMAIN tx[c].writes
      BY <2>1 DEF Saving, Apart, Staged
    <3> QED
      BY <1>1, <2>1, <3>1, ViewAt DEF Saving
  <2> QED
    BY <1>1, <1>3, <2>1, OthersStand
<1>5. Apart'
  BY <1>2 DEF Saving, Apart, Open
<1> QED
  BY <1>2, <1>4, <1>5 DEF Saving, Open

LEMMA SavingHolds == ASSUME LocksParent PROVE Spec => []Saving
<1>1. Init => Saving
  <2> SUFFICES ASSUME Init PROVE Saving
    OBVIOUS
  <2>1. Inv
    BY InvInit
  <2>2. Open = {}
    BY DEF Init, Open
  <2> QED
    BY <2>1, <2>2 DEF Saving, Apart
<1>2. Saving /\ [Next]_vars => Saving'
  <2> SUFFICES ASSUME Saving, [Next]_vars PROVE Saving'
    OBVIOUS
  <2>1. Inv'
    BY InvNext DEF Saving
  <2>2. CASE UNCHANGED vars
    <3>1. \A c \in Calls : (c \in Open <=> (c \in Open)') /\ Parent(c)' = Parent(c)
      BY <2>2 DEF vars, Open, Parent
    <3>2. Apart'
      BY <3>1 DEF Saving, Apart, Open
    <3>3. ASSUME NEW c \in Open PROVE (Staged(c) /\ Progress(c))'
      BY <2>2 DEF vars, Saving, Staged, Progress, View, Text, SavedText, Pending, In, Parent
    <3> QED
      BY <2>1, <3>1, <3>2, <3>3 DEF Saving, Open
  <2>3. CASE Finished
    BY <2>2, <2>3 DEF Finished
  <2>4. ASSUME NEW c \in Calls, Start(c) \/ Statement(c) \/ Fail(c)
        PROVE  Saving'
    <3>1. CASE Start(c)
      BY <2>1, <3>1, StartSaves
    <3>2. CASE TakeKey(c)
      BY <2>1, <3>2, TakeKeySaves
    <3>3. CASE Clear(c)
      BY <2>1, <3>3, ClearSaves
    <3>4. CASE ClearsDone(c)
      BY <2>1, <3>4, ClearsDoneSaves
    <3>5. CASE Upsert(c)
      BY <2>1, <3>5, UpsertSaves
    <3>6. CASE Echo(c)
      BY <2>1, <3>6, EchoSaves
    <3>7. CASE Refuse(c) \/ Commit(c) \/ Fail(c)
      <4>1. c \in Open
        BY <3>7 DEF Refuse, Commit, Fail, Open
      <4> QED
        BY <2>1, <3>7, <4>1, EndSaves DEF Refuse, Commit, Fail, Abort
    <3> QED
      BY <2>4, <3>1, <3>2, <3>3, <3>4, <3>5, <3>6, <3>7 DEF Statement
  <2> QED
    BY <2>2, <2>3, <2>4 DEF Next
<1> QED
  BY <1>1, <1>2, PTL DEF Spec
-------------------------------------------------------------------------------
\* A save that commits is at its end, and all it has to do is done.
LEMMA Committing ==
    ASSUME Saving, [Next]_vars, NEW c \in Calls, pc[c] = "commit", answer'[c] = "ok"
    PROVE  /\ rows' = View(c) /\ tx[c].unread = {} /\ Staged(c)
           /\ \A f \in Cells, k \in Keys :
                 Text(rows', Parent(c), f, k) = SavedText(In(c), f, k, Text(rows, Parent(c), f, k))
<1>1. answer[c] = None /\ c \in Open
  BY DEF Saving, Inv, Shaped, Open
<1>2. PICK d \in Calls : Start(d) \/ Statement(d) \/ Fail(d)
  BY <1>1, SentinelAssumption DEF Next, Finished, vars
<1>3. d = c /\ Commit(c)
  <2>1. answer' # answer
    BY <1>1, SentinelAssumption
  <2>2. Refuse(d) \/ Commit(d) \/ Fail(d)
    BY <1>2, <2>1 DEF Start, Statement, TakeKey, Take, Clear, ClearsDone, Upsert, Echo, EchoAs
  <2>3. \A a : answer' = [answer EXCEPT ![d] = a] => d = c /\ a = "ok"
    BY <1>1, SentinelAssumption DEF Saving, Inv, Shaped
  <2> QED
    BY <2>2, <2>3 DEF Refuse, Commit, Fail, Abort, Return
<1>4. rows' = View(c) /\ Staged(c) /\ Progress(c) /\ tx[c].todo = {} /\ tx[c].unread = {}
  BY <1>1, <1>3 DEF Commit, Saving, Staged
<1>5. \A f \in Cells, k \in Keys : ~Pending(c, f, k)
  BY <1>4 DEF Pending, AtKey
<1> QED
  BY <1>4, <1>5 DEF Progress

\* satellite.go:96 and :121: what the journal is told of each field is all that
\* the commit leaves in it, at every key, whatever other saves do.
THEOREM EchoRight == ASSUME LocksParent PROVE Spec => EchoIsCommitted
<1>1. ASSUME Saving, [Next]_vars, NEW c \in Calls, pc[c] = "commit", answer'[c] = "ok"
      PROVE  tx[c].echo = [f \in Written(In(c)) |-> Read(rows', Parent(c), f)]
  <2>1. rows' = View(c) /\ tx[c].unread = {} /\ Staged(c)
    BY <1>1, Committing
  <2> QED
    BY <2>1 DEF Staged
<1>2. Saving /\ [Next]_vars =>
        [\A c \in Calls : pc[c] = "commit" /\ answer'[c] = "ok"
           => tx[c].echo = [f \in Written(In(c)) |-> Read(rows', Parent(c), f)]]_vars
  BY <1>1
<1> QED
  BY <1>2, SavingHolds, PTL DEF Spec, EchoIsCommitted

\* satellite.go:216 and :322: a commit leaves in every field the texts that were
\* sent, and all that was not sent as it was when the save commits.
THEOREM PatchRight == ASSUME LocksParent PROVE Spec => PatchIsSaved
<1>1. ASSUME Saving, [Next]_vars, NEW c \in Calls, pc[c] = "commit", answer'[c] = "ok",
             NEW p \in Parents, NEW f \in Cells
      PROVE  Read(rows', p, f) = IF p = Parent(c) THEN Saved(In(c), f, Read(rows, p, f))
                                 ELSE Read(rows, p, f)
  <2>1. /\ rows' = View(c) /\ Staged(c)
        /\ \A g \in Cells, k \in Keys :
              Text(rows', Parent(c), g, k) = SavedText(In(c), g, k, Text(rows, Parent(c), g, k))
    BY <1>1, Committing
  <2>2. CASE p # Parent(c)
    <3>1. ASSUME NEW k \in Keys PROVE rows'[<<TableOf[f], p, k>>] = rows[<<TableOf[f], p, k>>]
      <4>1. <<TableOf[f], p, k>> \in Places /\ <<TableOf[f], p, k>> \notin DOMAIN tx[c].writes
        BY <2>1, <2>2, FieldPlace DEF Staged
      <4> QED
        BY <1>1, <2>1, <4>1, ViewAt DEF Saving
    <3> QED
      BY <2>2, <3>1, SameRead
  <2>3. CASE p = Parent(c)
    <3> DEFINE is(k)  == Text(rows', p, f, k)
               old(k) == Text(rows, p, f, k)
               in == In(c)
    <3>1. /\ Read(rows', p, f) = [k \in {l \in Keys \ {EmptyKey} : is(l) \in Texts} |-> is(k)]
          /\ Read(rows, p, f) = [k \in {l \in Keys \ {EmptyKey} : old(l) \in Texts} |-> old(k)]
      BY ReadTexts
    <3>2. \A k \in Keys : is(k) = SavedText(in, f, k, old(k))
      BY <2>1, <2>3
    <3>3. in \in Bodies
      BY <1>1 DEF Saving, Inv, Sound, Given, Open
    <3> HIDE DEF is, old, in
    <3>4. CASE f \notin Written(in)
      <4>1. \A k \in Keys : is(k) = old(k)
        BY <3>2, <3>4 DEF SavedText
      <4> QED
        BY <2>3, <3>1, <3>4, <4>1 DEF Saved, in
    <3>5. CASE f \in Written(in)
      <4> DEFINE said == DOMAIN in[f] \ {EmptyKey}
                 had  == Read(rows, p, f)
                 kept == (DOMAIN had \ said) \cup {k \in said : in[f][k] \in Texts}
                 all  == {l \in Keys \ {EmptyKey} : is(l) \in Texts}
      <4>1. DOMAIN in[f] \subseteq Keys
        BY <3>3, <3>5, BodiesAssumption DEF Written, Patch
      <4>2. \A k \in Keys : is(k) = IF k \in DOMAIN in[f] THEN IF in[f][k] \in Texts THEN in[f][k] ELSE Null
                                    ELSE old(k)
        BY <3>2, <3>5 DEF SavedText
      <4>3. DOMAIN had = {l \in Keys \ {EmptyKey} : old(l) \in Texts} /\ \A k \in DOMAIN had : had[k] = old(k)
        BY <3>1
      <4> HIDE DEF had
      <4>4. kept = all
        BY <4>1, <4>2, <4>3, TextsAssumption
      <4>5. \A k \in kept : is(k) = IF k \in said THEN in[f][k] ELSE had[k]
        BY <4>1, <4>2, <4>3
      <4>6. Saved(in, f, had) = [k \in kept |-> IF k \in said THEN in[f][k] ELSE had[k]]
        BY <3>5 DEF Saved
      <4> HIDE DEF kept, said, all
      <4>7. [k \in all |-> is(k)] = [k \in kept |-> IF k \in said THEN in[f][k] ELSE had[k]]
        BY <4>4, <4>5
      <4>8. Read(rows', p, f) = Saved(in, f, had)
        BY <3>1, <4>6, <4>7 DEF all
      <4> QED
        BY <2>3, <4>8 DEF had, in
    <3> QED
      BY <3>4, <3>5
  <2> QED
    BY <2>2, <2>3
<1>2. Saving /\ [Next]_vars =>
        [\A c \in Calls : pc[c] = "commit" /\ answer'[c] = "ok" =>
           \A p \in Parents, f \in Cells :
               Read(rows', p, f) = IF p = Parent(c) THEN Saved(In(c), f, Read(rows, p, f))
                                   ELSE Read(rows, p, f)]_vars
  BY <1>1
<1> QED
  BY <1>2, SavingHolds, PTL DEF Spec, PatchIsSaved
===============================================================================
