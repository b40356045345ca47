--------------------------- MODULE ErjetStore_contract ---------------------------
(***************************************************************************)
(* erjet.Store keeps the promise of the Entity hooks: the transaction of   *)
(* many statements implements EntityContract, step by step.  A call takes  *)
(* effect at its commit, which makes of the row exactly what the contract  *)
(* says (CommitMakes) and leaves every other row alone (OthersStay); every *)
(* other step either starts or refuses the call or is not seen from        *)
(* outside.                                                                *)
(*                                                                         *)
(* On top of that, what OnWrite is told: the row a save commits is the one *)
(* it shows.                                                               *)
(***************************************************************************)
EXTENDS ErjetStore_lists

\* No save has written a row that was deleted under it.
NoneMissed == \A c \in Calls : pc[c] = "report" => effect[c].after # Absent

\* The row a save starts from.
Base(c) == IF Does(c, "create") THEN Over(NewRow, Blank) ELSE RowOf(Id(c))

\* What another statement of the same call relies on.
Empty(c) == pc[c] = "exists" => Assignments(In(c)) = {} /\ Deferred(In(c)) = {}

LEMMA SentSteps ==
    ASSUME TypeInv, NEW c \in Calls, Saves(c), NEW l, NEW key
    PROVE  <<l, key>> \in ListSteps(c)
              <=> l \in Lists /\ l \in DOMAIN Written(In(c)) /\ key \in Sent(l, In(c)[l])
<1>1. In(c) \in Payloads
  BY SavesAre
<1>2. ASSUME <<l, key>> \in ListSteps(c)
      PROVE  l \in Lists /\ l \in DOMAIN Written(In(c)) /\ key \in Sent(l, In(c)[l])
  <2>1. <<l, key>> \in Steps(In(c)) /\ Replaces(In(c), <<l, key>>)
    BY <1>2 DEF ListSteps
  <2>2. <<l, key>>[1] = l /\ <<l, key>>[2] = key
    OBVIOUS
  <2>3. l \in DOMAIN In(c) /\ key \in Sent(l, In(c)[l])
    BY <1>1, <2>1, <2>2, StepsType
  <2> QED
    BY <2>1, <2>2, <2>3 DEF Replaces, Written, Fields
<1>3. ASSUME l \in Lists, l \in DOMAIN Written(In(c)), key \in Sent(l, In(c)[l])
      PROVE  <<l, key>> \in ListSteps(c)
  <2>1. l \in DOMAIN In(c) /\ Parses(l, In(c)[l]) /\ l \in Deferred(In(c))
    BY <1>3 DEF Written, Deferred
  <2>2. key \in Parts
    BY <1>1, <1>3, <2>1, SentIsList
  <2>3. <<l, key>> \in StepsOf(l, In(c)[l])
    BY <1>3, <2>1 DEF StepsOf
  <2> QED
    BY <1>3, <2>1, <2>2, <2>3, KeyRankAssumption DEF ListSteps, Steps, Replaces
<1> QED
  BY <1>2, <1>3

LEMMA FullRows ==
    ASSUME NEW r \in Row, NEW L \in [Lists -> SUBSET (Parts \X Nat \X Values)]
    PROVE  Over(r, L) \in FullRow /\ Over(r, L) # Absent
<1>1. Over(r, L) \in FullRow
  BY DEF Row, FullRow, Over, Fields
<1> QED
  BY <1>1, AbsentAssumption

\* A row that is there is one seen from outside.
LEMMA RowThere ==
    ASSUME TypeInv, NEW i \in Ids, rows[i] # Absent
    PROVE  RowOf(i) \in FullRow /\ RowOf(i) # Absent
<1>1. rows[i] \in Row
  BY DEF TypeInv
<1>2. \A l \in Lists : Contents(ItemsOf(i, l)) \in SUBSET (Parts \X Nat \X Values)
  BY DEF TypeInv, Contents, ItemsOf, Item
<1>3. RowOf(i) = Over(rows[i], [l \in Lists |-> Contents(ItemsOf(i, l))])
  BY DEF RowOf
<1> QED
  BY <1>1, <1>2, <1>3, FullRows

\* The lists of the row that a save commits.
LEMMA CommitLists ==
    ASSUME ListInv, NEW c \in Calls, Applied(c), Saves(c), NEW i \in Ids, i = Id(c),
           NEW l \in Lists
    PROVE  Contents(ItemsOf(i, l))' =
               IF l \in DOMAIN Written(In(c))
               THEN Written(In(c))[l]
                      \cup {r \in Contents(ItemsOf(i, l)) : r[1] \notin Sent(l, In(c)[l])}
               ELSE Contents(ItemsOf(i, l))
<1>1. \A key : ItemsAt(i, l, key)' = IF <<l, key>> \in ListSteps(c)
                                     THEN InsertedBy(c, <<l, key>>) ELSE ItemsAt(i, l, key)
  BY SaveCommits
<1>2. \A key : <<l, key>> \in ListSteps(c)
                  <=> l \in DOMAIN Written(In(c)) /\ key \in Sent(l, In(c)[l])
  BY SentSteps DEF ListInv
<1> DEFINE P(key) == PartRows(l, key, ListAt(l, In(c)[l], key))
<1>3. \A key : {x.row : x \in InsertedBy(c, <<l, key>>)} = P(key)
  <2>1. \A key : InsertedBy(c, <<l, key>>) = [owner : {i}, cell : {l}, by : {c}, row : P(key)]
    BY DEF InsertedBy
  <2> HIDE DEF P
  <2>2. ASSUME NEW key PROVE {x.row : x \in InsertedBy(c, <<l, key>>)} = P(key)
    <3> DEFINE S == InsertedBy(c, <<l, key>>)
               Q == P(key)
    <3>1. S = [owner : {i}, cell : {l}, by : {c}, row : Q]
      BY <2>1
    <3> HIDE DEF Q, S
    <3>2. \A r \in Q : /\ [owner |-> i, cell |-> l, by |-> c, row |-> r] \in S
                       /\ [owner |-> i, cell |-> l, by |-> c, row |-> r].row = r
      BY <3>1
    <3>3. \A x \in S : x.row \in Q
      BY <3>1
    <3>4. {x.row : x \in S} = Q
      BY <3>2, <3>3
    <3> QED
      BY <3>4 DEF Q, S
  <2> QED
    BY <2>2
<1>4. \A key : \A r \in P(key) : r[1] = key
  BY DEF PartRows
<1>5. l \in DOMAIN Written(In(c)) =>
          Written(In(c))[l] = UNION {P(key) : key \in Sent(l, In(c)[l])}
  BY DEF Written, ListRows
<1> HIDE DEF P
<1>6. \A r : r \in Contents(ItemsOf(i, l)) <=> \E x \in ItemsAt(i, l, r[1]) : x.row = r
  BY DEF Contents, ItemsAt
<1>7. \A r : r \in Contents(ItemsOf(i, l))' <=> \E x \in ItemsAt(i, l, r[1])' : x.row = r
  BY DEF Contents, ItemsAt
<1>8. CASE l \in DOMAIN Written(In(c))
  <2>1. ASSUME NEW r, r[1] \in Sent(l, In(c)[l])
        PROVE  r \in Contents(ItemsOf(i, l))' <=> r \in Written(In(c))[l]
    <3>1. ItemsAt(i, l, r[1])' = InsertedBy(c, <<l, r[1]>>)
      BY <1>1, <1>2, <1>8, <2>1
    <3>2. r \in {x.row : x \in InsertedBy(c, <<l, r[1]>>)} <=> r \in P(r[1])
      BY <1>3
    <3>3. r \in Contents(ItemsOf(i, l))' <=> r \in P(r[1])
      BY <1>7, <3>1, <3>2
    <3> QED
      BY <1>4, <1>5, <1>8, <2>1, <3>3
  <2>2. ASSUME NEW r, r[1] \notin Sent(l, In(c)[l])
        PROVE  /\ r \in Contents(ItemsOf(i, l))' <=> r \in Contents(ItemsOf(i, l))
               /\ r \notin Written(In(c))[l]
    <3>1. r \in Contents(ItemsOf(i, l))' <=> r \in Contents(ItemsOf(i, l))
      BY <1>1, <1>2, <1>6, <1>7, <2>2
    <3> QED
      BY <1>4, <1>5, <1>8, <2>2, <3>1
  <2> QED
    BY <1>8, <2>1, <2>2
<1>9. CASE l \notin DOMAIN Written(In(c))
  <2>1. \A key : ItemsAt(i, l, key)' = ItemsAt(i, l, key)
    BY <1>1, <1>2, <1>9
  <2>2. \A r : r \in Contents(ItemsOf(i, l))' <=> r \in Contents(ItemsOf(i, l))
    BY <1>6, <1>7, <2>1
  <2>3. Contents(ItemsOf(i, l))' = Contents(ItemsOf(i, l))
    BY <2>2 DEF Contents
  <2> QED
    BY <1>9, <2>3
<1> QED
  BY <1>8, <1>9

\* A create inserts a row that was not there.
LEMMA CreatesNew ==
    ASSUME Inv, NEW c \in Calls, Does(c, "create"), pc[c] \notin {"report", "done"}
    PROVE  rows[Id(c)] = Absent
<1>1. Id(c) \notin InitialIds /\ ~IsCreated(Id(c)) /\ Id(c) \in Ids
  BY OpenHasId DEF Inv, Named, IsCreated, Does
<1> QED
  BY <1>1 DEF Inv, Rooted

\* The columns of the row that a save commits.
LEMMA CommitColumns ==
    ASSUME ListInv, NEW c \in Calls, Applied(c), Saves(c), NEW i \in Ids, i = Id(c),
           rows'[i] # Absent
    PROVE  /\ Does(c, "update") => rows[i] # Absent
           /\ rows'[i] \in Row
           /\ \A f \in Cols : rows'[i][f] = IF f \in DOMAIN Written(In(c)) THEN Written(In(c))[f]
                                            ELSE IF Does(c, "create") THEN NewRow[f]
                                            ELSE rows[i][f]
<1>1. /\ Inv /\ ~Does(c, "delete") /\ call[c] # None /\ pc[c] = "commit" /\ c \in Open
      /\ ~(Does(c, "create") /\ Does(c, "update"))
  BY SavesAre DEF ListInv, TypeInv, Applied, Saves, Does, Open
<1>2. rows'[i] = IF lock[i] # c THEN rows[i]
                 ELSE IF rows[i] = Absent THEN tx[c].sets
                 ELSE Over(tx[c].sets, rows[i])
  BY <1>1 DEF Applied, Apply, Does
<1>3. /\ DOMAIN tx[c].sets = AllColumns(c)
      /\ \A f \in AllColumns(c) : tx[c].sets[f] = LastValue(c, f)
  BY <1>1 DEF ListInv, Local, Assigned, Saves
<1>4. rows'[i] \in Row /\ rows[i] \in Row \cup {Absent}
  BY <1>1, Commits DEF Inv, Rowed
<1>5. CASE Does(c, "create")
  <2>1. rows[i] = Absent /\ lock[i] = c
    BY <1>1, <1>5, CreatesNew DEF Inv, Rowed
  <2>2. rows'[i] = tx[c].sets
    BY <1>2, <2>1
  <2>3. AllColumns(c) = Cols
    BY <1>5 DEF AllColumns
  <2> QED
    BY <1>1, <1>3, <1>4, <1>5, <2>2, <2>3 DEF LastValue
<1>6. CASE Does(c, "update")
  <2>1. rows[i] # Absent
    BY <1>1, <1>2, <1>6 DEF Inv, Rowed
  <2>2. AllColumns(c) = DOMAIN Written(In(c)) \cap Cols
    BY <1>1, <1>6 DEF AllColumns
  <2>3. lock[i] # c => AllColumns(c) = {}
    BY <1>3, <1>6, <2>1 DEF ListInv, Locking
  <2>4. DOMAIN rows[i] = Cols
    BY <1>4, <2>1 DEF Row
  <2> QED
    BY <1>1, <1>2, <1>3, <1>4, <1>6, <2>1, <2>2, <2>3, <2>4 DEF LastValue, Over
<1> QED
  BY <1>5, <1>6 DEF Saves

\* What a save commits is what the contract says.
LEMMA CommitMakes ==
    ASSUME ListInv, NEW c \in Calls, Applied(c), Saves(c), NEW i \in Ids, i = Id(c),
           rows'[i] # Absent, TypeInv'
    PROVE  /\ RowOf(i)' = Put(In(c), Base(c)) /\ RowOf(i)' # Absent
           /\ Does(c, "update") => rows[i] # Absent
<1> DEFINE w == Written(In(c))
           kept(f) == {r \in Base(c)[f] : r[1] \notin Sent(f, In(c)[f])}
           new == [f \in DOMAIN w |-> IF f \in Lists THEN w[f] \cup kept(f) ELSE w[f]]
           lists == [l \in Lists |-> Contents(ItemsOf(i, l))']
<1>1. RowOf(i)' = Over(rows'[i], lists)
  BY DEF RowOf
<1>2. Put(In(c), Base(c)) = Over(new, Base(c))
  BY DEF Put
<1>3. DOMAIN w \subseteq Fields
  BY DEF Written
<1>4. /\ Does(c, "update") => rows[i] # Absent
      /\ rows'[i] \in Row
      /\ \A f \in Cols : rows'[i][f] = IF f \in DOMAIN w THEN w[f]
                                       ELSE IF Does(c, "create") THEN NewRow[f] ELSE rows[i][f]
  BY CommitColumns
<1>5. /\ DOMAIN Base(c) = Fields
      /\ \A f \in Cols : Base(c)[f] = IF Does(c, "create") THEN NewRow[f] ELSE rows[i][f]
      /\ \A l \in Lists : Base(c)[l] = Contents(ItemsOf(i, l))
  <2>1. CASE Does(c, "create")
    <3>1. Base(c) = Over(NewRow, Blank) /\ DOMAIN NewRow = Cols
      BY <2>1, NewRowType DEF Base
    <3>2. rows[i] = Absent /\ \A x \in items : x.owner # i
      <4>1. rows[i] = Absent
        BY <2>1, CreatesNew DEF ListInv, TypeInv, Applied
      <4> QED
        BY <4>1 DEF ListInv, TypeInv, Inv, Emptied
    <3>3. \A l \in Lists : Contents(ItemsOf(i, l)) = {}
      BY <3>2 DEF Contents, ItemsOf
    <3> QED
      BY <2>1, <3>1, <3>3, CellsAssumption DEF Over, Blank, Fields
  <2>2. CASE ~Does(c, "create")
    <3>1. rows[i] # Absent /\ rows[i] \in Row
      BY <1>4, <2>2 DEF Saves, ListInv, TypeInv, Inv, Rowed
    <3>2. Base(c) = Over(rows[i], [l \in Lists |-> Contents(ItemsOf(i, l))])
      BY <2>2, <3>1 DEF Base, RowOf
    <3>3. DOMAIN rows[i] = Cols
      BY <3>1 DEF Row
    <3> QED
      BY <2>2, <3>2, <3>3, CellsAssumption DEF Over, Fields
  <2> QED
    BY <2>1, <2>2
<1>6. \A l \in Lists : lists[l] = IF l \in DOMAIN w THEN w[l] \cup kept(l) ELSE Base(c)[l]
  BY <1>5, CommitLists
<1>7. DOMAIN rows'[i] = Cols
  BY <1>4 DEF Row
<1> HIDE DEF w, lists, kept
<1>8. DOMAIN Over(rows'[i], lists) = Fields /\ DOMAIN Over(new, Base(c)) = Fields
  BY <1>3, <1>5, <1>7 DEF Over, Fields, lists
<1>9. ASSUME NEW f \in Fields PROVE Over(rows'[i], lists)[f] = Over(new, Base(c))[f]
  <2>1. CASE f \in Cols
    <3>1. f \notin Lists
      BY <2>1, CellsAssumption
    <3> QED
      BY <1>4, <1>5, <1>7, <2>1, <3>1 DEF Over, Fields
  <2>2. CASE f \in Lists
    <3>1. f \notin Cols
      BY <2>2, CellsAssumption
    <3>2. Over(rows'[i], lists)[f] = lists[f]
      BY <1>7, <2>2, <3>1 DEF Over, lists
    <3> QED
      BY <1>5, <1>6, <2>2, <3>2 DEF Over, Fields
  <2> QED
    BY <2>1, <2>2 DEF Fields
<1>10. Over(rows'[i], lists) = Over(new, Base(c))
  BY <1>8, <1>9 DEF Over
<1>11. RowOf(i)' # Absent
  <2>1. \A l \in Lists : Contents(ItemsOf(i, l))' \in SUBSET (Parts \X Nat \X Values)
    BY DEF TypeInv, Contents, ItemsOf, Item
  <2> QED
    BY <1>1, <1>4, <2>1, FullRows DEF lists
<1> QED
  BY <1>1, <1>2, <1>4, <1>10, <1>11

\* ... and it leaves every other row alone.
LEMMA OthersStay ==
    ASSUME ListInv, NEW c \in Calls, Applied(c), NEW j \in Ids \ {Id(c)}
    PROVE  RowOf(j)' = RowOf(j)
<1>1. /\ rows'[j] = IF lock[j] # c THEN rows[j]
                    ELSE IF call[c].op = "delete" THEN Absent
                    ELSE IF rows[j] = Absent THEN tx[c].sets
                    ELSE Over(tx[c].sets, rows[j])
      /\ items' = (items \ tx[c].gone) \cup tx[c].fresh
      /\ pc[c] = "commit" /\ c \in Open
  BY DEF Applied, Apply, Open
<1>2. lock[j] # c
  BY <1>1 DEF ListInv, TypeInv, Inv, Owned
<1>3. \A x \in tx[c].fresh : x.owner = Id(c)
  BY DEF ListInv, TypeInv, Inv, Owned
<1>4. \A x \in tx[c].gone : x.owner = Id(c)
  <2>1. call[c] # None
    BY <1>1 DEF ListInv, TypeInv, Inv, Shaped
  <2>2. CASE Saves(c)
    BY <1>1, <2>2 DEF ListInv, Local, Listing
  <2>3. CASE Does(c, "delete")
    BY <2>3 DEF ListInv, Locking
  <2> QED
    BY <2>1, <2>2, <2>3, OpenHasId DEF Saves, ListInv, TypeInv
<1>5. \A l : ItemsOf(j, l)' = ItemsOf(j, l)
  BY <1>1, <1>3, <1>4 DEF ItemsOf
<1>6. rows'[j] = rows[j]
  BY <1>1, <1>2
<1> QED
  BY <1>5, <1>6 DEF RowOf, Contents

\* A delete leaves no row.
LEMMA DeleteMakes ==
    ASSUME ListInv, NEW c \in Calls, Applied(c), Does(c, "delete")
    PROVE  RowOf(Id(c))' = Absent
<1>1. /\ Id(c) \in Ids /\ pc[c] = "commit"
      /\ rows'[Id(c)] = IF lock[Id(c)] # c THEN rows[Id(c)] ELSE Absent
  BY OpenHasId DEF Applied, Apply, Does, ListInv, TypeInv
<1>2. rows[Id(c)] = Absent \/ lock[Id(c)] = c
  BY <1>1 DEF ListInv, TypeInv, Inv, Emptied
<1>3. Id(c)' = Id(c)
  BY DEF Applied, Id
<1> QED
  BY <1>1, <1>2, <1>3 DEF RowOf
-------------------------------------------------------------------------------
(* The steps, as they are seen from outside.                                *)

Shows == [i \in Ids |-> RowOf(i)]
Says  == [c \in Calls |-> IF pc[c] = "report" THEN "ok" ELSE answer[c]]

\* What changes no row and no answer is not seen.
LEMMA RowsHidden ==
    ASSUME UNCHANGED <<rows, items>>
    PROVE  Shows' = Shows
<1>1. \A i, l : ItemsOf(i, l)' = ItemsOf(i, l)
  BY DEF ItemsOf
<1>2. \A i \in Ids : RowOf(i)' = RowOf(i)
  BY <1>1 DEF RowOf, Contents
<1> QED
  BY <1>2 DEF Shows

LEMMA SaysOne ==
    ASSUME Shaped, NEW c \in Calls, NEW a, Says'[c] = a,
           \A d \in Calls \ {c} : pc'[d] = pc[d] /\ answer'[d] = answer[d]
    PROVE  Says' = [Says EXCEPT ![c] = a]
<1>1. \A d \in Calls \ {c} : Says'[d] = Says[d]
  BY DEF Says
<1> QED
  BY <1>1 DEF Says

\* A step on the way to the commit.
LEMMA HiddenSteps ==
    ASSUME Inv, NEW c \in Calls,
           \/ Moved(c) \/ Created(c) \/ Updated(c) \/ Listed(c) \/ RemoveRow(c) \/ Cascade(c)
           \/ Report(c)
    PROVE  UNCHANGED <<Shows, Says, call>>
<1>1. UNCHANGED <<rows, items, call>>
  BY DEF Moved, Created, Updated, Listed, RemoveRow, Cascade, Report, Locally
<1>2. CASE ~Report(c)
  <2>1. UNCHANGED answer
    BY <1>2 DEF Moved, Created, Updated, Listed, RemoveRow, Cascade, Locally
  <2>2. pc[c] # "report" /\ \E l \in Stage \ {"report"} : pc' = [pc EXCEPT ![c] = l]
    BY <1>2 DEF Moved, Created, Updated, Listed, RemoveRow, Cascade, AfterSave, Stage, Runs, Goto
  <2> QED
    BY <1>1, <2>1, <2>2, RowsHidden DEF Says, Inv, Shaped
<1>3. CASE Report(c)
  <2>1. /\ answer' = [answer EXCEPT ![c] = "ok"] /\ pc' = [pc EXCEPT ![c] = "done"]
        /\ pc[c] = "report"
    BY <1>3 DEF Report, Goto
  <2> QED
    BY <1>1, <2>1, RowsHidden DEF Says, Inv, Shaped
<1> QED
  BY <1>2, <1>3

\* A call that is rolled back is refused, whatever it is told.
LEMMA RefusedSteps ==
    ASSUME Inv, NEW c \in Calls, c \in Open, NEW a, Return(c, a)
    PROVE  /\ UNCHANGED <<Shows, call>> /\ Says' = [Says EXCEPT ![c] = a]
           /\ call[c] # None /\ Says[c] = None
<1>1. UNCHANGED <<rows, items, call>> /\ pc' = [pc EXCEPT ![c] = "done"]
  BY DEF Return, Goto
<1>2. answer' = [answer EXCEPT ![c] = a] /\ pc[c] \notin {"idle", "report", "done"}
  BY DEF Return, Open
<1>3. call[c] # None /\ Says[c] = None
  BY <1>2 DEF Inv, Shaped, Staged, Says
<1>4. Says' = [Says EXCEPT ![c] = a]
  <2>1. pc'[c] = "done" /\ answer'[c] = a
    BY <1>1, <1>2 DEF Inv, Shaped
  <2>2. \A d \in Calls \ {c} : pc'[d] = pc[d] /\ answer'[d] = answer[d]
    BY <1>1, <1>2 DEF Inv, Shaped
  <2> QED
    BY <2>1, <2>2, SaysOne DEF Inv, Says
<1> QED
  BY <1>1, <1>3, <1>4, RowsHidden

\* An update of nothing tells only whether the row is there.
LEMMA EmptyStays ==
    ASSUME TypeInv, NEW c \in Calls, Acts(c), \A d \in Calls : Empty(d)
    PROVE  \A d \in Calls : Empty(d)'
<1>1. Step(c)
  BY Shapes DEF TypeInv, Inv, Acts
<1>2. ASSUME NEW d \in Calls \ {c} PROVE Empty(d)'
  BY <1>1, Frame DEF TypeInv, Empty, In
<1>3. CASE Start(c)
  <2>1. PICK r \in Contract!Operations :
         /\ call' = [call EXCEPT ![c] = r]
         /\ Goto(c, CASE r.op = "create" -> "hook"
                      [] r.op = "delete" -> "remove"
                      [] r.op = "update" -> IF Assignments(r.in) = {} /\ Deferred(r.in) = {}
                                            THEN "exists" ELSE "before")
    BY <1>3 DEF Start
  <2>2. call'[c] = r
    BY <2>1 DEF TypeInv, Inv, Shaped
  <2>3. r.op \in {"create", "delete", "update"}
    BY DEF Contract!Operations, Contract!Create, Contract!Update, Contract!Delete
  <2>4. pc'[c] = "exists" => Assignments(r.in) = {} /\ Deferred(r.in) = {}
    BY <2>1, <2>3 DEF TypeInv, Inv, Shaped, Goto
  <2> QED
    BY <1>2, <2>2, <2>4 DEF Empty, In
<1>4. CASE ~Start(c)
  <2>1. pc'[c] # "exists"
    <3>1. CASE ReadBefore(c) \/ CheckExists(c) \/ RefuseRemove(c) \/ Fail(c) \/ DeadlockVictim(c)
      BY <3>1 DEF ReadBefore, CheckExists, RefuseRemove, Fail, DeadlockVictim, Return, Goto,
                  TypeInv, Inv, Shaped
    <3>2. CASE CreateHook(c) \/ ReadBeforeList(c) \/ UpdateRow(c) \/ ResolveDeferred(c)
               \/ StartReplace(c) \/ FinishReplace(c) \/ ReadBack(c)
      BY <3>2 DEF CreateHook, ReadBeforeList, UpdateRow, ResolveDeferred, StartReplace,
                  FinishReplace, ReadBack, Goto, AfterDeferred, TypeInv, Inv, Shaped
    <3>3. CASE InsertList(c)
      BY <3>3, ListShape DEF Listed, RolledBack, Return, AfterSave, Goto, TypeInv, Inv, Shaped
    <3>4. CASE UpdateBack(c) \/ RemoveRow(c) \/ Cascade(c) \/ Commit(c) \/ CommitUnheard(c)
               \/ Report(c)
      BY <3>4 DEF UpdateBack, RemoveRow, Cascade, Commit, CommitUnheard, Report, Goto,
                  TypeInv, Inv, Shaped
    <3> QED
      BY <1>4, <3>1, <3>2, <3>3, <3>4 DEF Acts, Statement
  <2> QED
    BY <1>2, <2>1 DEF Empty
<1> QED
  BY <1>3, <1>4

\* To write nothing over a row is to leave it.
LEMMA NothingPut ==
    ASSUME TypeInv, NEW c \in Calls, Empty(c), pc[c] = "exists", NEW row \in FullRow
    PROVE  Put(In(c), row) = row
<1>1. DOMAIN Written(In(c)) = {}
  <2>1. \A f \in DOMAIN Written(In(c)) : f \in Assignments(In(c)) \cup Deferred(In(c))
    BY DEF Written, Assignments, Deferred, Fields, Cols
  <2> QED
    BY <2>1 DEF Empty
<1> DEFINE w == Written(In(c))
           new == [f \in DOMAIN w |->
                       IF f \in Lists THEN w[f] \cup {r \in row[f] : r[1] \notin Sent(f, In(c)[f])}
                       ELSE w[f]]
<1>2. Put(In(c), row) = Over(new, row) /\ DOMAIN new = {}
  BY <1>1 DEF Put
<1> HIDE DEF new
<1>3. Over(new, row) = [k \in DOMAIN row |-> row[k]]
  BY <1>2 DEF Over
<1> QED
  BY <1>2, <1>3 DEF FullRow

\* A call that takes effect at its commit.
LEMMA CommitStep ==
    ASSUME ListInv, TypeInv', ~LossyCommit, NoneMissed', NEW c \in Calls,
           Commit(c) \/ CommitUnheard(c)
    PROVE  Contract!SaveCreate(c) \/ Contract!SaveUpdate(c) \/ Contract!Remove(c)
<1>1. /\ Commit(c) /\ pc[c] = "commit" /\ call' = call /\ Id(c) \in Ids
      /\ call[c] # None /\ answer[c] = None /\ Apply(c)
  BY OpenHasId DEF Commit, CommitUnheard, ListInv, TypeInv, Inv, Shaped, Staged
<1>2. Applied(c)
  BY <1>1 DEF Commit, Applied, AfterCommit
<1>3. Says[c] = None
  BY <1>1 DEF Says
<1>4. Says' = [Says EXCEPT ![c] = "ok"]
  <2>1. Says'[c] = "ok" /\ \A d \in Calls \ {c} : pc'[d] = pc[d] /\ answer'[d] = answer[d]
    BY <1>1 DEF Commit, Goto, Says, ListInv, TypeInv, Inv, Shaped
  <2> QED
    BY <2>1, SaysOne DEF ListInv, TypeInv, Inv
<1>5. \A j \in Ids \ {Id(c)} : Shows'[j] = Shows[j]
  BY <1>2, OthersStay DEF Shows
<1>6. ASSUME NEW r, RowOf(Id(c))' = r PROVE Shows' = [Shows EXCEPT ![call[c].id] = r]
  <2>1. Shows'[Id(c)] = r
    <3>1. \A i \in Ids : Shows'[i] = RowOf(i)'
      BY DEF Shows
    <3>2. Id(c)' = Id(c) /\ \A i : i = Id(c) => RowOf(i)' = RowOf(Id(c))'
      BY <1>1 DEF Id
    <3> QED
      BY <1>1, <1>6, <3>1, <3>2
  <2>2. Shows = [i \in Ids |-> Shows[i]] /\ Shows' = [i \in Ids |-> Shows'[i]]
    BY DEF Shows
  <2>3. Shows' = [i \in Ids |-> IF i = Id(c) THEN r ELSE Shows[i]]
    BY <1>1, <1>5, <2>1, <2>2
  <2>4. DOMAIN Shows = Ids
    BY DEF Shows
  <2> QED
    BY <1>1, <2>3, <2>4 DEF Id
<1>7. CASE Does(c, "delete")
  <2>1. Shows' = [Shows EXCEPT ![call[c].id] = Absent]
    BY <1>2, <1>6, <1>7, DeleteMakes
  <2> QED
    BY <1>1, <1>3, <1>4, <1>7, <2>1
       DEF Does, Shows, Says, Contract!Remove, Contract!Pending, Contract!Answer
<1>8. CASE Saves(c)
  <2>1. rows'[Id(c)] # Absent
    <3>1. pc'[c] = "report"
      BY <1>1, <1>8 DEF Commit, Goto, Saves, Does, ListInv, TypeInv, Inv, Shaped
    <3>2. effect'[c].after # Absent
      BY <3>1 DEF NoneMissed
    <3>3. \E i \in {Id(c)} :
            effect' = Over([d \in {c} |-> [before |-> RowOf(i), after |-> RowOf(i)']], effect)
      BY <1>1 DEF Apply
    <3>4. effect'[c].after = RowOf(Id(c))'
      BY <1>1, <3>3 DEF Over, Id
    <3> QED
      BY <1>1, <3>2, <3>4 DEF RowOf, Id
  <2>2. /\ RowOf(Id(c))' = Put(In(c), Base(c))
        /\ Does(c, "update") => rows[Id(c)] # Absent
    <3>1. \E i \in Ids : i = Id(c)
      BY <1>1
    <3>2. PICK i \in Ids : i = Id(c)
      BY <3>1
    <3>3. /\ RowOf(i)' = Put(In(c), Base(c))
          /\ Does(c, "update") => rows[i] # Absent
      BY <1>2, <1>8, <2>1, <3>2, CommitMakes
    <3> QED
      BY <1>1, <3>2, <3>3 DEF Id
  <2>3. Shows' = [Shows EXCEPT ![call[c].id] = Put(In(c), Base(c))]
    BY <1>6, <2>2
  <2>4. CASE Does(c, "create")
    BY <1>1, <1>3, <1>4, <2>3, <2>4
       DEF Does, Base, In, Shows, Says, Contract!SaveCreate, Contract!Pending, Contract!Answer
  <2>5. CASE Does(c, "update")
    <3>1. /\ Shows[call[c].id] = RowOf(Id(c)) /\ Base(c) = RowOf(Id(c))
          /\ RowOf(Id(c)) # Absent
      BY <1>1, <2>2, <2>5, RowThere DEF ListInv, Shows, Base, Id, Does
    <3> QED
      BY <1>1, <1>3, <1>4, <2>3, <2>5, <3>1
         DEF Does, In, Shows, Says, Contract!SaveUpdate, Contract!Pending, Contract!Answer
  <2> QED
    BY <1>8, <2>4, <2>5 DEF Saves
<1> QED
  BY <1>1, <1>7, <1>8, OpenHasId DEF Saves, ListInv, TypeInv

\* Every other step of a call.
LEMMA OtherStep ==
    ASSUME TypeInv, NEW c \in Calls, Acts(c), Empty(c), ~Commit(c), ~CommitUnheard(c)
    PROVE  \/ Contract!Invoke(c) \/ Contract!SaveUpdate(c) \/ Contract!SaveNotFound(c)
           \/ Contract!Refuse(c) \/ UNCHANGED <<Shows, call, Says>>
<1> USE DEF TypeInv
<1>1. CASE Start(c)
  <2>1. PICK r \in Contract!Operations : /\ call' = [call EXCEPT ![c] = r]
                                         /\ \E l \in Stage \ {"report"} : Goto(c, l)
    BY <1>1, StartShape DEF Started, AfterBegin, Stage, Inv
  <2>2. UNCHANGED <<rows, items, answer>> /\ pc[c] = "idle"
    BY <1>1 DEF Start
  <2>3. UNCHANGED <<Shows, Says>>
    BY <2>1, <2>2, RowsHidden DEF Says, Goto, Inv, Shaped
  <2>4. call[c] = None
    BY <2>2 DEF Inv, Shaped
  <2> QED
    BY <2>1, <2>3, <2>4 DEF Contract!Invoke, Shows, Says
<1>2. CASE \/ ReadBefore(c) /\ rows[Id(c)] # Absent
           \/ ReadBeforeList(c) \/ ResolveDeferred(c)
           \/ StartReplace(c) \/ FinishReplace(c) \/ ReadBack(c)
           \/ CreateHook(c) \/ UpdateRow(c) \/ UpdateBack(c) \/ RemoveRow(c) \/ Cascade(c)
           \/ Report(c)
  BY <1>2, MoveShape, CreateShape, UpdateShape, HiddenSteps DEF Inv
<1>3. CASE \/ (ReadBefore(c) /\ rows[Id(c)] = Absent) \/ (CheckExists(c) /\ rows[Id(c)] = Absent)
  <2>1. Return(c, "notfound") /\ pc[c] \in {"before", "exists"} /\ rows[Id(c)] = Absent
    BY <1>3 DEF ReadBefore, CheckExists
  <2>2. c \in Open /\ Does(c, "update")
    BY <2>1, SavesAre DEF Open, Ahead
  <2>3. /\ UNCHANGED <<Shows, call>> /\ Says' = [Says EXCEPT ![c] = "notfound"]
        /\ call[c] # None /\ Says[c] = None
    BY <2>1, <2>2, RefusedSteps
  <2>4. Shows[call[c].id] = Absent
    BY <2>1, <2>2, OpenHasId DEF Shows, Id, RowOf, Does
  <2> QED
    BY <2>2, <2>3, <2>4
       DEF Does, Shows, Says, Contract!SaveNotFound, Contract!Pending, Contract!Answer
<1>4. CASE CheckExists(c) /\ rows[Id(c)] # Absent
  <2>1. Return(c, "ok") /\ pc[c] = "exists"
    BY <1>4 DEF CheckExists
  <2>2. c \in Open /\ Does(c, "update")
    BY <2>1, SavesAre DEF Open, Ahead
  <2>3. /\ UNCHANGED <<Shows, call>> /\ Says' = [Says EXCEPT ![c] = "ok"]
        /\ call[c] # None /\ Says[c] = None
    BY <2>1, <2>2, RefusedSteps
  <2>4. Id(c) \in Ids /\ RowOf(Id(c)) \in FullRow /\ RowOf(Id(c)) # Absent
    BY <1>4, <2>2, OpenHasId, RowThere DEF Does
  <2>5. Shows[call[c].id] = RowOf(Id(c)) /\ Put(In(c), RowOf(Id(c))) = RowOf(Id(c))
    BY <2>1, <2>4, NothingPut DEF Shows, Id
  <2>6. Shows' = [Shows EXCEPT ![call[c].id] = Put(In(c), Shows[call[c].id])]
    BY <2>3, <2>4, <2>5 DEF Shows, Id
  <2> QED
    BY <2>2, <2>3, <2>4, <2>5, <2>6
       DEF Does, In, Shows, Says, Contract!SaveUpdate, Contract!Pending, Contract!Answer
<1>5. CASE InsertList(c)
  <2>1. CASE Listed(c)
    BY <2>1, HiddenSteps
  <2>2. CASE Return(c, "err")
    <3>1. c \in Open
      BY <1>5 DEF InsertList, Runs, Open
    <3> QED
      BY <2>2, <3>1, RefusedSteps
         DEF Shows, Says, Contract!Refuse, Contract!Refusals, Contract!Answer
  <2>3. Listed(c) \/ Return(c, "err")
    <3>1. CASE ~Return(c, "err")
      <4>1. Listed(c) \/ RolledBack(c)
        BY <1>5, ListShape DEF Inv
      <4>2. pc'[c] # "done"
        BY <1>5, <3>1 DEF InsertList, Goto, AfterDeferred, Inv, Shaped
      <4>3. ~RolledBack(c)
        BY <4>2 DEF RolledBack, Return, Goto, Inv, Shaped
      <4> QED
        BY <4>1, <4>3
    <3> QED
      BY <3>1
  <2> QED
    BY <2>1, <2>2, <2>3
<1>6. CASE RefuseRemove(c)
  <2>1. Return(c, "conflict") /\ c \in Open /\ call[c].op = "delete"
    BY <1>6 DEF RefuseRemove, Runs, Open, Inv, Staged
  <2> QED
    BY <2>1, RefusedSteps DEF Shows, Says, Contract!Refuse, Contract!Refusals, Contract!Answer
<1>7. CASE Fail(c) \/ DeadlockVictim(c)
  <2>1. Return(c, "err") /\ c \in Open
    BY <1>7 DEF Fail, DeadlockVictim
  <2> QED
    BY <2>1, RefusedSteps DEF Shows, Says, Contract!Refuse, Contract!Refusals, Contract!Answer
<1> QED
  BY <1>1, <1>2, <1>3, <1>4, <1>5, <1>6, <1>7 DEF Acts, Statement

\* The rows at the start, with their lists.
LEMMA InitShows ==
    ASSUME Init, NEW i \in Ids
    PROVE  RowOf(i) = IF i \in InitialIds THEN Put(Seed, Over(NewRow, Blank)) ELSE Absent
<1> DEFINE W == Written(Seed)
           C(j, m) == {[owner |-> j, cell |-> m, row |-> r, by |-> None] : r \in W[m]}
<1>1. CASE i \notin InitialIds
  BY <1>1 DEF Init, RowOf
<1>2. CASE i \in InitialIds
  <2>1. rows[i] = Over(Columns(W), NewRow)
    BY <1>2 DEF Init
  <2>2. rows[i] # Absent
    <3>1. TypeInv
      BY InitTypes
    <3>2. DOMAIN Columns(W) \subseteq Cols /\ DOMAIN NewRow = Cols /\ Assigns(NewRow)
      BY NewRowType DEF Columns
    <3>3. \A f \in DOMAIN Columns(W) : Columns(W)[f] \in Values \cup {Null}
      BY WrittenColumns DEF Columns
    <3>4. Over(Columns(W), NewRow) \in Row
      BY <3>2, <3>3 DEF Over, Row, Assigns
    <3> QED
      BY <2>1, <3>4, AbsentAssumption
  <2>3. \A l \in Lists : Contents(ItemsOf(i, l)) = IF l \in DOMAIN W THEN W[l] ELSE {}
    <3>1. items = UNION {C(j, m) : j \in InitialIds, m \in Lists \cap DOMAIN W}
      BY DEF Init
    <3> HIDE DEF W
    <3> SUFFICES ASSUME NEW l \in Lists
                 PROVE  Contents(ItemsOf(i, l)) = IF l \in DOMAIN W THEN W[l] ELSE {}
      OBVIOUS
    <3>2. \A x \in items : \E j \in InitialIds, m \in Lists \cap DOMAIN W : x \in C(j, m)
      BY <3>1
    <3>3. ASSUME NEW x \in items, x.owner = i, x.cell = l PROVE l \in DOMAIN W /\ x.row \in W[l]
      BY <3>2, <3>3
    <3>4. ASSUME l \in DOMAIN W, NEW r \in W[l]
          PROVE  \E x \in items : x.owner = i /\ x.cell = l /\ x.row = r
      <4> DEFINE x == [owner |-> i, cell |-> l, row |-> r, by |-> None]
      <4>1. x \in C(i, l) /\ i \in InitialIds /\ l \in Lists \cap DOMAIN W
        BY <1>2, <3>4
      <4>2. x \in items
        <5> HIDE DEF C, x
        <5> QED
          BY <3>1, <4>1
      <4> QED
        BY <4>2
    <3> QED
      BY <3>3, <3>4 DEF Contents, ItemsOf
  <2>4. \A l \in Lists : Over(NewRow, Blank)[l] = {}
    BY NewRowType, CellsAssumption DEF Over, Blank, Fields
  <2>5. \A f \in Cols : f \notin Lists /\ Over(NewRow, Blank)[f] = NewRow[f]
    BY NewRowType, CellsAssumption DEF Over, Blank, Fields
  <2> DEFINE new == [f \in DOMAIN W |->
                         IF f \in Lists
                         THEN W[f] \cup {r \in Over(NewRow, Blank)[f] : r[1] \notin Sent(f, Seed[f])}
                         ELSE W[f]]
             lists == [l \in Lists |-> Contents(ItemsOf(i, l))]
  <2>6. \A f \in DOMAIN W : new[f] = W[f]
    BY <2>4 DEF Written
  <2>7. RowOf(i) = Over(Over(Columns(W), NewRow), lists)
    BY <2>1, <2>2 DEF RowOf
  <2>8. Put(Seed, Over(NewRow, Blank)) = Over(new, Over(NewRow, Blank))
    BY DEF Put
  <2>9. /\ DOMAIN W \subseteq Fields /\ DOMAIN NewRow = Cols /\ DOMAIN Blank = Fields
        /\ DOMAIN Over(NewRow, Blank) = Fields /\ DOMAIN new = DOMAIN W
        /\ DOMAIN lists = Lists
        /\ DOMAIN Columns(W) = DOMAIN W \cap Cols
    BY NewRowType DEF Written, Blank, Over, Fields, Columns
  <2>10. \A l \in Lists : lists[l] = IF l \in DOMAIN W THEN W[l] ELSE {}
    BY <2>3
  <2>11. /\ DOMAIN Over(Columns(W), NewRow) = Cols
         /\ \A f \in Cols : Over(Columns(W), NewRow)[f] = IF f \in DOMAIN W THEN W[f] ELSE NewRow[f]
    BY <2>9 DEF Over, Columns
  <2> HIDE DEF W, new, lists
  <2>12. Over(Over(Columns(W), NewRow), lists) = Over(new, Over(NewRow, Blank))
    <3> DEFINE a == Over(Columns(W), NewRow)
               b == Over(NewRow, Blank)
    <3>1. /\ DOMAIN a = Cols /\ DOMAIN b = Fields /\ DOMAIN lists = Lists
          /\ DOMAIN new \subseteq Fields /\ Fields = Cols \cup Lists
      BY <2>9, <2>11 DEF Fields
    <3>2. \A f \in Cols : f \notin Lists /\ a[f] = IF f \in DOMAIN new THEN new[f] ELSE b[f]
      BY <2>5, <2>6, <2>9, <2>11
    <3>3. \A l \in Lists : l \notin Cols /\ lists[l] = IF l \in DOMAIN new THEN new[l] ELSE b[l]
      BY <2>4, <2>6, <2>9, <2>10, CellsAssumption
    <3> HIDE DEF a, b
    <3>4. Over(a, lists) = Over(new, b)
      BY <3>1, <3>2, <3>3 DEF Over
    <3> QED
      BY <3>4 DEF a, b
  <2> QED
    BY <1>2, <2>7, <2>8, <2>12
<1> QED
  BY <1>1, <1>2
-------------------------------------------------------------------------------
(* The theorems.                                                            *)
SeenInv == ListInv /\ \A c \in Calls : Empty(c)

LEMMA SeenInvariant ==
    ASSUME LocksFirst PROVE Spec => []SeenInv
<1>1. Init => SeenInv
  <2> SUFFICES ASSUME Init PROVE \A c \in Calls : Empty(c)
    BY InitLists DEF SeenInv
  <2> QED
    BY DEF Init, Empty
<1>2. SeenInv /\ [Next]_vars => SeenInv'
  <2> SUFFICES ASSUME SeenInv, [Next]_vars PROVE \A c \in Calls : Empty(c)'
    BY NextLists DEF SeenInv
  <2>1. CASE UNCHANGED vars
    BY <2>1 DEF vars, SeenInv, Empty, In
  <2>2. CASE \E c \in Calls : Acts(c)
    BY <2>2, EmptyStays DEF SeenInv, ListInv
  <2> QED
    BY <2>1, <2>2 DEF Next, Finished, Acts
<1> QED
  BY <1>1, <1>2, PTL DEF Spec

LEMMA StepImplements ==
    ASSUME SeenInv, ListInv', ~LossyCommit, NoneMissed', [Next]_vars
    PROVE  [Contract!Next]_(Contract!vars)
<1>1. CASE UNCHANGED vars
  <2>1. UNCHANGED <<Shows, Says, call>>
    BY <1>1, RowsHidden DEF vars, Says
  <2> QED
    BY <2>1 DEF Shows, Says, Contract!vars
<1>2. ASSUME NEW c \in Calls, Acts(c) PROVE [Contract!Next]_(Contract!vars)
  <2>1. CASE Commit(c) \/ CommitUnheard(c)
    <3>1. Contract!SaveCreate(c) \/ Contract!SaveUpdate(c) \/ Contract!Remove(c)
      BY <2>1, CommitStep DEF SeenInv, ListInv
    <3> QED
      BY <3>1 DEF Contract!Next
  <2>2. CASE ~(Commit(c) \/ CommitUnheard(c))
    <3>1. \/ Contract!Invoke(c) \/ Contract!SaveUpdate(c) \/ Contract!SaveNotFound(c)
          \/ Contract!Refuse(c) \/ UNCHANGED <<Shows, call, Says>>
      BY <1>2, <2>2, OtherStep DEF SeenInv, ListInv
    <3>2. UNCHANGED <<Shows, call, Says>> => UNCHANGED Contract!vars
      BY DEF Shows, Says, Contract!vars
    <3> QED
      BY <3>1, <3>2 DEF Contract!Next
  <2> QED
    BY <2>1, <2>2
<1> QED
  BY <1>1, <1>2 DEF Next, Finished, Acts

\* types.go: the store keeps the promise of the Entity hooks.  Every Save and every
\* Delete takes effect in one step or in none, as long as the answer to a commit is
\* not lost and no save has written a row that was deleted under it, the case that
\* MissingRowIsNotReported is about.
THEOREM ImplementsContract ==
    ASSUME LocksFirst, ~LossyCommit
    PROVE  Spec /\ []NoneMissed => KeepsContract
<1>1. Init => Contract!Init
  <2> SUFFICES ASSUME Init PROVE Contract!Init
    OBVIOUS
  <2>1. \A i \in Ids : RowOf(i) = IF i \in InitialIds THEN Put(Seed, Over(NewRow, Blank))
                                  ELSE Absent
    BY InitShows
  <2>2. /\ call = [c \in Calls |-> None]
        /\ [c \in Calls |-> IF pc[c] = "report" THEN "ok" ELSE answer[c]]
              = [c \in Calls |-> None]
    BY DEF Init
  <2> QED
    BY <2>1, <2>2 DEF Contract!Init
<1>2. SeenInv /\ SeenInv' /\ NoneMissed' /\ [Next]_vars => [Contract!Next]_(Contract!vars)
  BY StepImplements DEF SeenInv
<1>3. Spec => []SeenInv
  BY SeenInvariant
<1> QED
  BY <1>1, <1>2, <1>3, PTL DEF Spec, KeepsContract, Contract!Spec

\* Every body inserts a row of some list.
AlwaysInserts ==
    \A in \in Payloads : \E l \in Lists \cap DOMAIN in : Parses(l, in[l]) /\ ListRows(l, in[l]) # {}

MissInv == /\ CommitInv /\ NoneMissed /\ MissingRowIsNotReported

LEMMA InsertsFindRow ==
    ASSUME ListInv, AlwaysInserts, NEW c \in Calls, Applied(c), Saves(c)
    PROVE  rows'[Id(c)] # Absent
<1>1. /\ pc[c] = "commit" /\ c \in Open /\ In(c) \in Payloads /\ Id(c) \in Ids /\ Inv
      /\ call[c] # None /\ ~Does(c, "delete")
  BY SavesAre, OpenHasId DEF Applied, Open, ListInv, TypeInv, Saves, Does
<1>2. CASE Does(c, "create")
  BY <1>1, <1>2, Commits, AbsentAssumption DEF Inv, Rowed
<1>3. CASE Does(c, "update")
  <2>1. PICK l \in Lists \cap DOMAIN In(c) : Parses(l, In(c)[l]) /\ ListRows(l, In(c)[l]) # {}
    BY <1>1 DEF AlwaysInserts
  <2>2. PICK key \in Sent(l, In(c)[l]) : PartRows(l, key, ListAt(l, In(c)[l], key)) # {}
    BY <2>1 DEF ListRows
  <2>3. l \in DOMAIN Written(In(c))
    BY <2>1 DEF Written, Fields
  <2>4. <<l, key>> \in ListSteps(c)
    BY <2>1, <2>2, <2>3, SentSteps DEF ListInv
  <2>5. InsertedBy(c, <<l, key>>) # {}
    <3> DEFINE P == PartRows(l, key, ListAt(l, In(c)[l], key))
    <3>1. InsertedBy(c, <<l, key>>) = [owner : {Id(c)}, cell : {l}, by : {c}, row : P]
      BY DEF InsertedBy
    <3>2. PICK r : r \in P
      BY <2>2
    <3> HIDE DEF P
    <3>3. [owner |-> Id(c), cell |-> l, by |-> c, row |-> r] \in InsertedBy(c, <<l, key>>)
      BY <3>1, <3>2
    <3> QED
      BY <3>3
  <2>6. InsertedBy(c, <<l, key>>) \subseteq tx[c].fresh
    BY <1>1, <2>4 DEF ListInv, Local, Planned, Listing
  <2>7. \E x \in tx[c].fresh : x.owner = Id(c)
    BY <2>5, <2>6 DEF InsertedBy
  <2>8. rows[Id(c)] # Absent
    BY <1>1, <1>3, <2>7, SavesAre DEF Inv, Emptied, ListInv
  <2> QED
    BY <1>1, <2>8, Commits, AbsentAssumption
<1> QED
  BY <1>2, <1>3 DEF Saves

LEMMA NoneMissedStays ==
    ASSUME ListInv, ListInv', AlwaysInserts, MissInv, NEW c \in Calls, Acts(c)
    PROVE  NoneMissed' /\ MissingRowIsNotReported'
<1>1. Step(c) /\ Inv
  BY Shapes DEF ListInv, TypeInv, Inv, Acts
<1>2. \A d \in Calls \ {c} : pc'[d] = pc[d]
  BY <1>1, Frame
<1>3. CASE Applied(c)
  <2>1. PICK i \in {Id(c)} :
            effect' = Over([d \in {c} |-> [before |-> RowOf(i), after |-> RowOf(i)']], effect)
    BY <1>3 DEF Applied, Apply
  <2>2. /\ \A d \in Calls \ {c} : d \in DOMAIN effect => effect'[d] = effect[d]
        /\ effect'[c].after = RowOf(Id(c))'
    <3>1. i = Id(c) /\ Id(c)' = Id(c)
      BY <1>3 DEF Applied, Id
    <3> QED
      BY <2>1, <3>1 DEF Over, RowOf
  <2>3. /\ report' = report /\ call' = call /\ Id(c)' = Id(c) /\ report[c] = None
        /\ pc[c] = "commit"
    <3>1. pc[c] = "commit" /\ report' = report /\ call' = call
      BY <1>3 DEF Applied
    <3> QED
      BY <3>1 DEF Id, MissInv, CommitInv, Told
  <2>4. pc'[c] = "report" => effect'[c].after # Absent
    <3> SUFFICES ASSUME pc'[c] = "report" PROVE RowOf(Id(c))' # Absent
      BY <2>2
    <3>1. call[c].op # "delete" /\ call[c] # None
      BY <1>1, <1>3, <2>3 DEF Applied, Goto, Inv, Shaped
    <3>2. Saves(c)
      BY <1>1, <3>1, OpenHasId DEF Saves, Does
    <3>3. rows'[Id(c)] # Absent /\ Id(c) \in Ids
      BY <1>1, <1>3, <3>1, <3>2, InsertsFindRow, OpenHasId
    <3>4. TypeInv'
      BY DEF ListInv
    <3>5. \A l \in Lists : Contents(ItemsOf(Id(c), l))' \in SUBSET (Parts \X Nat \X Values)
      BY <3>4 DEF TypeInv, Contents, ItemsOf, Item
    <3>6. rows'[Id(c)] \in Row
      BY <3>3, <3>4 DEF TypeInv
    <3>7. RowOf(Id(c))' = Over(rows'[Id(c)], [l \in Lists |-> Contents(ItemsOf(Id(c), l))'])
      BY <2>3, <3>3 DEF RowOf
    <3> QED
      BY <3>5, <3>6, <3>7, FullRows
  <2> QED
    BY <1>2, <2>2, <2>3, <2>4 DEF MissInv, CommitInv, Told, NoneMissed, MissingRowIsNotReported
<1>4. CASE Report(c)
  <2>1. /\ effect' = effect /\ pc[c] = "report"
        /\ \A d \in Calls \ {c} : report'[d] = report[d]
    BY <1>1, <1>4 DEF Report, Inv, Shaped
  <2>2. pc'[c] = "done"
    BY <1>1, <1>4 DEF Report, Goto, Inv, Shaped
  <2> QED
    BY <1>2, <2>1, <2>2 DEF MissInv, NoneMissed, MissingRowIsNotReported
<1>5. CASE ~Applied(c) /\ ~Report(c)
  <2>1. UNCHANGED <<effect, report>>
    BY <1>1, <1>5 DEF Step, Started, Moved, Created, Updated, Listed, RemoveRow, Cascade, RolledBack,
                      Return, Locally
  <2>2. pc'[c] # "report"
    BY <1>1, <1>5 DEF Step, Started, AfterBegin, Moved, Created, Updated, Listed, AfterSave,
                      RemoveRow, Cascade, RolledBack, Return, Goto, Inv, Shaped
  <2> QED
    BY <1>2, <2>1, <2>2 DEF MissInv, NoneMissed, MissingRowIsNotReported
<1> QED
  BY <1>3, <1>4, <1>5
\* errors.go:14: a save that inserts a list row fails when its row has been deleted, for
\* the foreign key, and is not reported.
THEOREM InsertsAreNotMissed ==
    ASSUME LocksFirst, AlwaysInserts PROVE Spec => []NoneMissed /\ []MissingRowIsNotReported
<1>1. Init => MissInv
  BY InitTold DEF Init, MissInv, NoneMissed, MissingRowIsNotReported
<1>2. ListInv /\ ListInv' /\ MissInv /\ [Next]_vars => MissInv'
  <2> SUFFICES ASSUME ListInv, ListInv', MissInv, [Next]_vars PROVE MissInv'
    OBVIOUS
  <2>1. CASE UNCHANGED vars
    BY <2>1, CommitInvStays DEF MissInv, vars, NoneMissed, MissingRowIsNotReported
  <2>2. CASE \E c \in Calls : Acts(c)
    BY <2>2, CommitInvStays, NoneMissedStays DEF MissInv
  <2> QED
    BY <2>1, <2>2 DEF Next, Finished, Acts
<1>3. Spec => []ListInv
  <2>1. ListInv /\ [Next]_vars => ListInv'
    BY NextLists
  <2> QED
    BY <2>1, InitLists, PTL DEF Spec
<1>4. MissInv => NoneMissed /\ MissingRowIsNotReported
  BY DEF MissInv
<1> QED
  BY <1>1, <1>2, <1>3, <1>4, PTL DEF Spec

\* ... so that a store whose bodies all do keeps the promise without a proviso.
COROLLARY InsertsImplementContract ==
    ASSUME LocksFirst, AlwaysInserts, ~LossyCommit PROVE Spec => KeepsContract
  BY ImplementsContract, InsertsAreNotMissed, PTL
-------------------------------------------------------------------------------
(* What OnWrite is told.  The lists that a save returns are those its       *)
(* commit leaves in the tables, so the row it shows is the one it commits.  *)

\* The rows of a cell: finitely many, and no two of them equal but for who wrote them.
Good(S) == IsFiniteSet(S) /\ \A x, y \in S : x.row = y.row => x = y

\* The last step of a list cell.
LastStep(l) == <<l, IF l \in Rels THEN Whole ELSE Reread>>

\* The rows of a cell once a save is through with it.
Final(c, l) == {x \in ItemsOf(Id(c), l) : ListOf(x) \notin ListSteps(c)}
                 \cup UNION {InsertedBy(c, s) : s \in {t \in ListSteps(c) : t[1] = l}}

\* A save that has its row has returned, of the cells it is through with, these.
Echoed(c) ==
    Saves(c) /\ pc[c] \in Saving /\ lock[Id(c)] = c =>
        \A l \in Lists \cap DOMAIN Written(In(c)) :
            LastStep(l) \notin tx[c].todo =>
                l \in DOMAIN tx[c].echo /\ tx[c].echo[l] = Final(c, l)

\* An update has read all the fields it may write.
Asked(c) == Assignments(In(c)) \cup Deferred(In(c))
Read(c) ==
    Does(c, "update") =>
        /\ pc[c] = "beforeLists" => Asked(c) \subseteq DOMAIN tx[c].before \cup tx[c].unread
        /\ pc[c] \in {"update", "report"} \cup Saving => Asked(c) \subseteq DOMAIN tx[c].before
        /\ \A l \in Lists \cap DOMAIN tx[c].before : Good(tx[c].before[l])

\* A committed save, until it is reported.
Settled(c) ==
    pc[c] = "report" =>
        LET told == Lists \cap DOMAIN Written(In(c))
        IN /\ Saves(c) /\ c \in DOMAIN effect
           /\ Does(c, "create") => effect[c].after = Put(In(c), Over(NewRow, Blank))
           /\ Does(c, "update") /\ effect[c].before # Absent =>
                  effect[c].before \in FullRow /\ effect[c].after = Put(In(c), effect[c].before)
           /\ Does(c, "create") \/ effect[c].before # Absent =>
                  \A l \in told : /\ l \in DOMAIN tx[c].echo /\ Good(tx[c].echo[l])
                                  /\ effect[c].after[l] = Contents(tx[c].echo[l])

\* What a call has reported is true.
True(c) ==
    report[c] # None =>
        LET told == report[c].changes
        IN IF report[c].created
           THEN /\ effect[c].after = Over([f \in DOMAIN told |-> told[f].new], Blank)
                /\ report[c].twice \subseteq DOMAIN HookRow \cap DeferredCols
           ELSE UpToDate(c) => told = Changes(effect[c].before, effect[c].after)

JournalInv == /\ ListInv /\ CommitInv
              /\ \A c \in Calls : Echoed(c) /\ Read(c) /\ Settled(c) /\ True(c)

\* A cell's rows are good if each of its lists is one that was sent.
LEMMA GoodLists ==
    ASSUME IsFiniteSet(Keys), NEW i, NEW l \in Lists, NEW S,
           \A x \in S : x.row[1] \in Parts,
           \A key \in Parts : \E b \in Calls \cup {None}, s \in Seq(Values \cup {Bad}) :
               {x \in S : x.row[1] = key}
                 = [owner : {i}, cell : {l}, by : {b}, row : PartRows(l, key, s)]
    PROVE  Good(S)
<1> DEFINE A(key) == {x \in S : x.row[1] = key}
           f == [key \in Parts |-> A(key)]
           T == {A(key) : key \in Parts}
<1>1. ASSUME NEW key \in Parts
      PROVE  IsFiniteSet(A(key)) /\ \A x, y \in A(key) : x.row = y.row => x = y
  <2>1. PICK b \in Calls \cup {None}, s \in Seq(Values \cup {Bad}) :
            A(key) = [owner : {i}, cell : {l}, by : {b}, row : PartRows(l, key, s)]
    OBVIOUS
  <2> DEFINE R == [owner : {i}, cell : {l}, by : {b}, row : PartRows(l, key, s)]
  <2>2. IsFiniteSet(R) /\ \A x, y \in R : x.row = y.row => x = y
    BY WholeRows
  <2>3. A(key) = R
    BY <2>1
  <2> HIDE DEF A, R
  <2> QED
    BY <2>2, <2>3
<1>2. IsFiniteSet(T)
  <2>1. IsFiniteSet(Parts)
    BY FS_AddElement DEF Parts
  <2>2. f \in Surjection(Parts, T)
    <3> HIDE DEF A
    <3> QED
      BY DEF Surjection
  <2> HIDE DEF f, T
  <2> QED
    BY <2>1, <2>2, FS_Surjection
<1>3. IsFiniteSet(UNION T)
  <2>1. \A a \in T : IsFiniteSet(a)
    BY <1>1
  <2> HIDE DEF T
  <2> QED
    BY <1>2, <2>1, FS_UNION
<1>4. S \subseteq UNION T
  OBVIOUS
<1>5. IsFiniteSet(S)
  <2> HIDE DEF T
  <2> QED
    BY <1>3, <1>4, FS_Subset
<1>6. ASSUME NEW x \in S, NEW y \in S, x.row = y.row PROVE x = y
  <2>1. x \in A(x.row[1]) /\ y \in A(x.row[1]) /\ x.row[1] \in Parts
    BY <1>6
  <2> HIDE DEF A
  <2> QED
    BY <1>1, <1>6, <2>1
<1> QED
  BY <1>5, <1>6 DEF Good

\* Good rows are read once each, so that a list is read as what it holds.
LEMMA GoodReading ==
    ASSUME NEW f \in Lists, NEW S, Good(S)
    PROVE  Reading(f, S) = AsRead(f, Contents(S))
<1>1. ASSUME NEW r \in Contents(S) PROVE Cardinality({x \in S : x.row = r}) = 1
  <2>1. PICK y \in S : y.row = r
    BY DEF Contents
  <2>2. \A x \in S : x.row = r => x = y
    BY <2>1 DEF Good
  <2>3. {x \in S : x.row = r} = {y}
    BY <2>1, <2>2
  <2> QED
    BY <2>3, FS_Singleton
<1> QED
  BY <1>1 DEF Reading, AsRead

\* The rows of a cell in the tables are good.
LEMMA ItemsGood ==
    ASSUME IsFiniteSet(Keys), items \subseteq Item, Sorted, NEW i \in Ids, NEW l \in Lists
    PROVE  Good(ItemsOf(i, l))
<1>1. \A key \in Parts : \E b \in Calls \cup {None}, s \in Seq(Values \cup {Bad}) :
          {x \in ItemsOf(i, l) : x.row[1] = key}
             = [owner : {i}, cell : {l}, by : {b}, row : PartRows(l, key, s)]
  BY DEF Sorted, OneList, ItemsAt
<1>2. \A x \in ItemsOf(i, l) : x.row[1] \in Parts
  BY DEF ItemsOf, Item
<1> QED
  BY <1>1, <1>2, GoodLists

LEMMA ItemsGoodNext ==
    ASSUME IsFiniteSet(Keys), items' \subseteq Item, Sorted', NEW i \in Ids, NEW l \in Lists
    PROVE  Good(ItemsOf(i, l)')
<1> DEFINE S == ItemsOf(i, l)'
<1>1. \A key \in Parts : \E b \in Calls \cup {None}, s \in Seq(Values \cup {Bad}) :
          {x \in S : x.row[1] = key}
             = [owner : {i}, cell : {l}, by : {b}, row : PartRows(l, key, s)]
  BY DEF Sorted, OneList, ItemsAt
<1>2. \A x \in S : x.row[1] \in Parts
  BY DEF ItemsOf, Item
<1> HIDE DEF S
<1>3. Good(S)
  BY <1>1, <1>2, GoodLists
<1> QED
  BY <1>3 DEF S

\* What a save is through with is what its commit leaves.
LEMMA FinalCommits ==
    ASSUME ListInv, NEW c \in Calls, Applied(c), Saves(c), NEW l
    PROVE  ItemsOf(Id(c), l)' = Final(c, l)
<1>1. Id(c)' = Id(c)
  BY DEF Applied, Id
<1>2. \A key : ItemsAt(Id(c), l, key)' = IF <<l, key>> \in ListSteps(c)
                                         THEN InsertedBy(c, <<l, key>>) ELSE ItemsAt(Id(c), l, key)
  <2> DEFINE i == Id(c)
  <2>1. \A key : ItemsAt(i, l, key)' = IF i = Id(c) /\ <<l, key>> \in ListSteps(c)
                                       THEN InsertedBy(c, <<l, key>>) ELSE ItemsAt(i, l, key)
    <3> SUFFICES ASSUME NEW j, j = Id(c), NEW key
                 PROVE  ItemsAt(j, l, key)' = IF <<l, key>> \in ListSteps(c)
                                              THEN InsertedBy(c, <<l, key>>) ELSE ItemsAt(j, l, key)
      BY <1>1 DEF ItemsAt, ItemsOf
    <3> QED
      BY SaveCommits
  <2> QED
    BY <2>1
<1>3. \A s \in ListSteps(c) : s = <<s[1], s[2]>> /\ \A x \in InsertedBy(c, s) : ListOf(x) = s
  BY InsertedAre, ListStepsAre DEF ListInv
<1>4. \A x : x \in ItemsOf(Id(c), l)' <=> x \in ItemsAt(Id(c), l, x.row[1])'
  BY DEF ItemsAt
<1>5. \A x : x \in ItemsOf(Id(c), l) <=> x \in ItemsAt(Id(c), l, x.row[1])
  BY DEF ItemsAt
<1>6. \A x \in ItemsOf(Id(c), l) : ListOf(x) = <<l, x.row[1]>>
  BY DEF ItemsOf, ListOf
<1>7. \A x : <<l, x.row[1]>>[1] = l
  OBVIOUS
<1>8. ASSUME NEW x \in ItemsOf(Id(c), l)' PROVE x \in Final(c, l)
  <2>1. CASE <<l, x.row[1]>> \in ListSteps(c)
    BY <1>2, <1>4, <1>7, <1>8, <2>1 DEF Final
  <2>2. CASE <<l, x.row[1]>> \notin ListSteps(c)
    BY <1>2, <1>4, <1>5, <1>6, <1>8, <2>2 DEF Final
  <2> QED
    BY <2>1, <2>2
<1>9. ASSUME NEW x \in Final(c, l) PROVE x \in ItemsOf(Id(c), l)'
  <2>1. CASE x \in ItemsOf(Id(c), l) /\ ListOf(x) \notin ListSteps(c)
    BY <1>2, <1>4, <1>5, <1>6, <2>1
  <2>2. CASE \E s \in ListSteps(c) : s[1] = l /\ x \in InsertedBy(c, s)
    <3>1. PICK s \in ListSteps(c) : s[1] = l /\ x \in InsertedBy(c, s)
      BY <2>2
    <3>2. s = <<l, x.row[1]>>
      BY <1>3, <3>1 DEF ListOf
    <3> QED
      BY <1>2, <1>4, <3>1, <3>2
  <2> QED
    BY <1>9, <2>1, <2>2 DEF Final
<1> QED
  BY <1>8, <1>9

\* A save that writes lists has its row from the first SET on, unless it is gone.
LEMMA ListsOwnRow ==
    ASSUME LocksFirst, ListInv, NEW c \in Calls, Saves(c), pc[c] \in Saving,
           NEW l \in Lists \cap DOMAIN Written(In(c))
    PROVE  lock[Id(c)] = c \/ (Does(c, "update") /\ rows[Id(c)] = Absent)
<1>1. In(c) \in Payloads /\ c \in Open /\ Local(c) /\ Locking(c) /\ Inv
      /\ ~(Does(c, "create") /\ Does(c, "update"))
  BY SavesAre DEF ListInv, TypeInv, Saving, Open
<1>2. CASE Does(c, "create")
  BY <1>1, <1>2 DEF Inv, Rowed, Saving
<1>3. CASE Does(c, "update")
  <2>1. Assignments(In(c)) # {}
    BY <1>1 DEF LocksFirst, Written
  <2>2. Assignments(In(c)) \subseteq DOMAIN Written(In(c)) \cap Cols
    BY <1>1, AssignedColumns DEF In
  <2>3. DOMAIN tx[c].sets # {}
    BY <1>1, <1>3, <2>1, <2>2 DEF Local, Assigned, Saving, FirstColumns, AllColumns
  <2> QED
    BY <1>1, <1>3, <2>3 DEF Locking
<1> QED
  BY <1>2, <1>3 DEF Saves

\* While a save has its row no other call changes the lists of it.
LEMMA RowStill ==
    ASSUME LocksFirst, ListInv, NEW c \in Calls, Saves(c), pc[c] \in Saving, lock[Id(c)] = c,
           NEW d \in Calls \ {c}, Step(d), NEW l
    PROVE  ItemsOf(Id(c), l)' = ItemsOf(Id(c), l)
<1>1. Inv /\ TypeInv /\ call[c] # None /\ Local(d) /\ Locking(d)
  BY DEF ListInv, TypeInv, Saves, Does
<1>2. Id(c)' = Id(c)
  BY <1>1, Frame DEF Id
<1>3. CASE ~Applied(d)
  BY <1>1, <1>2, <1>3, Frame DEF ItemsOf
<1>4. CASE Applied(d)
  <2>1. /\ items' = (items \ tx[d].gone) \cup tx[d].fresh
        /\ pc[d] = "commit" /\ call[d] # None /\ d \in Open
    BY <1>1, <1>4 DEF Applied, Apply, Inv, Shaped, Open
  <2>2. \A x \in tx[d].gone \cup tx[d].fresh : x.owner = Id(d)
    <3>1. \A x \in tx[d].fresh : x.owner = Id(d)
      BY <1>1 DEF Inv, Owned
    <3>2. CASE Saves(d)
      BY <1>1, <2>1, <3>1, <3>2 DEF Local, Listing
    <3>3. CASE Does(d, "delete")
      BY <1>1, <3>1, <3>3 DEF Locking
    <3> QED
      BY <1>1, <2>1, <3>2, <3>3, OpenHasId DEF Saves
  <2>3. CASE Id(d) # Id(c)
    BY <1>2, <2>1, <2>2, <2>3 DEF ItemsOf
  <2>4. CASE Id(d) = Id(c)
    <3>1. ~Does(d, "create")
      BY <1>1, <2>1, <2>4, AloneBeforeCommit
    <3>2. ~Does(c, "create")
      BY <1>1, <2>1, <2>4, AloneBeforeCommit DEF Saving
    <3>3. rows[Id(c)] # Absent /\ Id(c) \in Ids
      BY <1>1, <3>2, OpenHasId DEF Inv, Rowed
    <3>4. ~Does(d, "delete")
      BY <1>1, <2>1, <2>4, <3>3 DEF Inv, Emptied
    <3>5. Does(d, "update") /\ Saves(d)
      BY <1>1, <2>1, <3>1, <3>4, OpenHasId DEF Saves
    <3>6. ListSteps(d) = {}
      BY <1>1, <2>1, <2>4, <3>3, <3>5, HoldsRow DEF Saving
    <3>7. tx[d].fresh = {} /\ tx[d].gone = {}
      BY <1>1, <2>1, <3>5, <3>6 DEF Local, Listing, Cleared
    <3> QED
      BY <1>2, <2>1, <3>7 DEF ItemsOf
  <2> QED
    BY <2>3, <2>4
<1> QED
  BY <1>3, <1>4

LEMMA FinalStill ==
    ASSUME NEW c \in Calls, call'[c] = call[c], NEW l, ItemsOf(Id(c), l)' = ItemsOf(Id(c), l)
    PROVE  Final(c, l)' = Final(c, l)
<1>1. ListSteps(c)' = ListSteps(c) /\ \A s : InsertedBy(c, s)' = InsertedBy(c, s)
  BY DEF ListSteps, Replaces, InsertedBy, In, Id
<1> QED
  BY <1>1 DEF Final

LEMMA OthersEchoed ==
    ASSUME LocksFirst, ListInv, NEW c \in Calls, Echoed(c), NEW d \in Calls \ {c}, Step(d)
    PROVE  Echoed(c)'
<1>1. /\ Inv /\ Saves(c)' = Saves(c) /\ Id(c)' = Id(c) /\ In(c)' = In(c)
      /\ pc'[c] = pc[c] /\ tx'[c] = tx[c] /\ call'[c] = call[c]
  BY Frame DEF ListInv, TypeInv, Saves, Does, Id, In
<1> SUFFICES ASSUME Saves(c), pc[c] \in Saving, lock'[Id(c)] = c,
                    NEW l \in Lists \cap DOMAIN Written(In(c)), LastStep(l) \notin tx[c].todo
             PROVE  l \in DOMAIN tx[c].echo /\ tx[c].echo[l] = Final(c, l)'
  BY <1>1 DEF Echoed
<1>2. lock[Id(c)] = c
  <2>1. Id(c) \in Ids
    BY <1>1, OpenHasId DEF Saves, Does
  <2> QED
    BY <1>1, <2>1, LocksTaken
<1>3. Final(c, l)' = Final(c, l)
  BY <1>1, <1>2, RowStill, FinalStill
<1> QED
  BY <1>2, <1>3 DEF Echoed

\* A list of Rels is what the save has inserted.
LEMMA FinalOfRels ==
    ASSUME ListInv, NEW c \in Calls, Saves(c), NEW l \in Rels, l \in DOMAIN Written(In(c))
    PROVE  /\ Final(c, l) = InsertedBy(c, <<l, Whole>>)
           /\ \A key : <<l, key>> \in ListSteps(c) <=> key = Whole
<1>1. l \in Lists /\ l \notin Keyed
  BY ListsAssumption
<1>2. \A key : <<l, key>> \in ListSteps(c) <=> key = Whole
  BY <1>1, SentSteps DEF Sent, ListInv
<1>3. \A s \in ListSteps(c) : s = <<s[1], s[2]>>
  BY ListStepsAre DEF ListInv
<1>4. \A s \in ListSteps(c) : s[1] = l => s = <<l, Whole>>
  BY <1>2, <1>3
<1>5. <<l, Whole>> \in ListSteps(c) /\ <<l, Whole>>[1] = l
  BY <1>2
<1>6. \A x \in ItemsOf(Id(c), l) : ListOf(x) = <<l, Whole>>
  BY <1>1 DEF ItemsOf, ListOf, ListInv, Sorted
<1> QED
  BY <1>2, <1>4, <1>5, <1>6 DEF Final

\* What the last SELECT of a list cell sees.
LEMMA SeenIsFinal ==
    ASSUME ListInv, NEW c \in Calls, Saves(c), pc[c] = "deferred", NEW l \in Lists,
           \A key \in Parts : <<l, key>> \notin tx[c].todo
    PROVE  SeenRows(c, l) = Final(c, l)
<1>1. /\ TypeInv /\ c \in Open /\ Listing(c) /\ Covered(c)
      /\ Cleared(c) = ListSteps(c) \ tx[c].todo
  BY DEF ListInv, Local, Open, Cleared
<1>2. \A s \in ListSteps(c) : s = <<s[1], s[2]>> /\ s[1] \in Lists /\ s[2] \in Parts
  <2>1. \A s \in ListSteps(c) : s = <<s[1], s[2]>> /\ s[1] \in Lists /\ s[2] \in Sent(s[1], In(c)[s[1]])
    BY <1>1, ListStepsAre
  <2>2. \A s \in ListSteps(c) : s[2] \in Parts
    BY SavesAre, StepsType, <1>1 DEF ListSteps, Replaces
  <2> QED
    BY <2>1, <2>2
<1>3. \A s \in ListSteps(c) : s[1] = l => s \notin tx[c].todo
  BY <1>2
<1>4. \A s \in ListSteps(c) : \A x \in InsertedBy(c, s) :
          x.owner = Id(c) /\ x.cell = s[1] /\ ListOf(x) = s
  BY <1>2, InsertedAre DEF InsertedBy
<1>5. \A x \in items : x.owner = Id(c) /\ x.cell = l => (x \in tx[c].gone <=> ListOf(x) \in ListSteps(c))
  <2> SUFFICES ASSUME NEW x \in items, x.owner = Id(c), x.cell = l
               PROVE  x \in tx[c].gone <=> ListOf(x) \in ListSteps(c)
    OBVIOUS
  <2>1. ListOf(x)[1] = l
    BY DEF ListOf
  <2>2. ListOf(x) \in ListSteps(c) => ListOf(x) \in Cleared(c)
    BY <1>1, <1>3, <2>1
  <2>3. x \in tx[c].gone => ListOf(x) \in Cleared(c)
    BY <1>1 DEF Listing
  <2>4. ListOf(x) \in Cleared(c) => x \in tx[c].gone
    BY <1>1 DEF Covered
  <2> QED
    BY <1>1, <2>2, <2>3, <2>4
<1>6. \A x : (x \in tx[c].fresh /\ x.cell = l)
                <=> \E s \in ListSteps(c) : s[1] = l /\ x \in InsertedBy(c, s)
  <2>1. tx[c].fresh = UNION {InsertedBy(c, s) : s \in ListSteps(c) \ tx[c].todo}
    BY <1>1 DEF Listing
  <2> QED
    BY <1>3, <1>4, <2>1
<1>7. \A x \in tx[c].fresh : x.owner = Id(c)
  BY <1>1 DEF TypeInv, Inv, Owned
<1>8. ASSUME NEW x \in SeenRows(c, l) PROVE x \in Final(c, l)
  <2>1. x.owner = Id(c) /\ x.cell = l /\ (x \in tx[c].fresh \/ (x \in items /\ x \notin tx[c].gone))
    BY <1>8 DEF SeenRows
  <2>2. CASE x \in tx[c].fresh
    BY <1>6, <2>1, <2>2 DEF Final
  <2>3. CASE x \in items /\ x \notin tx[c].gone
    BY <1>5, <2>1, <2>3 DEF Final, ItemsOf
  <2> QED
    BY <2>1, <2>2, <2>3
<1>9. ASSUME NEW x \in Final(c, l) PROVE x \in SeenRows(c, l)
  <2>1. CASE x \in ItemsOf(Id(c), l) /\ ListOf(x) \notin ListSteps(c)
    BY <1>5, <2>1 DEF ItemsOf, SeenRows
  <2>2. CASE \E s \in ListSteps(c) : s[1] = l /\ x \in InsertedBy(c, s)
    BY <1>6, <1>7, <2>2 DEF SeenRows
  <2> QED
    BY <1>9, <2>1, <2>2 DEF Final
<1> QED
  BY <1>8, <1>9

\* A statement that moves on without ending the last step of a list.
LEMMA EchoedKept ==
    ASSUME ListInv, NEW c \in Calls, Echoed(c), pc[c] \in Saving,
           call'[c] = call[c], UNCHANGED items, lock'[Id(c)] = c => lock[Id(c)] = c,
           tx'[c].echo = tx[c].echo,
           \A l \in Lists \cap DOMAIN Written(In(c)) :
               LastStep(l) \in tx[c].todo => LastStep(l) \in tx'[c].todo
    PROVE  Echoed(c)'
<1>1. /\ Saves(c)' = Saves(c) /\ Id(c)' = Id(c) /\ In(c)' = In(c)
      /\ \A l : Final(c, l)' = Final(c, l)
  BY FinalStill DEF Saves, Does, Id, In, ItemsOf
<1> QED
  BY <1>1 DEF Echoed

\* Before the first SET all of it is still to do.
LEMMA EchoedAhead ==
    ASSUME ListInv, NEW c \in Calls, pc[c] \in Ahead, call'[c] = call[c], tx'[c].todo = tx[c].todo
    PROVE  Echoed(c)'
<1>1. Saves(c) /\ tx[c].todo = Steps(In(c)) /\ In(c)' = In(c)
  BY SavesAre DEF ListInv, Local, Planned, In
<1>2. ASSUME NEW l \in Lists \cap DOMAIN Written(In(c)) PROVE LastStep(l) \in Steps(In(c))
  <2>1. l \in DOMAIN In(c) /\ Parses(l, In(c)[l]) /\ l \in Deferred(In(c))
    BY DEF Written, Deferred
  <2>2. LastStep(l) \in StepsOf(l, In(c)[l])
    BY <2>1, ListsAssumption DEF LastStep, StepsOf, Sent
  <2> QED
    BY <2>1, <2>2 DEF Steps
<1> QED
  BY <1>1, <1>2 DEF Echoed

LEMMA ReadBackEchoed ==
    ASSUME ListInv, NEW c \in Calls, Echoed(c), ReadBack(c)
    PROVE  Echoed(c)'
<1>1. PICK s \in tx[c].todo :
         /\ s[2] = Reread /\ Due(tx[c].todo, s)
         /\ tx' = [tx EXCEPT ![c].echo = Over([k \in {s[1]} |-> SeenRows(c, s[1])], @),
                             ![c].todo = tx[c].todo \ {s}]
  BY DEF ReadBack
<1> DEFINE echo == Over([k \in {s[1]} |-> SeenRows(c, s[1])], tx[c].echo)
<1>2. tx' = [tx EXCEPT ![c].echo = echo, ![c].todo = tx[c].todo \ {s}]
  BY <1>1
<1> HIDE DEF echo
<1>3. tx'[c] = [tx[c] EXCEPT !.echo = echo, !.todo = tx[c].todo \ {s}]
  BY <1>2 DEF ListInv, TypeInv, Inv, Shaped
<1>4. tx'[c].echo = echo /\ tx'[c].todo = tx[c].todo \ {s}
  BY <1>3 DEF ListInv, TypeInv, Inv, Shaped, NoTx
<1>5. /\ pc[c] = "deferred" /\ UNCHANGED <<items, lock, call>> /\ Saves(c)
      /\ tx[c].todo \subseteq Steps(In(c)) /\ In(c) \in Payloads
  BY SavesAre DEF ReadBack, Locally, Saving, ListInv, TypeInv, Typed
<1>6. s = <<s[1], Reread>> /\ s[1] \in Lists
  BY <1>1, <1>5, StepsType
<1>7. \A key \in Parts : <<s[1], key>> \notin tx[c].todo
  <2> SUFFICES ASSUME NEW key \in Parts, <<s[1], key>> \in tx[c].todo PROVE FALSE
    OBVIOUS
  <2>1. \/ Rank[s[1]] < Rank[s[1]]
        \/ KeyRank[Reread] <= KeyRank[key]
    BY <1>1 DEF Due
  <2>2. KeyRank[key] < KeyRank[Reread] /\ KeyRank[key] \in Nat /\ KeyRank[Reread] \in Nat
        /\ Rank[s[1]] \in Nat
    BY <1>6, KeyRankAssumption, RankAssumption DEF Fields
  <2> QED
    BY <2>1, <2>2
<1>8. SeenRows(c, s[1]) = Final(c, s[1])
  BY <1>5, <1>6, <1>7, SeenIsFinal
<1>9. /\ Saves(c)' = Saves(c) /\ Id(c)' = Id(c) /\ In(c)' = In(c)
      /\ \A l : Final(c, l)' = Final(c, l)
  BY <1>5, FinalStill DEF Saves, Does, Id, In, ItemsOf
<1>10. /\ DOMAIN echo = {s[1]} \cup DOMAIN tx[c].echo
       /\ \A l \in DOMAIN echo : echo[l] = IF l = s[1] THEN Final(c, l) ELSE tx[c].echo[l]
  BY <1>8 DEF echo, Over
<1>11. \A l : l # s[1] => LastStep(l) # s
  BY <1>6 DEF LastStep
<1> QED
  BY <1>4, <1>5, <1>9, <1>10, <1>11 DEF Echoed, Saving

LEMMA InsertEchoed ==
    ASSUME ListInv, NEW c \in Calls, Echoed(c), InsertList(c)
    PROVE  Echoed(c)'
<1>0. CASE Return(c, "err")
  BY <1>0 DEF Return, Goto, Echoed, Saving, ListInv, TypeInv, Inv, Shaped
<1> SUFFICES ASSUME ~Return(c, "err") PROVE Echoed(c)'
  BY <1>0
<1>1. PICK s \in tx[c].todo :
         LET new  == InsertedBy(c, s)
             todo == tx[c].todo \ {s}
         IN /\ Due(tx[c].todo, s)
            /\ tx' = [tx EXCEPT ![c].fresh = @ \cup new, ![c].todo = todo,
                                ![c].echo = IF s[1] \in Rels THEN Over([k \in {s[1]} |-> new], @)
                                            ELSE @]
            /\ UNCHANGED lock /\ Locally
  BY DEF InsertList, InsertedBy
<1> DEFINE new  == InsertedBy(c, s)
           echo == IF s[1] \in Rels THEN Over([k \in {s[1]} |-> new], tx[c].echo) ELSE tx[c].echo
<1>2. tx'[c].echo = echo /\ tx'[c].todo = tx[c].todo \ {s}
  <2>1. tx' = [tx EXCEPT ![c].fresh = tx[c].fresh \cup new, ![c].todo = tx[c].todo \ {s},
                         ![c].echo = echo]
    BY <1>1
  <2> HIDE DEF echo, new
  <2>2. tx'[c] = [tx[c] EXCEPT !.fresh = tx[c].fresh \cup new, !.todo = tx[c].todo \ {s},
                               !.echo = echo]
    BY <2>1 DEF ListInv, TypeInv, Inv, Shaped
  <2> QED
    BY <2>2 DEF ListInv, TypeInv, Inv, Shaped, NoTx
<1> HIDE DEF echo
<1>3. /\ pc[c] = "insert" /\ UNCHANGED <<items, lock, call>> /\ Saves(c)
      /\ Replaces(In(c), s) /\ s \in Steps(In(c)) /\ In(c) \in Payloads
  BY <1>1, SavesAre DEF InsertList, Runs, Locally, Saving, ListInv, TypeInv, Typed
<1>4. s = <<s[1], s[2]>> /\ s[1] \in Lists /\ s[2] # Reread /\ s \in ListSteps(c)
  BY <1>3, StepsType DEF ListSteps, Replaces
<1>5. \A l \in Lists \cap DOMAIN Written(In(c)) : LastStep(l) = s => l = s[1] /\ l \in Rels
  BY <1>4 DEF LastStep
<1>6. s[1] \in DOMAIN Written(In(c)) /\ (s[1] \in Rels => s = LastStep(s[1]) /\ new = Final(c, s[1]))
  <2>1. s[1] \in DOMAIN Written(In(c))
    BY <1>3, <1>4, SentSteps DEF ListInv
  <2> QED
    BY <1>3, <1>4, <2>1, FinalOfRels DEF LastStep
<1>7. /\ Saves(c)' = Saves(c) /\ Id(c)' = Id(c) /\ In(c)' = In(c)
      /\ \A l : Final(c, l)' = Final(c, l)
  BY <1>3, FinalStill DEF Saves, Does, Id, In, ItemsOf
<1> HIDE DEF new
<1>8. /\ DOMAIN tx[c].echo \subseteq DOMAIN echo
      /\ \A l \in DOMAIN tx[c].echo : l # s[1] \/ l \notin Rels => echo[l] = tx[c].echo[l]
      /\ s[1] \in Rels => s[1] \in DOMAIN echo /\ echo[s[1]] = new
  BY DEF echo, Over
<1> SUFFICES ASSUME lock[Id(c)] = c, NEW l \in Lists \cap DOMAIN Written(In(c)),
                    LastStep(l) \notin tx'[c].todo
             PROVE  l \in DOMAIN echo /\ echo[l] = Final(c, l)
  BY <1>2, <1>3, <1>7 DEF Echoed
<1>9. CASE l = s[1] /\ l \in Rels
  BY <1>6, <1>8, <1>9
<1>10. CASE l # s[1] \/ l \notin Rels
  <2>1. LastStep(l) \notin tx[c].todo
    BY <1>2, <1>5, <1>10
  <2> QED
    BY <1>3, <1>8, <1>10, <2>1 DEF Echoed, Saving
<1> QED
  BY <1>9, <1>10

LEMMA SkipEchoed ==
    ASSUME ListInv, NEW c \in Calls, Echoed(c), ResolveDeferred(c)
    PROVE  Echoed(c)'
<1>1. PICK s \in tx[c].todo : /\ s[1] \in Lists => ~Parses(s[1], In(c)[s[1]])
                              /\ tx' = [tx EXCEPT ![c].todo = tx[c].todo \ {s}]
  BY DEF ResolveDeferred
<1>2. tx'[c] = [tx[c] EXCEPT !.todo = tx[c].todo \ {s}]
  BY <1>1 DEF ListInv, TypeInv, Inv, Shaped
<1>3. tx'[c].todo = tx[c].todo \ {s} /\ tx'[c].echo = tx[c].echo
  BY <1>2 DEF ListInv, TypeInv, Inv, Shaped, NoTx
<1>4. \A l \in Lists \cap DOMAIN Written(In(c)) : LastStep(l) # s
  BY <1>1 DEF Written, LastStep
<1>5. pc[c] = "deferred" /\ UNCHANGED <<items, lock, call>>
  BY DEF ResolveDeferred, Locally
<1> QED
  BY <1>3, <1>4, <1>5, EchoedKept DEF Saving

LEMMA ReplaceEchoed ==
    ASSUME ListInv, NEW c \in Calls, Echoed(c), StartReplace(c) \/ FinishReplace(c)
    PROVE  Echoed(c)'
<1>1. \E g, p : tx' = [tx EXCEPT ![c].gone = g, ![c].snap = p]
  <2>1. CASE StartReplace(c)
    <3>1. PICK p : tx' = [tx EXCEPT ![c].snap = p]
      BY <2>1 DEF StartReplace
    <3>2. tx' = [tx EXCEPT ![c].gone = tx[c].gone, ![c].snap = p]
      BY <3>1 DEF ListInv, TypeInv, Inv, Shaped, NoTx
    <3> QED
      BY <3>2
  <2>2. CASE FinishReplace(c)
    BY <2>2 DEF FinishReplace
  <2> QED
    BY <2>1, <2>2
<1>2. PICK g, p : tx' = [tx EXCEPT ![c].gone = g, ![c].snap = p]
  BY <1>1
<1>3. tx'[c] = [tx[c] EXCEPT !.gone = g, !.snap = p]
  BY <1>2 DEF ListInv, TypeInv, Inv, Shaped
<1>4. tx'[c].todo = tx[c].todo /\ tx'[c].echo = tx[c].echo
  BY <1>3 DEF ListInv, TypeInv, Inv, Shaped, NoTx
<1>5. pc[c] \in {"deferred", "replace"} /\ UNCHANGED <<items, lock, call>>
  BY DEF StartReplace, FinishReplace, Runs, Locally
<1> QED
  BY <1>4, <1>5, EchoedKept DEF Saving

LEMMA UpdateBackEchoed ==
    ASSUME LocksFirst, ListInv, NEW c \in Calls, Echoed(c), UpdateBack(c)
    PROVE  Echoed(c)'
<1>1. PICK s : tx' = [tx EXCEPT ![c].sets = s]
  BY DEF UpdateBack, Update
<1>2. tx'[c] = [tx[c] EXCEPT !.sets = s]
  BY <1>1 DEF ListInv, TypeInv, Inv, Shaped
<1>3. tx'[c].todo = tx[c].todo /\ tx'[c].echo = tx[c].echo
  BY <1>2 DEF ListInv, TypeInv, Inv, Shaped, NoTx
<1>4. pc[c] = "updateBack" /\ UNCHANGED <<items, call>> /\ LockRow(c) /\ Saves(c)
  BY SavesAre DEF UpdateBack, Update, Runs, Locally, ListInv, Saving
<1>5. CASE Lists \cap DOMAIN Written(In(c)) = {}
  BY <1>4, <1>5 DEF Echoed, In
<1>6. CASE Lists \cap DOMAIN Written(In(c)) # {}
  <2>1. lock[Id(c)] = c \/ rows[Id(c)] = Absent
    BY <1>4, <1>6, ListsOwnRow DEF Saving
  <2>2. lock'[Id(c)] = c => lock[Id(c)] = c
    BY <1>4, <2>1 DEF LockRow
  <2> QED
    BY <1>3, <1>4, <2>2, EchoedKept DEF Saving
<1> QED
  BY <1>5, <1>6

LEMMA OwnEchoed ==
    ASSUME LocksFirst, ListInv, NEW c \in Calls, Echoed(c), Acts(c)
    PROVE  Echoed(c)'
<1>1. CASE ResolveDeferred(c) \/ StartReplace(c) \/ FinishReplace(c) \/ ReadBack(c)
           \/ InsertList(c) \/ UpdateBack(c)
  BY <1>1, SkipEchoed, ReplaceEchoed, ReadBackEchoed, InsertEchoed, UpdateBackEchoed
<1>2. CASE \/ CreateHook(c) \/ UpdateRow(c) \/ ReadBeforeList(c)
           \/ ReadBefore(c) /\ rows[Id(c)] # Absent
  <2>1. pc[c] \in Ahead /\ call' = call
    BY <1>2 DEF CreateHook, UpdateRow, ReadBeforeList, ReadBefore, Runs, Locally, Ahead
  <2>2. \E b, u, s : tx' = [tx EXCEPT ![c].before = b, ![c].unread = u, ![c].sets = s]
    <3>2. CASE CreateHook(c) \/ UpdateRow(c)
      <4>1. PICK s : tx' = [tx EXCEPT ![c].sets = s]
        BY <3>2 DEF CreateHook, UpdateRow, Update
      <4>2. tx' = [tx EXCEPT ![c].before = tx[c].before, ![c].unread = tx[c].unread, ![c].sets = s]
        BY <4>1 DEF ListInv, TypeInv, Inv, Shaped, NoTx
      <4> QED
        BY <4>2
    <3>3. CASE ReadBeforeList(c) \/ (ReadBefore(c) /\ rows[Id(c)] # Absent)
      <4>1. PICK b, u : tx' = [tx EXCEPT ![c].before = b, ![c].unread = u]
        BY <3>3 DEF ReadBeforeList, ReadBefore
      <4>2. tx' = [tx EXCEPT ![c].before = b, ![c].unread = u, ![c].sets = tx[c].sets]
        BY <4>1 DEF ListInv, TypeInv, Inv, Shaped, NoTx
      <4> QED
        BY <4>2
    <3> QED
      BY <1>2, <3>2, <3>3
  <2>3. PICK b, u, s : tx' = [tx EXCEPT ![c].before = b, ![c].unread = u, ![c].sets = s]
    BY <2>2
  <2>4. tx'[c] = [tx[c] EXCEPT !.before = b, !.unread = u, !.sets = s]
    BY <2>3 DEF ListInv, TypeInv, Inv, Shaped
  <2>5. tx'[c].todo = tx[c].todo
    BY <2>4 DEF ListInv, TypeInv, Inv, Shaped, NoTx
  <2> QED
    BY <2>1, <2>5, EchoedAhead
<1>3. CASE Start(c) \/ RemoveRow(c) \/ Cascade(c) \/ Report(c) \/ Commit(c) \/ CommitUnheard(c)
           \/ (ReadBefore(c) /\ rows[Id(c)] = Absent)
           \/ CheckExists(c) \/ RefuseRemove(c) \/ Fail(c) \/ DeadlockVictim(c)
  <2>1. CASE Start(c)
    <3>1. Started(c)
      BY <2>1, StartShape DEF ListInv, TypeInv, Inv
    <3>2. pc'[c] \notin Saving
      BY <3>1 DEF Started, AfterBegin, Goto, Saving, ListInv, TypeInv, Inv, Shaped
    <3> QED
      BY <3>2 DEF Echoed
  <2>2. CASE RemoveRow(c) \/ Cascade(c)
    <3>1. Does(c, "delete") /\ call' = call
      BY <2>2 DEF RemoveRow, Cascade, Runs, Locally, ListInv, TypeInv, Inv, Staged, Shaped, Does
    <3> QED
      BY <3>1 DEF Echoed, Saves, Does
  <2>3. CASE Report(c) \/ Commit(c) \/ CommitUnheard(c)
    BY <2>3 DEF Report, Commit, CommitUnheard, Goto, Echoed, Saving, ListInv, TypeInv, Inv, Shaped
  <2>4. CASE (ReadBefore(c) /\ rows[Id(c)] = Absent)
           \/ CheckExists(c) \/ RefuseRemove(c) \/ Fail(c) \/ DeadlockVictim(c)
    BY <2>4 DEF ReadBefore, CheckExists, RefuseRemove, Fail, DeadlockVictim, Return, Goto, Echoed,
                Saving, ListInv, TypeInv, Inv, Shaped
  <2> QED
    BY <1>3, <2>1, <2>2, <2>3, <2>4
<1> QED
  BY <1>1, <1>2, <1>3 DEF Acts, Statement

LEMMA ReadKept ==
    ASSUME NEW c \in Calls, Read(c), call'[c] = call[c], tx'[c].before = tx[c].before,
           pc'[c] # "beforeLists",
           pc'[c] \in {"update", "report"} \cup Saving => pc[c] \in {"update", "report"} \cup Saving
    PROVE  Read(c)'
<1>1. Does(c, "update")' = Does(c, "update") /\ Asked(c)' = Asked(c)
  BY DEF Does, Asked, In
<1> QED
  BY <1>1 DEF Read, Saving

\* What a call has read and returned survives the end of its transaction.
LEMMA ClosedEcho ==
    ASSUME ListInv, NEW c \in Calls, Close(c)
    PROVE  tx'[c].before = tx[c].before /\ tx'[c].echo = tx[c].echo
<1>1. tx'[c] = [NoTx EXCEPT !.before = tx[c].before, !.echo = tx[c].echo]
  BY DEF Close, ListInv, TypeInv, Inv, Shaped
<1> QED
  BY <1>1 DEF NoTx

LEMMA ClosedRead ==
    ASSUME ListInv, NEW c \in Calls, Read(c), NEW a, Return(c, a)
    PROVE  Read(c)'
<1>1. call' = call /\ pc'[c] = "done" /\ tx'[c].before = tx[c].before
  BY ClosedEcho DEF Return, Goto, ListInv, TypeInv, Inv, Shaped
<1> QED
  BY <1>1, ReadKept DEF Saving

LEMMA ReadRead ==
    ASSUME IsFiniteSet(Keys), ListInv, NEW c \in Calls, Read(c),
           (ReadBefore(c) /\ rows[Id(c)] # Absent) \/ ReadBeforeList(c)
    PROVE  Read(c)'
<1>1. UNCHANGED <<call, items>> /\ Does(c, "update") /\ Asked(c)' = Asked(c) /\ Id(c) \in Ids
  <2>1. UNCHANGED <<call, items>> /\ pc[c] \in {"before", "beforeLists"}
    BY DEF ReadBefore, ReadBeforeList, Locally
  <2> QED
    BY <2>1, SavesAre, OpenHasId DEF Ahead, Asked, In, ListInv, TypeInv, Does
<1>2. CASE ReadBefore(c) /\ rows[Id(c)] # Absent
  <2> DEFINE b == [f \in Asked(c) \ Lists |-> rows[Id(c)][f]]
             u == Asked(c) \cap Lists
  <2>1. /\ tx' = [tx EXCEPT ![c].before = b, ![c].unread = u]
        /\ pc' = [pc EXCEPT ![c] = IF u # {} THEN "beforeLists"
                                   ELSE IF Assignments(In(c)) # {} THEN "update" ELSE "deferred"]
    BY <1>2 DEF ReadBefore, Asked, Goto
  <2>2. DOMAIN b = Asked(c) \ Lists
    OBVIOUS
  <2> HIDE DEF b
  <2>3. tx'[c] = [tx[c] EXCEPT !.before = b, !.unread = u]
    BY <2>1 DEF ListInv, TypeInv, Inv, Shaped
  <2>4. tx'[c].before = b /\ tx'[c].unread = u
    BY <2>3 DEF ListInv, TypeInv, Inv, Shaped, NoTx
  <2>5. pc'[c] # "beforeLists" => Asked(c) \cap Lists = {}
    BY <2>1 DEF ListInv, TypeInv, Inv, Shaped
  <2>6. pc'[c] \in {"update", "report"} \cup Saving => pc'[c] # "beforeLists"
    BY DEF Saving
  <2> QED
    BY <1>1, <2>2, <2>4, <2>5, <2>6 DEF Read
<1>3. CASE ReadBeforeList(c)
  <2>1. PICK l \in tx[c].unread :
           /\ tx' = [tx EXCEPT ![c].before = Over([k \in {l} |-> ItemsOf(Id(c), l)], @),
                               ![c].unread = tx[c].unread \ {l}]
           /\ pc' = [pc EXCEPT ![c] = IF tx[c].unread \ {l} # {} THEN "beforeLists"
                                      ELSE IF Assignments(In(c)) # {} THEN "update" ELSE "deferred"]
    BY <1>3 DEF ReadBeforeList, Goto
  <2> DEFINE b == Over([k \in {l} |-> ItemsOf(Id(c), l)], tx[c].before)
  <2>2. /\ DOMAIN b = DOMAIN tx[c].before \cup {l}
        /\ b[l] = ItemsOf(Id(c), l)
        /\ \A f \in DOMAIN tx[c].before : f # l => b[f] = tx[c].before[f]
    BY DEF Over
  <2>3. tx' = [tx EXCEPT ![c].before = b, ![c].unread = tx[c].unread \ {l}]
    BY <2>1
  <2> HIDE DEF b
  <2>4. tx'[c] = [tx[c] EXCEPT !.before = b, !.unread = tx[c].unread \ {l}]
    BY <2>3 DEF ListInv, TypeInv, Inv, Shaped
  <2>5. tx'[c].before = b /\ tx'[c].unread = tx[c].unread \ {l}
    BY <2>4 DEF ListInv, TypeInv, Inv, Shaped, NoTx
  <2>6. l \in Lists /\ Good(b[l])
    <3>1. l \in Lists
      BY DEF ListInv, TypeInv, Typed
    <3> QED
      BY <1>1, <2>2, <3>1, ItemsGood DEF ListInv, TypeInv
  <2>7. Asked(c) \subseteq DOMAIN tx[c].before \cup tx[c].unread
    BY <1>1, <1>3 DEF Read, ReadBeforeList
  <2>8. pc'[c] # "beforeLists" => tx[c].unread \ {l} = {}
    BY <2>1 DEF ListInv, TypeInv, Inv, Shaped
  <2>9. pc'[c] \in {"update", "report"} \cup Saving => pc'[c] # "beforeLists"
    BY DEF Saving
  <2>10. \A m \in Lists \cap DOMAIN b : Good(b[m])
    BY <1>1, <2>2, <2>6 DEF Read
  <2> QED
    BY <1>1, <2>2, <2>5, <2>7, <2>8, <2>9, <2>10 DEF Read
<1> QED
  BY <1>2, <1>3

LEMMA OwnRead ==
    ASSUME IsFiniteSet(Keys), ListInv, NEW c \in Calls, Read(c), Acts(c)
    PROVE  Read(c)'
<1> USE DEF Saving, Goto
<1>1. CASE (ReadBefore(c) /\ rows[Id(c)] # Absent) \/ ReadBeforeList(c)
  BY <1>1, ReadRead
<1>2. CASE Start(c)
  <2>1. PICK t : tx' = [tx EXCEPT ![c].todo = t]
    BY <1>2 DEF Start
  <2>2. tx'[c] = [tx[c] EXCEPT !.todo = t]
    BY <2>1 DEF ListInv, TypeInv, Inv, Shaped
  <2>3. tx'[c].before = tx[c].before
    BY <2>2 DEF ListInv, TypeInv, Inv, Shaped, NoTx
  <2>4. tx[c].before = <<>>
    BY <1>2 DEF Start, ListInv, Local, Planned, NoTx
  <2>5. Started(c)
    BY <1>2, StartShape DEF ListInv, TypeInv, Inv
  <2>6. pc'[c] \in AfterBegin
    BY <2>5 DEF Started, ListInv, TypeInv, Inv, Shaped
  <2> QED
    BY <2>3, <2>4, <2>6 DEF AfterBegin, Read
<1>3. CASE CreateHook(c) \/ RemoveRow(c) \/ Cascade(c)
  <2>1. ~Does(c, "update") /\ call' = call
    BY <1>3 DEF CreateHook, RemoveRow, Cascade, Runs, Locally, ListInv, TypeInv, Inv, Staged, Does
  <2> QED
    BY <2>1 DEF Read, Does
<1>4. CASE UpdateRow(c) \/ UpdateBack(c) \/ ResolveDeferred(c) \/ StartReplace(c)
           \/ FinishReplace(c) \/ ReadBack(c)
  <2>1. \E s, t, p, g, e : tx' = [tx EXCEPT ![c].sets = s, ![c].todo = t, ![c].snap = p,
                                            ![c].gone = g, ![c].echo = e]
    <3>1. CASE UpdateRow(c) \/ UpdateBack(c)
      <4>1. PICK s : tx' = [tx EXCEPT ![c].sets = s]
        BY <3>1 DEF UpdateRow, UpdateBack, Update
      <4>2. tx' = [tx EXCEPT ![c].sets = s, ![c].todo = tx[c].todo, ![c].snap = tx[c].snap,
                             ![c].gone = tx[c].gone, ![c].echo = tx[c].echo]
        BY <4>1 DEF ListInv, TypeInv, Inv, Shaped, NoTx
      <4> QED
        BY <4>2
    <3>2. CASE ResolveDeferred(c)
      <4>1. PICK t : tx' = [tx EXCEPT ![c].todo = t]
        BY <3>2 DEF ResolveDeferred
      <4>2. tx' = [tx EXCEPT ![c].sets = tx[c].sets, ![c].todo = t, ![c].snap = tx[c].snap,
                             ![c].gone = tx[c].gone, ![c].echo = tx[c].echo]
        BY <4>1 DEF ListInv, TypeInv, Inv, Shaped, NoTx
      <4> QED
        BY <4>2
    <3>3. CASE StartReplace(c)
      <4>1. PICK p : tx' = [tx EXCEPT ![c].snap = p]
        BY <3>3 DEF StartReplace
      <4>2. tx' = [tx EXCEPT ![c].sets = tx[c].sets, ![c].todo = tx[c].todo, ![c].snap = p,
                             ![c].gone = tx[c].gone, ![c].echo = tx[c].echo]
        BY <4>1 DEF ListInv, TypeInv, Inv, Shaped, NoTx
      <4> QED
        BY <4>2
    <3>4. CASE FinishReplace(c)
      <4>1. PICK g, p : tx' = [tx EXCEPT ![c].gone = g, ![c].snap = p]
        BY <3>4 DEF FinishReplace
      <4>2. tx' = [tx EXCEPT ![c].sets = tx[c].sets, ![c].todo = tx[c].todo, ![c].snap = p,
                             ![c].gone = g, ![c].echo = tx[c].echo]
        BY <4>1 DEF ListInv, TypeInv, Inv, Shaped, NoTx
      <4> QED
        BY <4>2
    <3>5. CASE ReadBack(c)
      <4>1. PICK e, t : tx' = [tx EXCEPT ![c].echo = e, ![c].todo = t]
        BY <3>5 DEF ReadBack
      <4>2. tx' = [tx EXCEPT ![c].sets = tx[c].sets, ![c].todo = t, ![c].snap = tx[c].snap,
                             ![c].gone = tx[c].gone, ![c].echo = e]
        BY <4>1 DEF ListInv, TypeInv, Inv, Shaped, NoTx
      <4> QED
        BY <4>2
    <3> QED
      BY <1>4, <3>1, <3>2, <3>3, <3>4, <3>5
  <2>2. PICK s, t, p, g, e : tx' = [tx EXCEPT ![c].sets = s, ![c].todo = t, ![c].snap = p,
                                              ![c].gone = g, ![c].echo = e]
    BY <2>1
  <2>3. tx'[c] = [tx[c] EXCEPT !.sets = s, !.todo = t, !.snap = p, !.gone = g, !.echo = e]
    BY <2>2 DEF ListInv, TypeInv, Inv, Shaped
  <2>4. tx'[c].before = tx[c].before
    BY <2>3 DEF ListInv, TypeInv, Inv, Shaped, NoTx
  <2>5. call' = call /\ pc[c] \in {"update"} \cup Saving
    BY <1>4 DEF UpdateRow, UpdateBack, ResolveDeferred, StartReplace, FinishReplace, ReadBack, Runs,
                Locally
  <2>6. pc'[c] # "beforeLists"
    BY <1>4 DEF UpdateRow, UpdateBack, ResolveDeferred, StartReplace, FinishReplace, ReadBack,
                AfterDeferred, ListInv, TypeInv, Inv, Shaped
  <2> QED
    BY <2>4, <2>5, <2>6, ReadKept
<1>5. CASE InsertList(c)
  <2>1. CASE Return(c, "err")
    BY <2>1, ClosedRead
  <2>2. CASE ~Return(c, "err")
    <3>0. PICK s \in tx[c].todo :
             LET new  == InsertedBy(c, s)
             IN tx' = [tx EXCEPT ![c].fresh = @ \cup new, ![c].todo = tx[c].todo \ {s},
                                 ![c].echo = IF s[1] \in Rels THEN Over([k \in {s[1]} |-> new], @)
                                             ELSE @]
      BY <1>5, <2>2 DEF InsertList, InsertedBy
    <3> DEFINE f == tx[c].fresh \cup InsertedBy(c, s)
               t == tx[c].todo \ {s}
               e == IF s[1] \in Rels THEN Over([k \in {s[1]} |-> InsertedBy(c, s)], tx[c].echo)
                    ELSE tx[c].echo
    <3>1. tx' = [tx EXCEPT ![c].fresh = f, ![c].todo = t, ![c].echo = e]
      BY <3>0
    <3> HIDE DEF f, t, e
    <3>2. tx'[c] = [tx[c] EXCEPT !.fresh = f, !.todo = t, !.echo = e]
      BY <3>1 DEF ListInv, TypeInv, Inv, Shaped
    <3>3. tx'[c].before = tx[c].before
      BY <3>2 DEF ListInv, TypeInv, Inv, Shaped, NoTx
    <3>4. call' = call /\ pc[c] = "insert" /\ pc'[c] # "beforeLists"
      BY <1>5, <2>2 DEF InsertList, Runs, Locally, AfterDeferred, ListInv, TypeInv, Inv, Shaped
    <3> QED
      BY <3>3, <3>4, ReadKept
  <2> QED
    BY <2>1, <2>2
<1>6. CASE (ReadBefore(c) /\ rows[Id(c)] = Absent)
           \/ CheckExists(c) \/ RefuseRemove(c) \/ Fail(c) \/ DeadlockVictim(c)
  <2>1. \E a : Return(c, a)
    BY <1>6 DEF ReadBefore, CheckExists, RefuseRemove, Fail, DeadlockVictim
  <2> QED
    BY <2>1, ClosedRead
<1>7. CASE Commit(c) \/ CommitUnheard(c)
  <2>1. Close(c) /\ call' = call /\ pc[c] = "commit" /\ pc'[c] \in {"report", "done"}
    BY <1>7 DEF Commit, CommitUnheard, Apply, ListInv, TypeInv, Inv, Shaped
  <2>2. tx'[c].before = tx[c].before
    BY <2>1, ClosedEcho
  <2> QED
    BY <2>1, <2>2, ReadKept
<1>8. CASE Report(c)
  <2>1. UNCHANGED <<tx, call>> /\ pc'[c] = "done"
    BY <1>8 DEF Report, ListInv, TypeInv, Inv, Shaped
  <2> QED
    BY <2>1, ReadKept
<1> QED
  BY <1>1, <1>2, <1>3, <1>4, <1>5, <1>6, <1>7, <1>8 DEF Acts, Statement

\* The commit of a save, as it will be reported.
LEMMA CommitSettles ==
    ASSUME IsFiniteSet(Keys), LocksFirst, JournalInv, ListInv', NEW c \in Calls,
           Commit(c) \/ CommitUnheard(c)
    PROVE  Settled(c)'
<1> SUFFICES ASSUME pc'[c] = "report" PROVE Settled(c)'
  BY DEF Settled
<1>1. /\ pc[c] = "commit" /\ call' = call /\ Id(c) \in Ids /\ c \in Open
      /\ Apply(c) /\ Close(c) /\ Saves(c) /\ Applied(c)
      /\ Inv /\ TypeInv /\ ListInv /\ In(c) \in Payloads
  <2>1. Inv /\ TypeInv /\ ListInv
    BY DEF JournalInv, ListInv, TypeInv
  <2>2. Commit(c) /\ call[c].op # "delete"
    BY <2>1 DEF Commit, CommitUnheard, Goto, Inv, Shaped
  <2>3. pc[c] = "commit" /\ call' = call /\ Apply(c) /\ Close(c) /\ call[c] # None
    BY <2>1, <2>2 DEF Commit, Apply, Inv, Shaped
  <2>4. Saves(c) /\ Id(c) \in Ids
    BY <2>1, <2>2, <2>3, OpenHasId DEF Saves, Does
  <2> QED
    BY <2>1, <2>2, <2>3, <2>4, SavesAre DEF Commit, Applied, Open
<1>2. /\ Saves(c)' = Saves(c) /\ In(c)' = In(c) /\ Id(c)' = Id(c)
      /\ \A op : Does(c, op)' = Does(c, op)
  BY <1>1 DEF Saves, Does, In, Id
<1>3. PICK i \in {Id(c)} :
          effect' = Over([d \in {c} |-> [before |-> RowOf(i), after |-> RowOf(i)']], effect)
  BY <1>1 DEF Apply
<1>4. /\ i = Id(c) /\ c \in DOMAIN effect'
      /\ effect'[c].before = RowOf(i) /\ effect'[c].after = RowOf(i)'
  BY <1>3 DEF Over
<1>5. ASSUME Does(c, "create") \/ RowOf(i) # Absent
      PROVE  rows'[i] # Absent
  <2>1. CASE Does(c, "create")
    <3>1. lock[i] = c
      BY <1>1, <1>4, <2>1 DEF Inv, Rowed
    <3> QED
      BY <1>1, <1>4, <2>1, <3>1, SavesAre, Commits, AbsentAssumption
  <2>2. CASE RowOf(i) # Absent
    <3>1. rows[i] # Absent
      BY <2>2 DEF RowOf
    <3> QED
      BY <1>1, <1>4, <3>1, SavesAre, Commits, AbsentAssumption
  <2> QED
    BY <1>5, <2>1, <2>2
<1>6. ASSUME Does(c, "create") \/ RowOf(i) # Absent
      PROVE  RowOf(i)' = Put(In(c), Base(c))
  <2>1. TypeInv'
    BY DEF ListInv
  <2> QED
    BY <1>1, <1>4, <1>5, <1>6, <2>1, CommitMakes
<1>7. RowOf(i) # Absent => RowOf(i) \in FullRow
  <2>1. RowOf(i) # Absent => rows[i] # Absent
    BY DEF RowOf
  <2> QED
    BY <1>1, <1>4, <2>1, RowThere
<1>8. ASSUME Does(c, "create") \/ RowOf(i) # Absent, NEW l \in Lists \cap DOMAIN Written(In(c))
      PROVE  /\ l \in DOMAIN tx'[c].echo /\ Good(tx'[c].echo[l])
             /\ RowOf(i)'[l] = Contents(tx'[c].echo[l])
  <2>1. lock[Id(c)] = c
    <3>1. Does(c, "update") => rows[Id(c)] # Absent
      BY <1>1, <1>4, <1>8, SavesAre DEF RowOf
    <3> QED
      BY <1>1, <3>1, ListsOwnRow DEF Saving
  <2>2. tx[c].todo = {}
    BY <1>1 DEF ListInv, Local, Planned
  <2>3. l \in DOMAIN tx[c].echo /\ tx[c].echo[l] = Final(c, l)
    BY <1>1, <2>1, <2>2 DEF JournalInv, Echoed, Saving
  <2>4. tx'[c].echo = tx[c].echo
    BY <1>1, ClosedEcho
  <2>5. ItemsOf(i, l)' = Final(c, l)
    <3>1. ItemsOf(Id(c), l)' = Final(c, l)
      BY <1>1, FinalCommits
    <3> QED
      BY <1>2, <1>4, <3>1 DEF ItemsOf
  <2>6. Good(ItemsOf(i, l)')
    BY <1>1, <1>4, ItemsGoodNext DEF ListInv, TypeInv
  <2>7. RowOf(i)'[l] = Contents(ItemsOf(i, l)')
    <3>1. rows'[i] # Absent /\ rows'[i] \in Row
      <4>1. TypeInv'
        BY DEF ListInv
      <4> QED
        BY <1>1, <1>4, <1>5, <1>8, <4>1 DEF TypeInv
    <3>2. RowOf(i)' = Over(rows'[i], [m \in Lists |-> Contents(ItemsOf(i, m)')])
      BY <3>1 DEF RowOf, Contents
    <3>3. l \notin DOMAIN rows'[i]
      BY <3>1, CellsAssumption DEF Row
    <3> QED
      BY <3>2, <3>3 DEF Over
  <2> QED
    BY <2>3, <2>4, <2>5, <2>6, <2>7
<1>9. Does(c, "create") => Base(c) = Over(NewRow, Blank)
  BY DEF Base
<1>10. Does(c, "update") => Base(c) = RowOf(i)
  BY <1>1, <1>4, SavesAre DEF Base
<1>11. Settled(c)'
  BY <1>1, <1>2, <1>4, <1>6, <1>7, <1>8, <1>9, <1>10 DEF Settled
<1> QED
  BY <1>11

LEMMA PutAt ==
    ASSUME NEW in, NEW row, DOMAIN row = Fields
    PROVE  /\ DOMAIN Put(in, row) = Fields /\ Put(in, row) = [f \in Fields |-> Put(in, row)[f]]
           /\ DOMAIN Written(in) \subseteq Fields
           /\ \A f \in Fields \ DOMAIN Written(in) : Put(in, row)[f] = row[f]
           /\ \A f \in DOMAIN Written(in) \ Lists : Put(in, row)[f] = Written(in)[f]
<1> DEFINE w == Written(in)
           new == [f \in DOMAIN w |->
                       IF f \in Lists THEN w[f] \cup {r \in row[f] : r[1] \notin Sent(f, in[f])}
                       ELSE w[f]]
<1>1. Put(in, row) = Over(new, row)
  BY DEF Put
<1>2. DOMAIN w \subseteq Fields /\ DOMAIN new = DOMAIN w
  BY DEF Written
<1>3. \A f \in DOMAIN w \ Lists : new[f] = w[f]
  OBVIOUS
<1> HIDE DEF w, new
<1>4. /\ DOMAIN Over(new, row) = Fields
      /\ Over(new, row) = [f \in Fields |-> Over(new, row)[f]]
      /\ \A f \in Fields \ DOMAIN w : Over(new, row)[f] = row[f]
      /\ \A f \in DOMAIN w \ Lists : Over(new, row)[f] = w[f]
  BY <1>2, <1>3 DEF Over
<1> QED
  BY <1>1, <1>2, <1>4 DEF w

\* What is shown of the fields a body writes: in the row, and to OnWrite.
LEMMA NewValsAre ==
    ASSUME NEW c \in Calls
    PROVE  /\ DOMAIN NewVals(c) = DOMAIN Written(In(c))
           /\ \A f \in DOMAIN NewVals(c) : Shown(f, NewVals(c)[f]) =
                  IF f \in Lists THEN Contents(tx[c].echo[f]) ELSE Written(In(c))[f]
  BY DEF NewVals, Shown

\* OnWrite hears of a create all that makes up the row ...
LEMMA ReportCreate ==
    ASSUME JournalInv, NEW c \in Calls, pc[c] = "report", Does(c, "create")
    PROVE  LET told == Inserted(NewVals(c))
           IN effect[c].after = Over([f \in DOMAIN told |-> told[f].new], Blank)
<1> DEFINE all  == Over(NewVals(c), HookRow)
           told == Inserted(NewVals(c))
           base == Over(NewRow, Blank)
           g    == [f \in DOMAIN told |-> told[f].new]
           w    == Written(In(c))
<1>1. DOMAIN told = DOMAIN all /\ \A f \in DOMAIN all : told[f].new = Shown(f, all[f])
  BY DEF Inserted
<1>2. DOMAIN g = DOMAIN all /\ \A f \in DOMAIN all : g[f] = Shown(f, all[f])
  BY <1>1
<1>3. /\ DOMAIN all = DOMAIN w \cup DOMAIN HookRow
      /\ \A f \in DOMAIN w : all[f] = NewVals(c)[f]
      /\ \A f \in DOMAIN HookRow \ DOMAIN w : all[f] = HookRow[f]
  BY NewValsAre DEF Over
<1>4. /\ effect[c].after = Put(In(c), base)
      /\ \A l \in Lists \cap DOMAIN w : effect[c].after[l] = Contents(tx[c].echo[l])
  BY DEF JournalInv, Settled
<1>5. /\ DOMAIN base = Fields
      /\ \A f \in Cols : f \notin Lists /\ base[f] = NewRow[f] /\ Blank[f] = Null
      /\ \A f \in Lists : f \notin Cols /\ base[f] = {} /\ Blank[f] = {}
  BY NewRowType, CellsAssumption DEF Over, Blank, Fields
<1>6. \A f \in Cols : NewRow[f] = IF f \in DOMAIN HookRow THEN HookRow[f] ELSE Null
  BY HookRowAssumption DEF NewRow, Over
<1>7. DOMAIN HookRow \subseteq Cols /\ DOMAIN Blank = Fields
  BY HookRowAssumption DEF Blank
<1>8. \A f \in DOMAIN w : Shown(f, NewVals(c)[f]) =
          IF f \in Lists THEN Contents(tx[c].echo[f]) ELSE w[f]
  BY NewValsAre
<1>9. \A f \in DOMAIN HookRow : Shown(f, HookRow[f]) = HookRow[f]
  BY <1>5, <1>7 DEF Shown
<1> HIDE DEF all, told, base, g, w
<1>10. /\ DOMAIN effect[c].after = Fields
       /\ effect[c].after = [f \in Fields |-> effect[c].after[f]]
       /\ DOMAIN w \subseteq Fields
       /\ \A f \in Fields \ DOMAIN w : effect[c].after[f] = base[f]
       /\ \A f \in DOMAIN w \ Lists : effect[c].after[f] = w[f]
  BY <1>4, <1>5, PutAt DEF w
<1>11. DOMAIN g \subseteq Fields
  BY <1>2, <1>3, <1>7, <1>10 DEF Fields
<1>12. ASSUME NEW f \in Fields PROVE (IF f \in DOMAIN g THEN g[f] ELSE Blank[f]) = effect[c].after[f]
  <2>1. CASE f \in DOMAIN w
    BY <1>2, <1>3, <1>4, <1>8, <1>10, <2>1
  <2>2. CASE f \notin DOMAIN w
    <3>1. effect[c].after[f] = base[f]
      BY <1>10, <2>2
    <3>2. CASE f \in DOMAIN HookRow
      BY <1>2, <1>3, <1>5, <1>6, <1>7, <1>9, <2>2, <3>1, <3>2
    <3>3. CASE f \notin DOMAIN HookRow
      BY <1>2, <1>3, <1>5, <1>6, <2>2, <3>1, <3>3 DEF Fields
    <3> QED
      BY <3>2, <3>3
  <2> QED
    BY <2>1, <2>2
<1>13. Over(g, Blank) = [f \in Fields |-> IF f \in DOMAIN g THEN g[f] ELSE Blank[f]]
  BY <1>7, <1>11 DEF Over
<1>14. effect[c].after = Over(g, Blank)
  BY <1>10, <1>12, <1>13
<1> QED
  BY <1>14 DEF g, told

\* ... and of an update all that its commit has changed, with what was there before.
LEMMA ReportUpdate ==
    ASSUME JournalInv, NEW c \in Calls, pc[c] = "report", Does(c, "update"), UpToDate(c)
    PROVE  Diff(tx[c].before, NewVals(c)) = Changes(effect[c].before, effect[c].after)
<1> DEFINE before == effect[c].before
           after  == effect[c].after
           old    == tx[c].before
           new    == NewVals(c)
           w      == Written(In(c))
<1>1. before # Absent /\ \A f \in DOMAIN old : Shown(f, old[f]) = before[f]
  BY DEF UpToDate
<1>2. /\ before \in FullRow /\ after = Put(In(c), before)
      /\ \A l \in Lists \cap DOMAIN w : Good(tx[c].echo[l]) /\ after[l] = Contents(tx[c].echo[l])
  BY <1>1 DEF JournalInv, Settled
<1>3. DOMAIN w \subseteq DOMAIN old /\ \A l \in Lists \cap DOMAIN old : Good(old[l])
  <2>1. Asked(c) \subseteq DOMAIN old /\ \A l \in Lists \cap DOMAIN old : Good(old[l])
    BY DEF JournalInv, Read
  <2>2. DOMAIN w \subseteq Asked(c)
    BY DEF Written, Asked, Assignments, Deferred, Fields, Cols
  <2> QED
    BY <2>1, <2>2
<1>4. /\ DOMAIN new = DOMAIN w
      /\ \A f \in DOMAIN w : Shown(f, new[f]) = IF f \in Lists THEN Contents(tx[c].echo[f]) ELSE w[f]
  BY NewValsAre
<1>5. \A f \in DOMAIN w \cap Lists : new[f] = tx[c].echo[f]
  BY DEF NewVals
<1>6. DOMAIN before = Fields
  BY <1>2 DEF FullRow
<1> HIDE DEF before, after, old, new, w
<1>7. /\ DOMAIN w \subseteq Fields
      /\ \A f \in Fields \ DOMAIN w : after[f] = before[f]
      /\ \A f \in DOMAIN w \ Lists : after[f] = w[f]
  BY <1>2, <1>6, PutAt DEF w
<1>8. \A f \in DOMAIN w : Shown(f, old[f]) = before[f] /\ Shown(f, new[f]) = after[f]
  BY <1>1, <1>2, <1>3, <1>4, <1>7
<1>9. ASSUME NEW f \in DOMAIN w
      PROVE  /\ Reading(f, old[f]) = AsRead(f, before[f])
             /\ Reading(f, new[f]) = AsRead(f, after[f])
  <2>1. CASE f \notin Lists
    BY <1>8, <2>1 DEF Reading, AsRead, Shown
  <2>2. CASE f \in Lists
    <3>1. Good(old[f]) /\ Good(new[f])
      BY <1>2, <1>3, <1>5, <2>2
    <3>2. Contents(old[f]) = before[f] /\ Contents(new[f]) = after[f]
      BY <1>8, <2>2 DEF Shown
    <3> QED
      BY <2>2, <3>1, <3>2, GoodReading
  <2> QED
    BY <2>1, <2>2
<1>10. \A f \in DOMAIN w : Differs(f, old[f], new[f])
                             <=> Text(AsRead(f, before[f])) # Text(AsRead(f, after[f]))
  BY <1>9 DEF Differs
<1>11. \A f \in Fields \ DOMAIN w : AsRead(f, before[f]) = AsRead(f, after[f])
  BY <1>7
<1>12. Diff(old, new) = Changes(before, after)
  <2> DEFINE D == {g \in Fields : /\ before # Absent
                                  /\ Text(AsRead(g, before[g])) # Text(AsRead(g, after[g]))}
  <2>0. D = {g \in DOMAIN new : Differs(g, old[g], new[g])}
    BY <1>1, <1>4, <1>7, <1>10, <1>11
  <2>1. Diff(old, new) = [f \in D |-> [old |-> Shown(f, old[f]), new |-> Shown(f, new[f])]]
    BY <2>0 DEF Diff
  <2>2. Changes(before, after) = [f \in D |-> [old |-> before[f], new |-> after[f]]]
    BY DEF Changes
  <2>3. \A f \in D : Shown(f, old[f]) = before[f] /\ Shown(f, new[f]) = after[f]
    BY <1>4, <1>8, <2>0
  <2> HIDE DEF D
  <2> QED
    BY <2>1, <2>2, <2>3
<1> QED
  BY <1>12 DEF before, after, old, new

LEMMA ReportTrue ==
    ASSUME JournalInv, NEW c \in Calls, Report(c)
    PROVE  True(c)'
<1> DEFINE all  == Inserted(NewVals(c))
           diff == Diff(tx[c].before, NewVals(c))
           both == InsertedTwice(In(c))
<1>1. /\ pc[c] = "report" /\ UNCHANGED <<call, tx, effect>>
      /\ report'[c] = IF call[c].op = "create"
                      THEN [created |-> TRUE, changes |-> all, twice |-> both]
                      ELSE [created |-> FALSE, changes |-> diff, twice |-> {}]
  BY DEF Report, JournalInv, ListInv, TypeInv, Inv, Shaped
<1>2. Does(c, "create") \/ Does(c, "update")
  BY <1>1 DEF JournalInv, Settled, Saves
<1>3. UpToDate(c)' = UpToDate(c)
  BY <1>1 DEF UpToDate
<1>4. CASE Does(c, "create")
  <2>1. effect[c].after = Over([f \in DOMAIN all |-> all[f].new], Blank)
    BY <1>1, <1>4, ReportCreate
  <2>2. both \subseteq DOMAIN HookRow \cap DeferredCols
    BY HookRowAssumption, CellsAssumption DEF InsertedTwice, Deferred
  <2>3. call[c].op = "create"
    BY <1>4 DEF Does
  <2> HIDE DEF all, diff, both
  <2>4. report'[c].created /\ report'[c].changes = all /\ report'[c].twice = both
    BY <1>1, <2>3
  <2> QED
    BY <1>1, <2>1, <2>2, <2>4 DEF True
<1>5. CASE Does(c, "update")
  <2>1. UpToDate(c) => diff = Changes(effect[c].before, effect[c].after)
    BY <1>1, <1>5, ReportUpdate
  <2>2. call[c].op # "create"
    BY <1>5 DEF Does
  <2> HIDE DEF all, diff, both
  <2>3. ~report'[c].created /\ report'[c].changes = diff
    BY <1>1, <2>2
  <2> QED
    BY <1>1, <1>3, <2>1, <2>3 DEF True
<1> QED
  BY <1>2, <1>4, <1>5

\* No other call changes what was committed, read or reported.
LEMMA OthersTell ==
    ASSUME JournalInv, NEW c \in Calls, NEW d \in Calls \ {c}, Step(d)
    PROVE  Read(c)' /\ Settled(c)' /\ True(c)'
<1>1. /\ Inv /\ Read(c) /\ Settled(c) /\ True(c) /\ Told(c)
      /\ pc'[c] = pc[c] /\ tx'[c] = tx[c] /\ call'[c] = call[c]
  BY Frame DEF JournalInv, ListInv, TypeInv, CommitInv
<1>2. /\ report'[c] = report[c]
      /\ c \in DOMAIN effect => c \in DOMAIN effect' /\ effect'[c] = effect[c]
  <2>1. CASE Applied(d)
    <3>1. PICK i \in {Id(d)} :
              effect' = Over([k \in {d} |-> [before |-> RowOf(i), after |-> RowOf(i)']], effect)
      BY <2>1 DEF Applied, Apply
    <3>2. c \in DOMAIN effect => c \in DOMAIN effect' /\ effect'[c] = effect[c]
      BY <3>1 DEF Over
    <3> QED
      BY <2>1, <3>2 DEF Applied
  <2>2. CASE Report(d)
    BY <1>1, <2>2 DEF Report, Inv, Shaped
  <2>3. CASE ~Applied(d) /\ ~Report(d)
    <3>1. UNCHANGED <<effect, report>>
      BY <2>3 DEF Step, Started, Moved, Created, Updated, Listed, RemoveRow, Cascade, RolledBack,
                  Return, Locally
    <3> QED
      BY <3>1
  <2> QED
    BY <2>1, <2>2, <2>3
<1>3. /\ In(c)' = In(c) /\ Saves(c)' = Saves(c) /\ Asked(c)' = Asked(c)
      /\ \A op : Does(c, op)' = Does(c, op)
  BY <1>1 DEF In, Saves, Does, Asked
<1>4. Read(c)'
  BY <1>1, <1>3 DEF Read
<1>5. Settled(c)'
  BY <1>1, <1>2, <1>3 DEF Settled
<1>6. True(c)'
  <2> SUFFICES ASSUME report[c] # None PROVE True(c)'
    BY <1>2 DEF True
  <2>1. effect'[c] = effect[c]
    BY <1>1, <1>2 DEF Told
  <2>2. UpToDate(c)' = UpToDate(c)
    BY <1>1, <2>1 DEF UpToDate
  <2> QED
    BY <1>1, <1>2, <2>1, <2>2 DEF True
<1> QED
  BY <1>4, <1>5, <1>6

LEMMA OwnTells ==
    ASSUME IsFiniteSet(Keys), LocksFirst, JournalInv, ListInv', NEW c \in Calls, Acts(c)
    PROVE  Settled(c)' /\ True(c)'
<1>1. Inv /\ Step(c) /\ Told(c) /\ True(c)
  BY Shapes DEF JournalInv, ListInv, TypeInv, Inv, CommitInv, Acts
<1>2. CASE Report(c)
  <2>1. pc'[c] = "done"
    BY <1>1, <1>2 DEF Report, Goto, Inv, Shaped
  <2> QED
    BY <1>2, <2>1, ReportTrue DEF Settled
<1>3. CASE ~Report(c)
  <2>1. report' = report /\ pc[c] # "done"
    BY <1>1, <1>3 DEF Step, Started, Moved, Created, Updated, Listed, RemoveRow, Cascade, RolledBack,
                      Return, Locally, Applied, Runs, Open
  <2>2. True(c)'
    BY <1>1, <2>1 DEF Told, True
  <2>3. CASE Commit(c) \/ CommitUnheard(c)
    BY <2>2, <2>3, CommitSettles
  <2>4. CASE ~(Commit(c) \/ CommitUnheard(c))
    <3>1. pc'[c] # "report"
      <4>1. CASE Applied(c)
        <5>1. pc[c] = "commit"
          BY <4>1 DEF Applied
        <5>2. Return(c, "err")
          BY <1>3, <2>4, <5>1
             DEF Acts, Statement, Start, CreateHook, CheckExists, ReadBefore, ReadBeforeList,
                 UpdateRow, ResolveDeferred, StartReplace, FinishReplace, InsertList, ReadBack,
                 UpdateBack, RemoveRow, RefuseRemove, Cascade, Runs, Fail, DeadlockVictim
        <5> QED
          BY <1>1, <5>2 DEF Return, Goto, Inv, Shaped
      <4>2. CASE ~Applied(c)
        BY <1>1, <1>3, <4>2 DEF Step, Started, AfterBegin, Moved, Created, Updated, Listed, AfterSave,
                                RemoveRow, Cascade, RolledBack, Return, Goto, Inv, Shaped
      <4> QED
        BY <4>1, <4>2
    <3> QED
      BY <2>2, <3>1 DEF Settled
  <2> QED
    BY <2>3, <2>4
<1> QED
  BY <1>2, <1>3

\* change.go:3: OnWrite hears of an update every field its commit has changed, with what
\* was there before and what is there after, unless another save has changed the row in
\* between; of a create, what makes up the row.
THEOREM JournalIsTrue ==
    ASSUME LocksFirst, IsFiniteSet(Keys) PROVE Spec => []JournalTellsTheTruth
<1>1. Init => JournalInv
  <2> SUFFICES ASSUME Init PROVE \A c \in Calls : Echoed(c) /\ Read(c) /\ Settled(c) /\ True(c)
    BY InitLists, InitTold DEF JournalInv
  <2> QED
    BY DEF Init, Echoed, Read, Settled, True, Saves, Does
<1>2. JournalInv /\ [Next]_vars => JournalInv'
  <2> SUFFICES ASSUME JournalInv, [Next]_vars PROVE JournalInv'
    OBVIOUS
  <2>1. ListInv' /\ CommitInv'
    BY NextLists, CommitInvStays DEF JournalInv
  <2>2. CASE UNCHANGED vars
    <3>1. ASSUME NEW c \in Calls PROVE Echoed(c)' /\ Read(c)' /\ Settled(c)' /\ True(c)'
      <4>1. /\ In(c)' = In(c) /\ Id(c)' = Id(c) /\ Saves(c)' = Saves(c) /\ Asked(c)' = Asked(c)
            /\ \A op : Does(c, op)' = Does(c, op)
        BY <2>2 DEF vars, In, Id, Saves, Does, Asked
      <4>2. \A l : Final(c, l)' = Final(c, l)
        BY <2>2, FinalStill DEF vars, ItemsOf, Id
      <4>3. UpToDate(c)' = UpToDate(c)
        BY <2>2 DEF vars, UpToDate
      <4>4. Echoed(c) /\ Read(c) /\ Settled(c) /\ True(c)
        BY DEF JournalInv
      <4>5. UNCHANGED <<pc, lock, tx, report, effect>>
        BY <2>2 DEF vars
      <4>6. Echoed(c)' /\ Read(c)'
        BY <4>1, <4>2, <4>4, <4>5 DEF Echoed, Read
      <4>7. Settled(c)' /\ True(c)'
        BY <4>1, <4>3, <4>4, <4>5 DEF Settled, True
      <4> QED
        BY <4>6, <4>7
    <3> QED
      BY <2>1, <3>1 DEF JournalInv
  <2>3. ASSUME NEW d \in Calls, Acts(d) PROVE JournalInv'
    <3>1. Step(d) /\ ListInv
      BY <2>3, Shapes DEF JournalInv, ListInv, TypeInv, Inv, Acts
    <3>2. ASSUME NEW c \in Calls PROVE Echoed(c)' /\ Read(c)' /\ Settled(c)' /\ True(c)'
      <4>1. Echoed(c) /\ Read(c)
        BY DEF JournalInv
      <4>2. CASE c = d
        BY <2>1, <2>3, <3>1, <4>1, <4>2, OwnEchoed, OwnRead, OwnTells
      <4>3. CASE c # d
        BY <3>1, <4>1, <4>3, OthersEchoed, OthersTell
      <4> QED
        BY <4>2, <4>3
    <3> QED
      BY <2>1, <3>2 DEF JournalInv
  <2> QED
    BY <2>2, <2>3 DEF Next, Finished, Acts
<1>3. JournalInv => JournalTellsTheTruth
  BY DEF JournalInv, True, JournalTellsTheTruth
<1> QED
  BY <1>1, <1>2, <1>3, PTL DEF Spec
===============================================================================
