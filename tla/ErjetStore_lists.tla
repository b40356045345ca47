---------------------------- MODULE ErjetStore_lists ----------------------------
(***************************************************************************)
(* The lists of erjet.Store: that no two saves mix what they write, for    *)
(* any number of calls, cells and keys and whatever the bodies hold, as    *)
(* long as a save that replaces a list has written the main row first      *)
(* (LocksFirst).                                                           *)
(*                                                                         *)
(* What a save has to write, has deleted and has inserted is worked out    *)
(* from its body and from how far it has come (Planned, Listing,           *)
(* Assigned): no step of another call can change that.  The lock of the    *)
(* main row then keeps what is committed of its lists as it was when the   *)
(* DELETE looked at it (Covered).                                          *)
(***************************************************************************)
EXTENDS ErjetStore_proofs, FunctionTheorems

\* A body that replaces a list assigns a column of the first UPDATE.
LocksFirst ==
    \A in \in Payloads : \A l \in Lists \cap DOMAIN in : Parses(l, in[l]) => Assignments(in) # {}

Saves(c) == Does(c, "create") \/ Does(c, "update")
Ahead  == {"hook", "exists", "before", "beforeLists", "update"}
Saving == {"deferred", "replace", "insert", "updateBack", "commit"}

\* The lists a save replaces, the one it is at, and those it has deleted.
ListSteps(c) == {s \in Steps(In(c)) : Replaces(In(c), s)}
DueSteps(c)  == {s \in tx[c].todo : Due(tx[c].todo, s)}
Cleared(c)   == (ListSteps(c) \ tx[c].todo) \cup (IF pc[c] = "insert" THEN DueSteps(c) ELSE {})

InsertedBy(c, s) == [owner : {Id(c)}, cell : {s[1]}, by : {c},
                     row : PartRows(s[1], s[2], ListAt(s[1], In(c)[s[1]], s[2]))]

\* The list a row belongs to.
ListOf(x) == <<x.cell, x.row[1]>>

\* What is left to write.
Planned(c) ==
    /\ pc[c] = "idle" => tx[c] = NoTx
    /\ Saves(c) /\ pc[c] \in Ahead => tx[c].todo = Steps(In(c))
    /\ Saves(c) /\ pc[c] \in {"updateBack", "commit"} => tx[c].todo = {}

\* The list rows a save has inserted and deleted.
Listing(c) ==
    Saves(c) /\ c \in Open =>
        /\ tx[c].fresh = UNION {InsertedBy(c, s) : s \in ListSteps(c) \ tx[c].todo}
        /\ \A x \in tx[c].gone : x.owner = Id(c) /\ ListOf(x) \in Cleared(c)
        /\ \A x \in tx[c].snap : /\ pc[c] = "replace"
                                 /\ x.owner = Id(c) /\ ListOf(x) \in DueSteps(c)

\* The columns it has written: in an update those of the first SET until the second,
\* in a create those of the hook.
FirstColumns(c) == IF Does(c, "create") THEN Cols ELSE Assignments(In(c))
AllColumns(c)   == (IF Does(c, "create") THEN Cols ELSE {}) \cup (DOMAIN Written(In(c)) \cap Cols)
HookValue(c, f) == IF Does(c, "create") THEN NewRow[f] ELSE Written(In(c))[f]
LastValue(c, f) == IF f \in DOMAIN Written(In(c)) THEN Written(In(c))[f] ELSE NewRow[f]
Assigned(c) ==
    Saves(c) =>
        /\ pc[c] \in Ahead => tx[c].sets = <<>>
        /\ pc[c] \in Saving \ {"commit"} =>
               /\ DOMAIN tx[c].sets = FirstColumns(c)
               /\ \A f \in FirstColumns(c) : tx[c].sets[f] = HookValue(c, f)
        /\ pc[c] = "commit" =>
               /\ DOMAIN tx[c].sets = AllColumns(c)
               /\ \A f \in AllColumns(c) : tx[c].sets[f] = LastValue(c, f)

Local(c) == Planned(c) /\ Listing(c) /\ Assigned(c)

\* An update that has written a column has the lock of its row, or there was no row; a
\* delete that has deleted list rows has it.
Locking(c) ==
    /\ Does(c, "update") /\ DOMAIN tx[c].sets # {} => lock[Id(c)] = c \/ rows[Id(c)] = Absent
    /\ Does(c, "delete") /\ tx[c].gone # {} =>
           lock[Id(c)] = c /\ \A x \in tx[c].gone : x.owner = Id(c)

\* What is committed of the lists it replaces it has deleted, or is about to.
Covered(c) ==
    Saves(c) /\ c \in Open =>
        \A x \in items : x.owner = Id(c) =>
            /\ ListOf(x) \in Cleared(c) => x \in tx[c].gone
            /\ pc[c] = "replace" /\ ListOf(x) \in DueSteps(c) => x \in tx[c].snap

\* Each list in the tables is one that was sent as a whole.
OneList(i, l, key) ==
    \E b \in Calls \cup {None}, s \in Seq(Values \cup {Bad}) :
        ItemsAt(i, l, key) = [owner : {i}, cell : {l}, by : {b}, row : PartRows(l, key, s)]
Sorted == /\ \A i \in Ids, l \in Lists, key \in Parts : OneList(i, l, key)
          /\ \A x \in items : x.cell \notin Keyed => x.row[1] = Whole

ListInv == /\ TypeInv /\ Sorted
           /\ \A c \in Calls : Local(c) /\ Locking(c) /\ Covered(c)
-------------------------------------------------------------------------------
(* What each statement does to the plan of its own transaction.             *)

\* The columns a body writes are those of the first UPDATE and what the deferred
\* cells yield.
LEMMA ColumnsSplit ==
    ASSUME NEW r
    PROVE  /\ r.op = "create" => AssignsBack(r) = DOMAIN Written(r.in) \cap Cols
           /\ DOMAIN Written(r.in) \cap Cols = Assignments(r.in) \cup AssignsBack(r)
  BY CellsAssumption DEF AssignsBack, Assignments, Deferred, Written, Parses, Fields, Cols

LEMMA SavesAre ==
    ASSUME TypeInv, NEW c \in Calls
    PROVE  /\ pc[c] \in Ahead \cup (Saving \ {"commit"}) => Saves(c)
           /\ pc[c] = "hook" => Does(c, "create")
           /\ pc[c] \in Ahead \ {"hook"} => Does(c, "update")
           /\ Saves(c) => In(c) \in Payloads /\ c \in Calls /\ ~Does(c, "delete")
           /\ ~(Does(c, "create") /\ Does(c, "update"))
  BY DEF TypeInv, Inv, Shaped, Staged, Ahead, Saving, Saves, Does

\* A step of the same transaction that leaves its list rows and the lists it has
\* still to replace.
LEMMA ListingKept ==
    ASSUME TypeInv, NEW c \in Calls, Listing(c), Covered(c), c \in Open,
           call'[c] = call[c], UNCHANGED items,
           pc[c] \notin {"replace", "insert"}, pc'[c] \notin {"replace", "insert"},
           ListSteps(c) \ tx'[c].todo = ListSteps(c) \ tx[c].todo,
           tx'[c].snap = tx[c].snap, tx'[c].gone = tx[c].gone, tx'[c].fresh = tx[c].fresh
    PROVE  Listing(c)' /\ Covered(c)'
<1>1. Saves(c)' = Saves(c) /\ Id(c)' = Id(c) /\ ListSteps(c)' = ListSteps(c)
  BY DEF Saves, Does, Id, ListSteps, In, Replaces
<1>2. \A s : InsertedBy(c, s)' = InsertedBy(c, s)
  BY DEF InsertedBy, Id, In
<1>3. Cleared(c)' = Cleared(c)
  BY <1>1 DEF Cleared
<1>4. Listing(c)'
  BY <1>1, <1>2, <1>3 DEF Listing
<1>5. Covered(c)'
  BY <1>1, <1>3 DEF Covered
<1> QED
  BY <1>4, <1>5

LEMMA ReadLocal ==
    ASSUME TypeInv, NEW c \in Calls, Local(c), Covered(c),
           \/ ReadBefore(c) /\ rows[Id(c)] # Absent
           \/ ReadBeforeList(c)
    PROVE  Local(c)' /\ Covered(c)'
<1>1. PICK b, u : tx' = [tx EXCEPT ![c].before = b, ![c].unread = u]
  BY DEF ReadBefore, ReadBeforeList
<1>2. tx'[c] = [tx[c] EXCEPT !.before = b, !.unread = u]
  BY <1>1 DEF TypeInv, Inv, Shaped
<1>3. /\ tx'[c].todo = tx[c].todo /\ tx'[c].sets = tx[c].sets
      /\ tx'[c].snap = tx[c].snap /\ tx'[c].gone = tx[c].gone /\ tx'[c].fresh = tx[c].fresh
  BY <1>2 DEF TypeInv, Inv, Shaped, NoTx
<1>4. /\ call' = call /\ items' = items /\ pc[c] \in {"before", "beforeLists"}
      /\ pc'[c] \in {"beforeLists", "update", "deferred"}
      /\ pc'[c] = "deferred" => Assignments(In(c)) = {}
  BY DEF ReadBefore, ReadBeforeList, Locally, Goto, TypeInv, Inv, Shaped
<1>5. Does(c, "update") /\ Saves(c) /\ ~Does(c, "create") /\ c \in Open
  BY <1>4, SavesAre DEF Ahead, Open
<1>6. Planned(c)'
  BY <1>3, <1>4, <1>5 DEF Local, Planned, Ahead, Saves, Does, In
<1>7. Listing(c)' /\ Covered(c)'
  BY <1>3, <1>4, <1>5, ListingKept DEF Local
<1>8. Assigned(c)'
  <2>1. tx'[c].sets = <<>>
    BY <1>3, <1>4, <1>5 DEF Local, Assigned, Ahead
  <2>2. FirstColumns(c)' = Assignments(In(c))
    BY <1>4, <1>5 DEF FirstColumns, Does, In
  <2> QED
    BY <1>4, <2>1, <2>2 DEF Assigned, Ahead, Saving
<1> QED
  BY <1>6, <1>7, <1>8 DEF Local


\* The first SET, or the hook, is through and the deferred cells of todo are left.
LEMMA FirstIsAssigned ==
    ASSUME TypeInv, NEW c \in Calls, Saves(c), call' = call,
           pc'[c] = AfterDeferred(c, tx'[c].todo),
           DOMAIN tx'[c].sets = FirstColumns(c),
           \A f \in FirstColumns(c) : tx'[c].sets[f] = HookValue(c, f)
    PROVE  Planned(c)' /\ Assigned(c)'
<1>1. /\ Saves(c)' /\ AllColumns(c)' = AllColumns(c) /\ FirstColumns(c)' = FirstColumns(c)
      /\ \A f : HookValue(c, f)' = HookValue(c, f) /\ LastValue(c, f)' = LastValue(c, f)
  BY DEF Saves, Does, AllColumns, FirstColumns, HookValue, LastValue, In
<1>2. pc'[c] \in {"deferred", "updateBack", "commit"}
  BY DEF AfterDeferred
<1>3. pc'[c] \in {"updateBack", "commit"} => tx'[c].todo = {}
  BY DEF AfterDeferred
<1>4. pc'[c] = "commit" => AssignsBack(call[c]) = {}
  BY DEF AfterDeferred
<1>5. Planned(c)'
  BY <1>2, <1>3 DEF Planned, Ahead
<1>6. ASSUME pc'[c] = "commit"
      PROVE  /\ FirstColumns(c) = AllColumns(c)
             /\ \A f \in AllColumns(c) : HookValue(c, f) = LastValue(c, f)
  <2>1. DOMAIN Written(In(c)) \cap Cols = Assignments(In(c))
    BY <1>4, <1>6, ColumnsSplit DEF In
  <2>2. CASE Does(c, "create")
    <3>1. DOMAIN Written(In(c)) \cap Cols = {}
      BY <1>4, <1>6, <2>2, ColumnsSplit DEF In, Does
    <3> QED
      BY <2>2, <3>1 DEF FirstColumns, AllColumns, HookValue, LastValue
  <2>3. CASE ~Does(c, "create")
    BY <2>1, <2>3 DEF FirstColumns, AllColumns, HookValue, LastValue
  <2> QED
    BY <2>2, <2>3
<1>7. Assigned(c)'
  BY <1>1, <1>2, <1>6 DEF Assigned, Ahead, Saving
<1> QED
  BY <1>5, <1>7

LEMMA StartLocal ==
    ASSUME TypeInv, NEW c \in Calls, Local(c), Covered(c), Start(c)
    PROVE  Local(c)' /\ Covered(c)'
<1>1. PICK r \in Contract!Operations :
         /\ call' = [call EXCEPT ![c] = r]
         /\ tx' = [tx EXCEPT ![c].todo = IF r.op = "delete" THEN {} ELSE Steps(r.in)]
         /\ Goto(c, CASE r.op = "create" -> "hook"
                      [] r.op = "delete" -> "remove"
                      [] r.op = "update" -> IF Assignments(r.in) = {} /\ Deferred(r.in) = {}
                                            THEN "exists" ELSE "before")
  BY DEF Start
<1>2. call'[c] = r /\ tx[c] = NoTx
  BY <1>1 DEF TypeInv, Inv, Shaped, Start, Local, Planned
<1>3. tx'[c] = [NoTx EXCEPT !.todo = IF r.op = "delete" THEN {} ELSE Steps(r.in)]
  BY <1>1, <1>2 DEF TypeInv, Inv, Shaped
<1>4. /\ tx'[c].todo = IF r.op = "delete" THEN {} ELSE Steps(r.in)
      /\ tx'[c].sets = <<>>
      /\ tx'[c].snap = {} /\ tx'[c].gone = {} /\ tx'[c].fresh = {}
  BY <1>3 DEF NoTx
<1>5. pc'[c] \in {"hook", "remove", "exists", "before"}
  <2>1. Started(c)
    BY StartShape DEF TypeInv, Inv
  <2> QED
    BY <2>1 DEF Started, AfterBegin, TypeInv, Inv, Shaped, Goto
<1>6. Saves(c)' => tx'[c].todo = Steps(In(c)')
  BY <1>2, <1>4 DEF Saves, Does, In
<1>7. Planned(c)'
  BY <1>5, <1>6 DEF Planned, In
<1>8. Saves(c)' => (ListSteps(c) \ tx[c].todo)' = {}
  BY <1>6 DEF ListSteps, In
<1>9. Listing(c)'
  BY <1>4, <1>8 DEF Listing
<1>10. Assigned(c)'
  BY <1>4, <1>5 DEF Assigned, Ahead, Saving
<1>11. Saves(c)' => Cleared(c)' = {}
  BY <1>5, <1>8 DEF Cleared
<1>12. Covered(c)'
  BY <1>5, <1>11 DEF Covered
<1> QED
  BY <1>7, <1>9, <1>10, <1>12 DEF Local

LEMMA HookLocal ==
    ASSUME TypeInv, NEW c \in Calls, Local(c), Covered(c), CreateHook(c)
    PROVE  Local(c)' /\ Covered(c)'
<1>1. tx'[c] = [tx[c] EXCEPT !.sets = NewRow]
  BY DEF CreateHook, TypeInv, Inv, Shaped
<1>2. /\ tx'[c].todo = tx[c].todo /\ tx'[c].sets = NewRow
      /\ tx'[c].snap = tx[c].snap /\ tx'[c].gone = tx[c].gone /\ tx'[c].fresh = tx[c].fresh
  BY <1>1 DEF TypeInv, Inv, Shaped, NoTx
<1>3. /\ call' = call /\ items' = items
      /\ pc[c] = "hook" /\ pc'[c] = AfterDeferred(c, tx'[c].todo)
  BY <1>2 DEF CreateHook, Locally, Goto, TypeInv, Inv, Shaped
<1>4. Does(c, "create") /\ Saves(c) /\ c \in Open
  BY <1>3, SavesAre DEF Saves, Open
<1>5. DOMAIN NewRow = FirstColumns(c) /\ \A f \in FirstColumns(c) : NewRow[f] = HookValue(c, f)
  BY <1>4, NewRowType DEF FirstColumns, HookValue
<1>6. Planned(c)' /\ Assigned(c)'
  BY <1>2, <1>3, <1>4, <1>5, FirstIsAssigned
<1>7. Listing(c)' /\ Covered(c)'
  BY <1>2, <1>3, <1>4, ListingKept DEF Local, AfterDeferred
<1> QED
  BY <1>6, <1>7 DEF Local

LEMMA UpdateLocal ==
    ASSUME TypeInv, NEW c \in Calls, Local(c), Covered(c), UpdateRow(c) \/ UpdateBack(c)
    PROVE  Local(c)' /\ Covered(c)'
<1> DEFINE cols == IF UpdateRow(c) THEN Assignments(In(c)) ELSE AssignsBack(call[c])
           new  == Over([f \in cols |-> Written(In(c))[f]], tx[c].sets)
<1>1. tx' = [tx EXCEPT ![c].sets = new]
  BY DEF UpdateRow, UpdateBack, Update
<1>2. tx'[c] = [tx[c] EXCEPT !.sets = new]
  BY <1>1 DEF TypeInv, Inv, Shaped
<1>3. /\ tx'[c].todo = tx[c].todo /\ tx'[c].sets = new
      /\ tx'[c].snap = tx[c].snap /\ tx'[c].gone = tx[c].gone /\ tx'[c].fresh = tx[c].fresh
  BY <1>2 DEF TypeInv, Inv, Shaped, NoTx
<1>4. call' = call /\ items' = items
  BY DEF UpdateRow, UpdateBack, Locally
<1>5. CASE UpdateRow(c)
  <2>1. pc[c] = "update" /\ pc'[c] = AfterDeferred(c, tx'[c].todo)
    BY <1>3, <1>5 DEF UpdateRow, Runs, Goto, TypeInv, Inv, Shaped
  <2>2. Does(c, "update") /\ ~Does(c, "create") /\ Saves(c) /\ c \in Open
    BY <2>1, SavesAre DEF Ahead, Saves, Open
  <2>3. tx[c].sets = <<>>
    BY <2>1, <2>2 DEF Local, Assigned, Ahead
  <2>4. /\ DOMAIN new = FirstColumns(c)
        /\ \A f \in FirstColumns(c) : new[f] = HookValue(c, f)
    BY <1>5, <2>2, <2>3 DEF FirstColumns, HookValue, Over
  <2> HIDE DEF new
  <2>5. Planned(c)' /\ Assigned(c)'
    BY <1>3, <1>4, <2>1, <2>2, <2>4, FirstIsAssigned
  <2>6. Listing(c)' /\ Covered(c)'
    BY <1>3, <1>4, <2>1, <2>2, ListingKept DEF Local, AfterDeferred
  <2> QED
    BY <2>5, <2>6 DEF Local
<1>6. CASE UpdateBack(c) /\ ~UpdateRow(c)
  <2>1. pc[c] = "updateBack" /\ pc'[c] = "commit"
    BY <1>6 DEF UpdateBack, Runs, Goto, TypeInv, Inv, Shaped
  <2>2. Saves(c) /\ c \in Open
    BY <2>1, SavesAre DEF Saving, Open
  <2>3. /\ DOMAIN tx[c].sets = FirstColumns(c)
        /\ \A f \in FirstColumns(c) : tx[c].sets[f] = HookValue(c, f)
    BY <2>1, <2>2 DEF Local, Assigned, Saving
  <2>4. /\ DOMAIN new = AllColumns(c)
        /\ \A f \in AllColumns(c) : new[f] = LastValue(c, f)
    <3>1. cols = AssignsBack(call[c])
      BY <1>6
    <3>2. CASE Does(c, "create")
      <4>1. cols = DOMAIN Written(In(c)) \cap Cols
        BY <3>1, <3>2, ColumnsSplit DEF Does, In
      <4> HIDE DEF cols
      <4> QED
        BY <2>3, <3>2, <4>1 DEF Over, FirstColumns, AllColumns, HookValue, LastValue
    <3>3. CASE ~Does(c, "create")
      <4>1. DOMAIN Written(In(c)) \cap Cols = Assignments(In(c)) \cup cols
        BY <3>1, <3>3, ColumnsSplit DEF In
      <4> HIDE DEF cols
      <4> QED
        BY <2>3, <3>3, <4>1 DEF Over, FirstColumns, AllColumns, HookValue, LastValue
    <3> QED
      BY <3>2, <3>3
  <2> HIDE DEF new
  <2>5. /\ AllColumns(c)' = AllColumns(c) /\ Saves(c)'
        /\ \A f : LastValue(c, f)' = LastValue(c, f)
    BY <1>4, <2>2 DEF Saves, Does, AllColumns, LastValue, In
  <2>6. Planned(c)' /\ Assigned(c)'
    BY <1>3, <2>1, <2>2, <2>4, <2>5 DEF Local, Planned, Assigned, Ahead, Saving
  <2>7. Listing(c)' /\ Covered(c)'
    BY <1>3, <1>4, <2>1, <2>2, ListingKept DEF Local
  <2> QED
    BY <2>6, <2>7 DEF Local
<1> QED
  BY <1>5, <1>6

\* A deferred cell that writes no list, and the SELECT after one.
LEMMA SkipLocal ==
    ASSUME TypeInv, NEW c \in Calls, Local(c), Covered(c), ResolveDeferred(c) \/ ReadBack(c)
    PROVE  Local(c)' /\ Covered(c)'
<1>0. \E s \in tx[c].todo : \E e :
         /\ ~Replaces(In(c), s)
         /\ tx' = [tx EXCEPT ![c].todo = tx[c].todo \ {s}, ![c].echo = e]
         /\ Goto(c, AfterDeferred(c, tx[c].todo \ {s}))
  <2>1. CASE ResolveDeferred(c)
    <3>1. PICK s \in tx[c].todo : /\ s[1] \in Lists => ~Parses(s[1], In(c)[s[1]])
                                  /\ tx' = [tx EXCEPT ![c].todo = tx[c].todo \ {s}]
                                  /\ Goto(c, AfterDeferred(c, tx[c].todo \ {s}))
      BY <2>1 DEF ResolveDeferred
    <3>2. tx' = [tx EXCEPT ![c].todo = tx[c].todo \ {s}, ![c].echo = tx[c].echo]
      BY <3>1 DEF TypeInv, Inv, Shaped, NoTx
    <3> QED
      BY <3>1, <3>2 DEF Replaces
  <2>2. CASE ReadBack(c)
    <3>1. PICK s \in tx[c].todo :
             /\ s[2] = Reread
             /\ tx' = [tx EXCEPT ![c].echo = Over([k \in {s[1]} |-> SeenRows(c, s[1])], @),
                                 ![c].todo = tx[c].todo \ {s}]
             /\ Goto(c, AfterDeferred(c, tx[c].todo \ {s}))
      BY <2>2 DEF ReadBack
    <3> DEFINE e == Over([k \in {s[1]} |-> SeenRows(c, s[1])], tx[c].echo)
    <3>2. tx' = [tx EXCEPT ![c].todo = tx[c].todo \ {s}, ![c].echo = e]
      BY <3>1
    <3> QED
      BY <3>1, <3>2 DEF Replaces
  <2> QED
    BY <2>1, <2>2
<1>S. PICK s \in tx[c].todo : \E e :
          /\ ~Replaces(In(c), s)
          /\ tx' = [tx EXCEPT ![c].todo = tx[c].todo \ {s}, ![c].echo = e]
          /\ Goto(c, AfterDeferred(c, tx[c].todo \ {s}))
  BY <1>0
<1>1. PICK e : /\ ~Replaces(In(c), s)
               /\ tx' = [tx EXCEPT ![c].todo = tx[c].todo \ {s}, ![c].echo = e]
               /\ Goto(c, AfterDeferred(c, tx[c].todo \ {s}))
  BY <1>S
<1>2. tx'[c] = [tx[c] EXCEPT !.todo = tx[c].todo \ {s}, !.echo = e]
  BY <1>1 DEF TypeInv, Inv, Shaped
<1>3. /\ tx'[c].todo = tx[c].todo \ {s} /\ tx'[c].sets = tx[c].sets
      /\ tx'[c].snap = tx[c].snap /\ tx'[c].gone = tx[c].gone /\ tx'[c].fresh = tx[c].fresh
  BY <1>2 DEF TypeInv, Inv, Shaped, NoTx
<1>4. /\ call' = call /\ items' = items
      /\ pc[c] = "deferred" /\ pc'[c] = AfterDeferred(c, tx'[c].todo)
  BY <1>1, <1>3 DEF ResolveDeferred, ReadBack, Locally, Goto, TypeInv, Inv, Shaped
<1>5. Saves(c) /\ c \in Open
  BY <1>4, SavesAre DEF Saving, Open
<1>6. /\ DOMAIN tx[c].sets = FirstColumns(c)
      /\ \A f \in FirstColumns(c) : tx[c].sets[f] = HookValue(c, f)
  BY <1>4, <1>5 DEF Local, Assigned, Saving
<1>7. Planned(c)' /\ Assigned(c)'
  BY <1>3, <1>4, <1>5, <1>6, FirstIsAssigned
<1>8. ListSteps(c) \ tx'[c].todo = ListSteps(c) \ tx[c].todo
  BY <1>1, <1>3 DEF ListSteps
<1>9. Listing(c)' /\ Covered(c)'
  BY <1>3, <1>4, <1>5, <1>8, ListingKept DEF Local, AfterDeferred
<1> QED
  BY <1>7, <1>9 DEF Local

\* The list a save is at is the one that is due.
LEMMA DueStep ==
    ASSUME TypeInv, NEW c \in Calls, NEW s \in tx[c].todo, Due(tx[c].todo, s), Replaces(In(c), s)
    PROVE  /\ DueSteps(c) = {s} /\ s \in ListSteps(c) /\ s = <<s[1], s[2]>>
           /\ s[1] \in Lists /\ s[2] \in Parts
<1>1. tx[c].todo \in SUBSET (Fields \X (Parts \cup {Reread}))
  BY StepsType DEF TypeInv, Typed
<1>2. DueSteps(c) = {s}
  BY <1>1, OneDue DEF DueSteps
<1>3. s \in ListSteps(c)
  BY DEF ListSteps, TypeInv, Typed
<1>4. s[2] \in Parts
  BY StepsType DEF TypeInv, Typed
<1> QED
  BY <1>1, <1>2, <1>3, <1>4 DEF Replaces

LEMMA StartReplaceLocal ==
    ASSUME TypeInv, NEW c \in Calls, Local(c), Covered(c), StartReplace(c)
    PROVE  Local(c)' /\ Covered(c)'
<1>1. PICK s \in tx[c].todo :
         /\ Due(tx[c].todo, s) /\ Replaces(In(c), s)
         /\ tx' = [tx EXCEPT ![c].snap = ItemsAt(Id(c), s[1], s[2])]
  BY DEF StartReplace, Replaces
<1>2. tx'[c] = [tx[c] EXCEPT !.snap = ItemsAt(Id(c), s[1], s[2])]
  BY <1>1 DEF TypeInv, Inv, Shaped
<1>3. /\ tx'[c].todo = tx[c].todo /\ tx'[c].sets = tx[c].sets
      /\ tx'[c].snap = ItemsAt(Id(c), s[1], s[2])
      /\ tx'[c].gone = tx[c].gone /\ tx'[c].fresh = tx[c].fresh
  BY <1>2 DEF TypeInv, Inv, Shaped, NoTx
<1>4. /\ call' = call /\ items' = items
      /\ pc[c] = "deferred" /\ pc'[c] = "replace"
  BY DEF StartReplace, Locally, Goto, TypeInv, Inv, Shaped
<1>5. Saves(c) /\ c \in Open
  BY <1>4, SavesAre DEF Saving, Open
<1>6. /\ Saves(c)' /\ Id(c)' = Id(c) /\ ListSteps(c)' = ListSteps(c)
      /\ DueSteps(c)' = DueSteps(c) /\ \A t : InsertedBy(c, t)' = InsertedBy(c, t)
      /\ FirstColumns(c)' = FirstColumns(c) /\ \A f : HookValue(c, f)' = HookValue(c, f)
  BY <1>3, <1>4, <1>5 DEF Saves, Does, Id, ListSteps, In, Replaces, DueSteps, InsertedBy,
                          FirstColumns, HookValue
<1>7. Cleared(c)' = Cleared(c)
  BY <1>3, <1>4, <1>6 DEF Cleared
<1>8. \A x \in tx'[c].snap : x.owner = Id(c) /\ ListOf(x) \in DueSteps(c)
  BY <1>1, <1>3, DueStep DEF ItemsAt, ItemsOf, ListOf
<1>9. Listing(c)'
  BY <1>3, <1>4, <1>5, <1>6, <1>7, <1>8 DEF Local, Listing
<1>10. Planned(c)'
  BY <1>4 DEF Planned, Ahead
<1>11. Assigned(c)'
  BY <1>3, <1>4, <1>5, <1>6 DEF Local, Assigned, Ahead, Saving
<1>12. \A x \in items : x.owner = Id(c) /\ ListOf(x) \in DueSteps(c) => x \in tx'[c].snap
  <2>1. DueSteps(c) = {s} /\ s = <<s[1], s[2]>>
    BY <1>1, DueStep
  <2> QED
    BY <1>3, <2>1 DEF ItemsAt, ItemsOf, ListOf
<1>13. Covered(c)'
  BY <1>3, <1>4, <1>5, <1>6, <1>7, <1>12 DEF Covered
<1> QED
  BY <1>9, <1>10, <1>11, <1>13 DEF Local

LEMMA FinishReplaceLocal ==
    ASSUME TypeInv, NEW c \in Calls, Local(c), Covered(c), FinishReplace(c)
    PROVE  Local(c)' /\ Covered(c)'
<1>1. tx'[c] = [tx[c] EXCEPT !.gone = @ \cup (tx[c].snap \cap items), !.snap = {}]
  BY DEF FinishReplace, TypeInv, Inv, Shaped
<1>2. /\ tx'[c].todo = tx[c].todo /\ tx'[c].sets = tx[c].sets /\ tx'[c].snap = {}
      /\ tx'[c].gone = tx[c].gone \cup (tx[c].snap \cap items)
      /\ tx'[c].fresh = tx[c].fresh
  BY <1>1 DEF TypeInv, Inv, Shaped, NoTx
<1>3. /\ call' = call /\ items' = items
      /\ pc[c] = "replace" /\ pc'[c] = "insert"
  BY DEF FinishReplace, Runs, Locally, Goto, TypeInv, Inv, Shaped
<1>4. Saves(c) /\ c \in Open
  BY <1>3, SavesAre DEF Saving, Open
<1>5. /\ Saves(c)' /\ Id(c)' = Id(c) /\ ListSteps(c)' = ListSteps(c)
      /\ DueSteps(c)' = DueSteps(c) /\ \A t : InsertedBy(c, t)' = InsertedBy(c, t)
      /\ FirstColumns(c)' = FirstColumns(c) /\ \A f : HookValue(c, f)' = HookValue(c, f)
  BY <1>2, <1>3, <1>4 DEF Saves, Does, Id, ListSteps, In, Replaces, DueSteps, InsertedBy,
                          FirstColumns, HookValue
<1>6. Cleared(c)' = Cleared(c) \cup DueSteps(c)
  BY <1>2, <1>3, <1>5 DEF Cleared
<1>7. Listing(c)'
  BY <1>2, <1>3, <1>4, <1>5, <1>6 DEF Local, Listing
<1>8. Planned(c)'
  BY <1>3 DEF Planned, Ahead
<1>9. Assigned(c)'
  BY <1>2, <1>3, <1>4, <1>5 DEF Local, Assigned, Ahead, Saving
<1>10. Covered(c)'
  BY <1>2, <1>3, <1>4, <1>5, <1>6 DEF Covered
<1> QED
  BY <1>7, <1>8, <1>9, <1>10 DEF Local

\* The transaction of a call that returns is out of it.
LEMMA ClosedLocal ==
    ASSUME TypeInv, NEW c \in Calls, pc'[c] \in {"report", "done"}
    PROVE  Local(c)' /\ Covered(c)'
  BY DEF Local, Planned, Listing, Assigned, Covered, Ahead, Saving, Open

LEMMA InsertLocal ==
    ASSUME TypeInv, NEW c \in Calls, Local(c), Covered(c), InsertList(c)
    PROVE  Local(c)' /\ Covered(c)'
<1>1. PICK s \in tx[c].todo :
         /\ Due(tx[c].todo, s)
         /\ \/ Return(c, "err")
            \/ \E e : /\ tx' = [tx EXCEPT ![c].fresh = @ \cup InsertedBy(c, s),
                                          ![c].todo = tx[c].todo \ {s}, ![c].echo = e]
                      /\ Goto(c, AfterDeferred(c, tx[c].todo \ {s}))
                      /\ UNCHANGED <<call, items>>
  <2>1. PICK s \in tx[c].todo :
         LET l    == s[1]
             new  == [owner : {Id(c)}, cell : {l}, by : {c},
                      row : PartRows(l, s[2], ListAt(l, In(c)[l], s[2]))]
             todo == tx[c].todo \ {s}
         IN /\ Due(tx[c].todo, s)
            /\ IF new # {} /\ rows[Id(c)] = Absent /\ lock[Id(c)] # c
               THEN Return(c, "err")
               ELSE /\ tx' = [tx EXCEPT ![c].fresh = @ \cup new, ![c].todo = todo,
                                        ![c].echo = IF l \in Rels THEN Over([k \in {l} |-> new], @)
                                                    ELSE @]
                    /\ Goto(c, AfterDeferred(c, todo))
                    /\ Locally
    BY DEF InsertList
  <2> DEFINE new == InsertedBy(c, s)
             e == IF s[1] \in Rels THEN Over([k \in {s[1]} |-> new], tx[c].echo) ELSE tx[c].echo
  <2>2. \/ Return(c, "err")
        \/ /\ tx' = [tx EXCEPT ![c].fresh = @ \cup new, ![c].todo = tx[c].todo \ {s}, ![c].echo = e]
           /\ Goto(c, AfterDeferred(c, tx[c].todo \ {s})) /\ UNCHANGED <<call, items>>
    BY <2>1 DEF InsertedBy, Locally
  <2> HIDE DEF e
  <2> QED
    BY <2>1, <2>2
<1>2. CASE Return(c, "err")
  BY <1>2, ClosedLocal DEF Return, Goto, TypeInv, Inv, Shaped
<1>3. CASE ~Return(c, "err")
  <2>1. PICK e : /\ tx' = [tx EXCEPT ![c].fresh = @ \cup InsertedBy(c, s),
                                     ![c].todo = tx[c].todo \ {s}, ![c].echo = e]
                 /\ Goto(c, AfterDeferred(c, tx[c].todo \ {s}))
                 /\ UNCHANGED <<call, items>>
    BY <1>1, <1>3
  <2>2. tx'[c] = [tx[c] EXCEPT !.fresh = @ \cup InsertedBy(c, s), !.todo = tx[c].todo \ {s},
                               !.echo = e]
    BY <2>1 DEF TypeInv, Inv, Shaped
  <2>3. /\ tx'[c].todo = tx[c].todo \ {s} /\ tx'[c].sets = tx[c].sets
        /\ tx'[c].snap = tx[c].snap /\ tx'[c].gone = tx[c].gone
        /\ tx'[c].fresh = tx[c].fresh \cup InsertedBy(c, s)
    BY <2>2 DEF TypeInv, Inv, Shaped, NoTx
  <2>4. pc[c] = "insert" /\ pc'[c] = AfterDeferred(c, tx'[c].todo)
    BY <2>1, <2>3 DEF InsertList, Runs, Goto, TypeInv, Inv, Shaped
  <2>5. Saves(c) /\ c \in Open
    BY <2>4, SavesAre DEF Saving, Open
  <2>6. Replaces(In(c), s)
    BY <1>1, <2>4 DEF TypeInv, Typed
  <2>7. DueSteps(c) = {s} /\ s \in ListSteps(c)
    BY <1>1, <2>6, DueStep
  <2>8. /\ DOMAIN tx[c].sets = FirstColumns(c)
        /\ \A f \in FirstColumns(c) : tx[c].sets[f] = HookValue(c, f)
    BY <2>4, <2>5 DEF Local, Assigned, Saving
  <2>9. Planned(c)' /\ Assigned(c)'
    BY <2>1, <2>3, <2>4, <2>5, <2>8, FirstIsAssigned
  <2>10. /\ Saves(c)' /\ Id(c)' = Id(c) /\ ListSteps(c)' = ListSteps(c)
         /\ \A t : InsertedBy(c, t)' = InsertedBy(c, t)
    BY <2>1, <2>5 DEF Saves, Does, Id, ListSteps, In, Replaces, InsertedBy
  <2>11. ListSteps(c) \ tx'[c].todo = (ListSteps(c) \ tx[c].todo) \cup {s}
    BY <2>3, <2>7
  <2>12. pc'[c] \notin {"replace", "insert"}
    BY <2>4 DEF AfterDeferred
  <2>13. Cleared(c)' = ListSteps(c) \ tx'[c].todo
    BY <2>10, <2>12 DEF Cleared
  <2>14. Cleared(c) = Cleared(c)'
    BY <2>4, <2>7, <2>11, <2>13 DEF Cleared
  <2>15. tx'[c].fresh = UNION {InsertedBy(c, t) : t \in ListSteps(c) \ tx'[c].todo}
    <3>1. tx[c].fresh = UNION {InsertedBy(c, t) : t \in ListSteps(c) \ tx[c].todo}
      BY <2>5 DEF Local, Listing
    <3> QED
      BY <2>3, <2>11, <3>1
  <2>16. Listing(c)'
    BY <2>3, <2>4, <2>5, <2>10, <2>14, <2>15 DEF Local, Listing
  <2>17. Covered(c)'
    BY <2>1, <2>3, <2>5, <2>10, <2>12, <2>14 DEF Covered
  <2> QED
    BY <2>9, <2>16, <2>17 DEF Local
<1> QED
  BY <1>2, <1>3

LEMMA DeleteLocal ==
    ASSUME TypeInv, NEW c \in Calls, Local(c), Covered(c), RemoveRow(c) \/ Cascade(c)
    PROVE  Local(c)' /\ Covered(c)'
<1>1. call' = call /\ pc[c] \in {"remove", "cascade"} /\ pc'[c] \in {"cascade", "commit"}
  BY DEF RemoveRow, Cascade, Runs, Locally, Goto, TypeInv, Inv, Shaped
<1>2. ~Saves(c)'
  BY <1>1 DEF Saves, Does, TypeInv, Inv, Shaped, Staged
<1> QED
  BY <1>1, <1>2 DEF Local, Planned, Listing, Assigned, Covered

LEMMA OwnLocal ==
    ASSUME TypeInv, NEW c \in Calls, Acts(c), Local(c), Covered(c)
    PROVE  Local(c)' /\ Covered(c)'
<1>1. CASE \/ Start(c) \/ CreateHook(c) \/ UpdateRow(c) \/ UpdateBack(c)
           \/ ResolveDeferred(c) \/ ReadBack(c) \/ StartReplace(c) \/ FinishReplace(c)
           \/ InsertList(c) \/ RemoveRow(c) \/ Cascade(c)
  BY <1>1, StartLocal, HookLocal, UpdateLocal, SkipLocal, StartReplaceLocal,
     FinishReplaceLocal, InsertLocal, DeleteLocal
<1>2. CASE (ReadBefore(c) /\ rows[Id(c)] # Absent) \/ ReadBeforeList(c)
  BY <1>2, ReadLocal
<1>3. CASE Commit(c) \/ CommitUnheard(c) \/ Report(c)
  BY <1>3, ClosedLocal DEF Commit, CommitUnheard, Report, Goto, TypeInv, Inv, Shaped
<1>4. CASE \/ ReadBefore(c) /\ rows[Id(c)] = Absent
           \/ CheckExists(c) \/ RefuseRemove(c) \/ Fail(c) \/ DeadlockVictim(c)
  <2>1. \E a : Return(c, a)
    BY <1>4 DEF ReadBefore, CheckExists, RefuseRemove, Fail, DeadlockVictim
  <2>2. pc'[c] = "done"
    BY <2>1 DEF Return, Goto, TypeInv, Inv, Shaped
  <2> QED
    BY <2>2, ClosedLocal
<1> QED
  BY <1>1, <1>2, <1>3, <1>4 DEF Acts, Statement

\* What no step of another call changes.
LEMMA OthersLocal ==
    ASSUME TypeInv, NEW c \in Calls, Step(c), NEW d \in Calls \ {c}, Local(d)
    PROVE  /\ Local(d)' /\ Saves(d)' = Saves(d) /\ Id(d)' = Id(d)
           /\ Cleared(d)' = Cleared(d) /\ DueSteps(d)' = DueSteps(d)
<1>1. pc'[d] = pc[d] /\ call'[d] = call[d] /\ tx'[d] = tx[d]
  BY Frame DEF TypeInv
<1>2. /\ Saves(d)' = Saves(d) /\ Does(d, "create")' = Does(d, "create")
      /\ Id(d)' = Id(d) /\ In(d)' = In(d) /\ (d \in Open)' = (d \in Open)
      /\ ListSteps(d)' = ListSteps(d) /\ DueSteps(d)' = DueSteps(d)
  BY <1>1 DEF Saves, Does, Id, In, Open, ListSteps, Replaces, DueSteps
<1>3. Cleared(d)' = Cleared(d) /\ \A s : InsertedBy(d, s)' = InsertedBy(d, s)
  BY <1>1, <1>2 DEF Cleared, InsertedBy
<1>4. /\ FirstColumns(d)' = FirstColumns(d) /\ AllColumns(d)' = AllColumns(d)
      /\ \A f : HookValue(d, f)' = HookValue(d, f) /\ LastValue(d, f)' = LastValue(d, f)
  BY <1>2 DEF FirstColumns, AllColumns, HookValue, LastValue
<1>5. Planned(d)'
  BY <1>1, <1>2 DEF Local, Planned
<1>6. Listing(d)'
  BY <1>1, <1>2, <1>3 DEF Local, Listing
<1>7. Assigned(d)'
  BY <1>1, <1>2, <1>4 DEF Local, Assigned
<1> QED
  BY <1>2, <1>3, <1>5, <1>6, <1>7 DEF Local
-------------------------------------------------------------------------------
(* The lock of the main row.                                                *)

LEMMA StepLocking ==
    ASSUME TypeInv, NEW c \in Calls, Step(c), NEW d \in Calls, Local(d), Locking(d)
    PROVE  Locking(d)'
<1>1. CASE d # c
  <2>1. call'[d] = call[d] /\ tx'[d] = tx[d]
    BY <1>1, Frame DEF TypeInv
  <2>2. call[d] # None => Id(d) \in Ids /\ (lock[Id(d)] = d <=> lock'[Id(d)] = d)
    BY <1>1, LocksTaken, OpenHasId DEF TypeInv
  <2>3. Does(d, "update") /\ rows[Id(d)] = Absent => rows'[Id(d)] = Absent
    BY StaysGone DEF TypeInv
  <2> QED
    BY <2>1, <2>2, <2>3 DEF Locking, Does, Id
<1>2. CASE d = c /\ Started(c)
  <2>1. tx[c] = NoTx
    BY <1>2 DEF Started, Local, Planned
  <2>2. tx'[c].sets = <<>> /\ tx'[c].gone = {}
    BY <1>2, <2>1 DEF Started, NoTx
  <2> QED
    BY <1>2, <2>2 DEF Locking
<1>3. CASE d = c /\ ~Started(c)
  <2>1. call'[c] = call[c] /\ (call[c] # None => Id(c) \in Ids)
    BY <1>3, CallsStay, OpenHasId DEF TypeInv
  <2>2. CASE Moved(c) \/ Listed(c)
    <3>1. ~Does(c, "delete") /\ UNCHANGED <<rows, lock>> /\ tx'[c].sets = tx[c].sets
      BY <2>2 DEF Moved, Listed, Does, TypeInv, Inv, Staged
    <3> QED
      BY <1>3, <2>1, <3>1 DEF Locking, Does, Id
  <2>3. CASE Created(c)
    <3>1. ~Does(c, "delete") /\ ~Does(c, "update")
      BY <2>3 DEF Created, Does, TypeInv, Inv, Staged
    <3> QED
      BY <1>3, <2>1, <3>1 DEF Locking, Does, Id
  <2>4. CASE Updated(c)
    <3>1. ~Does(c, "delete") /\ UNCHANGED rows
      BY <2>4 DEF Updated, Does, TypeInv, Inv, Staged
    <3>2. call[c] # None => lock'[Id(c)] = c \/ rows[Id(c)] = Absent
      BY <2>1, <2>4 DEF Updated, LockRow, TypeInv, Inv, Shaped
    <3> QED
      BY <1>3, <2>1, <3>1, <3>2 DEF Locking, Does, Id
  <2>5. CASE RemoveRow(c)
    <3>1. ~Does(c, "update") /\ tx' = tx
      BY <2>5 DEF RemoveRow, Runs, Does, TypeInv, Inv, Staged
    <3>2. call[c] # None /\ lock[Id(c)] = c => lock'[Id(c)] = c
      BY <2>1, <2>5 DEF RemoveRow, LockRow, TypeInv, Inv, Shaped
    <3> QED
      BY <1>3, <2>1, <3>1, <3>2 DEF Locking, Does, Id
  <2>6. CASE Cascade(c)
    <3>1. /\ Does(c, "delete") /\ ~Does(c, "update") /\ UNCHANGED lock /\ lock[Id(c)] = c
      BY <2>6 DEF Cascade, Runs, Does, TypeInv, Inv, Shaped, Staged, Emptied
    <3>2. tx'[c].gone = {x \in items : x.owner = Id(c)}
      BY <2>6 DEF Cascade, TypeInv, Inv, Shaped, NoTx
    <3> QED
      BY <1>3, <2>1, <3>1, <3>2 DEF Locking, Does, Id
  <2>7. CASE RolledBack(c) \/ Applied(c)
    <3>1. tx'[c].sets = <<>> /\ tx'[c].gone = {}
      BY <2>7, Closed DEF RolledBack, Applied, Return, Apply, TypeInv, Inv
    <3> QED
      BY <1>3, <3>1 DEF Locking
  <2>8. CASE Report(c)
    BY <1>3, <2>8 DEF Report, Locking, Does, Id
  <2> QED
    BY <1>3, <2>2, <2>3, <2>4, <2>5, <2>6, <2>7, <2>8 DEF Step
<1> QED
  BY <1>1, <1>2, <1>3

\* An update that is past its first SET and has a list to replace holds its row.
LEMMA HoldsRow ==
    ASSUME LocksFirst, TypeInv, NEW c \in Calls, Local(c), Locking(c), Does(c, "update"),
           pc[c] \in Saving, ListSteps(c) # {}
    PROVE  lock[Id(c)] = c \/ rows[Id(c)] = Absent
<1>1. Saves(c) /\ In(c) \in Payloads /\ ~Does(c, "create")
  BY SavesAre DEF Saves
<1>2. PICK s \in Steps(In(c)) : Replaces(In(c), s)
  BY DEF ListSteps
<1>3. s[1] \in Lists \cap DOMAIN In(c) /\ Parses(s[1], In(c)[s[1]])
  BY <1>1, <1>2, StepsType DEF Replaces
<1>4. Assignments(In(c)) # {}
  BY <1>1, <1>3 DEF LocksFirst
<1>5. Assignments(In(c)) \subseteq DOMAIN Written(In(c)) \cap Cols
  BY <1>1, AssignedColumns DEF In
<1>6. DOMAIN tx[c].sets # {}
  BY <1>1, <1>4, <1>5 DEF Local, Assigned, Saving, FirstColumns, AllColumns
<1> QED
  BY <1>6 DEF Locking

\* Two saves that have lists of one row to replace are not both past the first SET, unless
\* the row has gone.
LEMMA ListsApart ==
    ASSUME LocksFirst, TypeInv, NEW c \in Calls, NEW d \in Calls, c # d, Id(c) = Id(d),
           \A b \in {c, d} : /\ Local(b) /\ Locking(b) /\ Saves(b)
                             /\ pc[b] \in Saving /\ ListSteps(b) # {}
    PROVE  rows[Id(c)] = Absent /\ Does(c, "update") /\ Does(d, "update")
<1>1. ~Does(c, "create")
  <2> SUFFICES ASSUME Does(c, "create") PROVE FALSE
    OBVIOUS
  <2> QED
    BY AloneBeforeCommit DEF TypeInv, Saves, Does, Saving
<1>2. ~Does(d, "create")
  <2> SUFFICES ASSUME Does(d, "create") PROVE FALSE
    OBVIOUS
  <2> QED
    BY AloneBeforeCommit DEF TypeInv, Saves, Does, Saving
<1>3. Does(c, "update") /\ Does(d, "update")
  BY <1>1, <1>2 DEF Saves
<1> QED
  BY <1>3, HoldsRow

\* Nothing is cleared before the first SET.
LEMMA ClearedAhead ==
    ASSUME TypeInv, NEW c \in Calls, Local(c), Saves(c), c \in Open
    PROVE  /\ pc[c] \in Ahead \cup Saving
           /\ pc[c] \in Ahead => Cleared(c) = {}
           /\ Cleared(c) \subseteq ListSteps(c)
           /\ pc[c] \in {"replace", "insert"} => DueSteps(c) \subseteq ListSteps(c)
<1>1. pc[c] \in Ahead \cup Saving
  BY DEF Open, Saves, Does, Ahead, Saving, TypeInv, Inv, Shaped, Staged, Stage
<1>2. pc[c] \in Ahead => Cleared(c) = {}
  BY DEF Local, Planned, Ahead, Cleared, ListSteps
<1>3. pc[c] \in {"replace", "insert"} => DueSteps(c) \subseteq ListSteps(c)
  BY DEF DueSteps, ListSteps, TypeInv, Typed
<1> QED
  BY <1>1, <1>2, <1>3 DEF Cleared

\* What another call commits is of no list that a save has deleted.
LEMMA OthersCovered ==
    ASSUME LocksFirst, ListInv, NEW c \in Calls, Step(c), NEW d \in Calls \ {c}
    PROVE  Covered(d)'
<1>1. /\ TypeInv /\ Local(d) /\ Local(c) /\ Locking(d) /\ Locking(c) /\ Covered(d)
  BY DEF ListInv
<1>2. /\ Saves(d)' = Saves(d) /\ Id(d)' = Id(d)
      /\ Cleared(d)' = Cleared(d) /\ DueSteps(d)' = DueSteps(d)
      /\ pc'[d] = pc[d] /\ tx'[d] = tx[d]
  BY <1>1, OthersLocal, Frame DEF TypeInv
<1>3. ASSUME Saves(d), d \in Open, NEW x \in items', x \notin items, x.owner = Id(d)
      PROVE  ListOf(x) \notin Cleared(d) /\ (pc[d] = "replace" => ListOf(x) \notin DueSteps(d))
  <2>1. Applied(c) /\ x \in tx[c].fresh
    BY <1>1, <1>3, Frame DEF TypeInv, Applied, Apply
  <2>2. Id(c) = Id(d) /\ pc[c] = "commit" /\ c \in Open
    BY <1>1, <1>3, <2>1 DEF TypeInv, Inv, Owned, Applied, Open
  <2>3. Saves(c) /\ ListSteps(c) # {}
    <3>1. call[c] # None /\ ~Does(c, "delete")
      BY <1>1, <2>1, <2>2 DEF TypeInv, Inv, Shaped, Emptied
    <3>2. Saves(c)
      BY <1>1, <3>1, OpenHasId DEF Saves, TypeInv
    <3> QED
      BY <1>1, <2>1, <2>2, <3>2 DEF Local, Listing
  <2>4. ASSUME pc[d] \in Saving, ListSteps(d) # {} PROVE FALSE
    <3>1. rows[Id(d)] = Absent /\ Does(c, "update") /\ Id(d) \in Ids
      BY <1>1, <1>3, <2>2, <2>3, <2>4, ListsApart, OpenHasId DEF Saving, TypeInv, Does
    <3>2. Does(c, "create")
      BY <1>1, <1>3, <2>1, <3>1 DEF TypeInv, Inv, Emptied
    <3> QED
      BY <3>1, <3>2 DEF Does
  <2> QED
    BY <1>1, <1>3, <2>4, ClearedAhead DEF Ahead
<1>4. (d \in Open)' = (d \in Open)
  BY <1>2 DEF Open
<1> QED
  BY <1>1, <1>2, <1>3, <1>4 DEF Covered
-------------------------------------------------------------------------------
(* What is committed.                                                       *)

LEMMA EmptyList ==
    ASSUME NEW l, NEW key
    PROVE  <<>> \in Seq(Values \cup {Bad}) /\ PartRows(l, key, <<>>) = {}
<1>1. Kept(l, Elements(l, <<>>)) = {}
  BY DEF Kept, Elements
<1> QED
  BY <1>1 DEF PartRows

\* A list row is of the list it was inserted in.
LEMMA InsertedAre ==
    ASSUME NEW c, NEW s, NEW x \in InsertedBy(c, s), s = <<s[1], s[2]>>
    PROVE  x.owner = Id(c) /\ ListOf(x) = s
  BY DEF InsertedBy, PartRows, ListOf

LEMMA ListStepsAre ==
    ASSUME TypeInv, NEW c \in Calls, Saves(c), NEW s \in ListSteps(c)
    PROVE  /\ s = <<s[1], s[2]>> /\ s[1] \in Lists /\ s[2] \in Sent(s[1], In(c)[s[1]])
           /\ ListAt(s[1], In(c)[s[1]], s[2]) \in Seq(Values \cup {Bad})
<1>1. In(c) \in Payloads /\ s \in Steps(In(c)) /\ Replaces(In(c), s)
  BY SavesAre DEF ListSteps
<1>2. s[1] \in Lists /\ s[1] \in DOMAIN In(c) /\ Parses(s[1], In(c)[s[1]])
  BY <1>1, StepsType DEF Replaces
<1>3. s[2] \in Sent(s[1], In(c)[s[1]]) /\ s \in Fields \X (Parts \cup {Reread})
  BY <1>1, StepsType
<1> QED
  BY <1>1, <1>2, <1>3, SentIsList

\* What the commit of a save makes of a list: it replaces those of its body and leaves the
\* others.
LEMMA SaveCommits ==
    ASSUME ListInv, NEW c \in Calls, Applied(c), Saves(c), NEW i, NEW l, NEW key
    PROVE  ItemsAt(i, l, key)' = IF i = Id(c) /\ <<l, key>> \in ListSteps(c)
                                 THEN InsertedBy(c, <<l, key>>) ELSE ItemsAt(i, l, key)
<1>1. /\ items' = (items \ tx[c].gone) \cup tx[c].fresh
      /\ pc[c] = "commit" /\ c \in Open
  BY DEF Applied, Apply, Open
<1>2. tx[c].todo = {} /\ Cleared(c) = ListSteps(c)
  BY <1>1 DEF ListInv, Local, Planned, Cleared
<1>3. tx[c].fresh = UNION {InsertedBy(c, s) : s \in ListSteps(c)}
  BY <1>1, <1>2 DEF ListInv, Local, Listing
<1>4. \A x \in tx[c].gone : x.owner = Id(c) /\ ListOf(x) \in ListSteps(c)
  BY <1>1, <1>2 DEF ListInv, Local, Listing
<1>5. \A x \in items : x.owner = Id(c) /\ ListOf(x) \in ListSteps(c) => x \in tx[c].gone
  BY <1>1, <1>2 DEF ListInv, Covered
<1>6. \A s \in ListSteps(c) : \A x \in InsertedBy(c, s) : x.owner = Id(c) /\ ListOf(x) = s
  BY InsertedAre, ListStepsAre DEF ListInv
<1>7. ItemsAt(i, l, key) = {x \in items : x.owner = i /\ ListOf(x) = <<l, key>>}
  BY DEF ItemsAt, ItemsOf, ListOf
<1>8. ItemsAt(i, l, key)' = {x \in items' : x.owner = i /\ ListOf(x) = <<l, key>>}
  BY DEF ItemsAt, ItemsOf, ListOf
<1>9. CASE i = Id(c) /\ <<l, key>> \in ListSteps(c)
  <2>1. \A x \in items' : x.owner = i /\ ListOf(x) = <<l, key>>
            => x \in InsertedBy(c, <<l, key>>)
    BY <1>1, <1>3, <1>5, <1>6, <1>9
  <2>2. InsertedBy(c, <<l, key>>) \subseteq items'
    BY <1>1, <1>3, <1>9
  <2> QED
    BY <1>6, <1>8, <1>9, <2>1, <2>2
<1>10. CASE ~(i = Id(c) /\ <<l, key>> \in ListSteps(c))
  <2>1. \A x \in tx[c].gone \cup tx[c].fresh : ~(x.owner = i /\ ListOf(x) = <<l, key>>)
    BY <1>3, <1>4, <1>6, <1>10
  <2> QED
    BY <1>1, <1>7, <1>8, <1>10, <2>1
<1> QED
  BY <1>9, <1>10

\* ... and that of a delete removes those of its row.
LEMMA DeleteCommits ==
    ASSUME ListInv, NEW c \in Calls, Applied(c), Does(c, "delete")
    PROVE  items' = {x \in items : x.owner # Id(c)}
<1>1. /\ items' = (items \ tx[c].gone) \cup tx[c].fresh /\ pc[c] = "commit"
  BY DEF Applied, Apply
<1>2. tx[c].fresh = {} /\ Id(c) \in Ids
  BY OpenHasId DEF ListInv, TypeInv, Inv, Emptied, Does
<1>3. \A x \in tx[c].gone : x.owner = Id(c)
  BY DEF ListInv, Locking
<1>4. \A x \in items : x.owner = Id(c) => x \in tx[c].gone
  BY <1>1, <1>2 DEF ListInv, TypeInv, Inv, Emptied
<1> QED
  BY <1>1, <1>2, <1>3, <1>4

\* What leaves a list alone leaves it whole.
LEMMA OneListStays ==
    ASSUME NEW i, NEW l, NEW key, OneList(i, l, key), ItemsAt(i, l, key)' = ItemsAt(i, l, key)
    PROVE  OneList(i, l, key)'
  BY DEF OneList

LEMMA SortedStays ==
    ASSUME Sorted, UNCHANGED items
    PROVE  Sorted'
<1>1. \A i, l, key : ItemsAt(i, l, key)' = ItemsAt(i, l, key)
  BY DEF ItemsAt, ItemsOf
<1>2. \A i \in Ids, l \in Lists, key \in Parts : OneList(i, l, key)'
  BY <1>1, OneListStays DEF Sorted
<1> QED
  BY <1>2 DEF Sorted

LEMMA StepSorted ==
    ASSUME ListInv, NEW c \in Calls, Step(c)
    PROVE  Sorted'
<1>1. CASE ~Applied(c)
  <2>1. UNCHANGED items
    BY <1>1, Frame DEF ListInv, TypeInv
  <2> QED
    BY <2>1, SortedStays DEF ListInv
<1>2. CASE Applied(c) /\ Saves(c)
  <2>1. ASSUME NEW i \in Ids, NEW l \in Lists, NEW key \in Parts
        PROVE  OneList(i, l, key)'
    <3>1. CASE i = Id(c) /\ <<l, key>> \in ListSteps(c)
      <4>1. ItemsAt(i, l, key)' = InsertedBy(c, <<l, key>>)
        BY <1>2, <3>1, SaveCommits
      <4>2. ListAt(l, In(c)[l], key) \in Seq(Values \cup {Bad})
        BY <1>2, <3>1, ListStepsAre DEF ListInv
      <4> QED
        BY <3>1, <4>1, <4>2 DEF InsertedBy, OneList
    <3>2. CASE ~(i = Id(c) /\ <<l, key>> \in ListSteps(c))
      <4>1. ItemsAt(i, l, key)' = ItemsAt(i, l, key)
        BY <1>2, <3>2, SaveCommits
      <4> QED
        BY <4>1, OneListStays DEF ListInv, Sorted
    <3> QED
      BY <3>1, <3>2
  <2>2. ASSUME NEW x \in items', x.cell \notin Keyed PROVE x.row[1] = Whole
    <3>1. CASE x \in items
      BY <2>2, <3>1 DEF ListInv, Sorted
    <3>2. CASE x \notin items
      <4>1. x \in tx[c].fresh /\ c \in Open
        BY <1>2, <2>2, <3>2 DEF Applied, Apply, Open
      <4>2. PICK s \in ListSteps(c) : x \in InsertedBy(c, s)
        BY <1>2, <4>1 DEF ListInv, Local, Listing
      <4>3. s = <<s[1], s[2]>> /\ s[2] \in Sent(s[1], In(c)[s[1]])
        BY <1>2, ListStepsAre DEF ListInv
      <4>4. ListOf(x) = s
        BY <4>2, <4>3, InsertedAre
      <4> QED
        BY <2>2, <4>3, <4>4 DEF ListOf, Sent
    <3> QED
      BY <3>1, <3>2
  <2> QED
    BY <2>1, <2>2 DEF Sorted
<1>3. CASE Applied(c) /\ ~Saves(c)
  <2>1. Does(c, "delete")
    <3>1. call[c] # None
      BY <1>3 DEF Applied, ListInv, TypeInv, Inv, Shaped
    <3> QED
      BY <1>3, <3>1, OpenHasId DEF ListInv, TypeInv, Saves
  <2>2. items' = {x \in items : x.owner # Id(c)}
    BY <1>3, <2>1, DeleteCommits
  <2>3. ASSUME NEW i \in Ids, NEW l \in Lists, NEW key \in Parts
        PROVE  OneList(i, l, key)'
    <3>1. ItemsAt(i, l, key)' = IF i = Id(c) THEN {} ELSE ItemsAt(i, l, key)
      BY <2>2 DEF ItemsAt, ItemsOf
    <3>2. CASE i = Id(c)
      <4>1. ItemsAt(i, l, key)'
              = [owner : {i}, cell : {l}, by : {None}, row : PartRows(l, key, <<>>)]
        BY <3>1, <3>2, EmptyList
      <4> QED
        BY <4>1, EmptyList DEF OneList
    <3>3. CASE i # Id(c)
      BY <3>1, <3>3, OneListStays DEF ListInv, Sorted
    <3> QED
      BY <3>2, <3>3
  <2> QED
    BY <2>2, <2>3 DEF ListInv, Sorted
<1> QED
  BY <1>1, <1>2, <1>3

LEMMA InitSorted == Init => Sorted
<1> SUFFICES ASSUME Init PROVE Sorted
  OBVIOUS
<1> DEFINE W == Written(Seed)
<1>1. items = UNION {{[owner |-> i, cell |-> l, row |-> r, by |-> None] : r \in W[l]} :
                       i \in InitialIds, l \in Lists \cap DOMAIN W}
  BY DEF Init
<1>2. ASSUME NEW l \in Lists \cap DOMAIN W
      PROVE  l \in DOMAIN Seed /\ Parses(l, Seed[l]) /\ W[l] = ListRows(l, Seed[l])
  BY DEF Written
<1> HIDE DEF W
<1>3. ASSUME NEW x \in items
      PROVE  \E i \in InitialIds, l \in Lists \cap DOMAIN W : \E r \in W[l] :
                 x = [owner |-> i, cell |-> l, row |-> r, by |-> None]
  BY <1>1
<1>4. ASSUME NEW i \in Ids, NEW l \in Lists, NEW key \in Parts
      PROVE  OneList(i, l, key)
  <2>1. CASE i \in InitialIds /\ l \in DOMAIN W /\ key \in Sent(l, Seed[l])
    <3> DEFINE P == PartRows(l, key, ListAt(l, Seed[l], key))
    <3>1. ListAt(l, Seed[l], key) \in Seq(Values \cup {Bad})
      BY <1>2, <2>1, SentIsList
    <3>2. \A r \in W[l] : r[1] = key => r \in P
      BY <1>2, <2>1 DEF ListRows, PartRows
    <3>3. \A r \in P : r \in W[l] /\ r[1] = key
      BY <1>2, <2>1 DEF ListRows, PartRows
    <3> HIDE DEF P
    <3>4. ASSUME NEW x \in ItemsAt(i, l, key)
          PROVE  x \in [owner : {i}, cell : {l}, by : {None}, row : P]
      <4>1. x \in items /\ x.owner = i /\ x.cell = l /\ x.row[1] = key
        BY <3>4 DEF ItemsAt, ItemsOf
      <4>2. \E j \in InitialIds, m \in Lists \cap DOMAIN W : \E r \in W[m] :
                 x = [owner |-> j, cell |-> m, row |-> r, by |-> None]
        BY <1>3, <4>1
      <4> QED
        BY <3>2, <4>1, <4>2
    <3>5. ASSUME NEW x \in [owner : {i}, cell : {l}, by : {None}, row : P]
          PROVE  x \in ItemsAt(i, l, key)
      <4>1. x = [owner |-> i, cell |-> l, row |-> x.row, by |-> None] /\ x.row \in P
        OBVIOUS
      <4>2. x.row \in W[l] /\ x.row[1] = key
        BY <3>3, <4>1
      <4>3. x \in items
        <5> DEFINE C(j, m) == {[owner |-> j, cell |-> m, row |-> r, by |-> None] : r \in W[m]}
        <5>1. x \in C(i, l) /\ i \in InitialIds /\ l \in Lists \cap DOMAIN W
          BY <2>1, <4>1, <4>2
        <5>2. items = UNION {C(j, m) : j \in InitialIds, m \in Lists \cap DOMAIN W}
          BY <1>1
        <5> HIDE DEF C
        <5> QED
          BY <5>1, <5>2
      <4> QED
        BY <4>1, <4>2, <4>3 DEF ItemsAt, ItemsOf
    <3>6. ItemsAt(i, l, key) = [owner : {i}, cell : {l}, by : {None}, row : P]
      BY <3>4, <3>5
    <3> QED
      BY <3>1, <3>6 DEF OneList, P
  <2>2. CASE ~(i \in InitialIds /\ l \in DOMAIN W /\ key \in Sent(l, Seed[l]))
    <3>1. ASSUME NEW x \in ItemsAt(i, l, key) PROVE FALSE
      <4>1. x \in items /\ x.owner = i /\ x.cell = l /\ x.row[1] = key
        BY <3>1 DEF ItemsAt, ItemsOf
      <4>2. \E r \in W[l] : /\ i \in InitialIds /\ l \in DOMAIN W
                            /\ x = [owner |-> i, cell |-> l, row |-> r, by |-> None]
        BY <1>3, <4>1
      <4>3. \A r \in W[l] : l \in DOMAIN W => r[1] \in Sent(l, Seed[l])
        BY <1>2, <4>2 DEF ListRows, PartRows
      <4> QED
        BY <2>2, <4>1, <4>2, <4>3
    <3>2. ItemsAt(i, l, key)
            = [owner : {i}, cell : {l}, by : {None}, row : PartRows(l, key, <<>>)]
      BY <3>1, EmptyList
    <3> QED
      BY <3>2, EmptyList DEF OneList
  <2> QED
    BY <2>1, <2>2
<1>5. ASSUME NEW x \in items, x.cell \notin Keyed PROVE x.row[1] = Whole
  <2>1. PICK i \in InitialIds, l \in Lists \cap DOMAIN W : \E r \in W[l] :
             x = [owner |-> i, cell |-> l, row |-> r, by |-> None]
    BY <1>3
  <2>2. \A r \in W[l] : r[1] \in Sent(l, Seed[l])
    BY <1>2 DEF ListRows, PartRows
  <2> QED
    BY <1>5, <2>1, <2>2 DEF Sent
<1> QED
  BY <1>4, <1>5 DEF Sorted

LEMMA InitLists == Init => ListInv
<1> SUFFICES ASSUME Init PROVE ListInv
  OBVIOUS
<1>1. ASSUME NEW c \in Calls PROVE Local(c) /\ Locking(c) /\ Covered(c)
  <2>1. pc[c] = "idle" /\ call[c] = None /\ tx[c] = NoTx
    BY DEF Init
  <2>2. ~Saves(c) /\ ~Does(c, "update") /\ ~Does(c, "delete") /\ c \notin Open
    BY <2>1 DEF Saves, Does, Open
  <2> QED
    BY <2>1, <2>2 DEF Local, Planned, Listing, Assigned, Locking, Covered
<1> QED
  BY <1>1, InitTypes, InitSorted DEF ListInv

LEMMA NextLists == LocksFirst /\ ListInv /\ [Next]_vars => ListInv'
<1> SUFFICES ASSUME LocksFirst, ListInv, [Next]_vars PROVE ListInv'
  OBVIOUS
<1>1. CASE UNCHANGED vars
  <2>1. TypeInv'
    <3>1. Inv'
      BY <1>1, NextInv DEF ListInv, TypeInv
    <3> QED
      BY <1>1, <3>1 DEF vars, ListInv, TypeInv, Typed, In
  <2>2. Sorted'
    BY <1>1, SortedStays DEF vars, ListInv
  <2>3. ASSUME NEW c \in Calls PROVE Local(c)' /\ Locking(c)' /\ Covered(c)'
    <3>1. Local(c) /\ Locking(c) /\ Covered(c)
      BY DEF ListInv
    <3>2. UNCHANGED <<items, pc, call, tx, lock, rows>>
      BY <1>1 DEF vars
    <3>3. /\ Saves(c)' = Saves(c) /\ \A op : Does(c, op)' = Does(c, op)
          /\ Id(c)' = Id(c) /\ In(c)' = In(c) /\ (c \in Open)' = (c \in Open)
          /\ ListSteps(c)' = ListSteps(c) /\ DueSteps(c)' = DueSteps(c)
      BY <3>2 DEF Saves, Does, Id, In, Open, ListSteps, Replaces, DueSteps
    <3>4. Cleared(c)' = Cleared(c) /\ \A s : InsertedBy(c, s)' = InsertedBy(c, s)
      BY <3>2, <3>3 DEF Cleared, InsertedBy
    <3>5. /\ FirstColumns(c)' = FirstColumns(c) /\ AllColumns(c)' = AllColumns(c)
          /\ \A f : HookValue(c, f)' = HookValue(c, f) /\ LastValue(c, f)' = LastValue(c, f)
      BY <3>3 DEF FirstColumns, AllColumns, HookValue, LastValue
    <3>6. Planned(c)' /\ Listing(c)' /\ Assigned(c)'
      BY <3>1, <3>2, <3>3, <3>4, <3>5 DEF Local, Planned, Listing, Assigned
    <3>7. Locking(c)' /\ Covered(c)'
      BY <3>1, <3>2, <3>3, <3>4 DEF Locking, Covered
    <3> QED
      BY <3>6, <3>7 DEF Local
  <2> QED
    BY <2>1, <2>2, <2>3 DEF ListInv
<1>2. ASSUME NEW c \in Calls, Acts(c) PROVE ListInv'
  <2>1. TypeInv /\ Step(c)
    BY <1>2, Shapes DEF ListInv, TypeInv, Inv, Acts
  <2>2. TypeInv' /\ Sorted'
    BY <1>2, <2>1, StepTypes, StepSorted
  <2>3. ASSUME NEW d \in Calls PROVE Local(d)' /\ Locking(d)' /\ Covered(d)'
    <3>1. Local(d) /\ Locking(d) /\ Covered(d)
      BY DEF ListInv
    <3>2. Locking(d)'
      BY <2>1, <3>1, StepLocking
    <3>3. CASE d = c
      BY <1>2, <2>1, <3>1, <3>2, <3>3, OwnLocal
    <3>4. CASE d # c
      BY <2>1, <3>1, <3>2, <3>4, OthersLocal, OthersCovered
    <3> QED
      BY <3>3, <3>4
  <2> QED
    BY <2>2, <2>3 DEF ListInv
<1> QED
  BY <1>1, <1>2 DEF Next, Finished, Acts
-------------------------------------------------------------------------------
(* The positions of a list.                                                 *)

\* Elements numbered by how many come before them have the numbers from 0 on.
LEMMA Ranks ==
    ASSUME NEW m \in Nat, NEW K \in SUBSET (1..m)
    PROVE  /\ IsFiniteSet(K) /\ Cardinality(K) \in Nat
           /\ {Cardinality({h \in K : h < j}) : j \in K} = 0..(Cardinality(K) - 1)
<1> DEFINE Below(j) == {h \in K : h < j}
           n == Cardinality(K)
           f == [j \in K |-> Cardinality(Below(j))]
           T == 0..(n - 1)
<1>1. IsFiniteSet(K) /\ n \in Nat
  <2>1. IsFiniteSet(1..m)
    BY FS_Interval
  <2>2. IsFiniteSet(K)
    BY <2>1, FS_Subset
  <2> QED
    BY <2>2, FS_CardinalityType
<1>2. \A A \in SUBSET K : IsFiniteSet(A) /\ Cardinality(A) \in Nat
  BY <1>1, FS_Subset, FS_CardinalityType
<1>3. ASSUME NEW A \in SUBSET K, NEW B \in SUBSET A, NEW a \in A \ B
      PROVE  Cardinality(B) < Cardinality(A)
  <2>1. IsFiniteSet(A)
    BY <1>2
  <2>2. Cardinality(B) <= Cardinality(A) /\ Cardinality(A) # Cardinality(B)
    BY <2>1, FS_Subset
  <2>3. Cardinality(A) \in Nat /\ Cardinality(B) \in Nat
    BY <1>2
  <2> QED
    BY <2>2, <2>3
<1>4. ASSUME NEW j \in K PROVE Cardinality(Below(j)) \in T
  <2>1. Below(j) \in SUBSET K /\ j \in K \ Below(j)
    OBVIOUS
  <2>2. Cardinality(Below(j)) < n /\ Cardinality(Below(j)) \in Nat
    BY <1>2, <1>3, <2>1
  <2> QED
    BY <1>1, <2>2
<1>5. ASSUME NEW i \in K, NEW j \in K, i < j
      PROVE  Cardinality(Below(i)) < Cardinality(Below(j))
  <2>1. Below(j) \in SUBSET K /\ Below(i) \in SUBSET Below(j) /\ i \in Below(j) \ Below(i)
    <3>1. \A h \in K : h \in Nat
      OBVIOUS
    <3>2. \A h \in K : h < i => h < j
      BY <1>5, <3>1
    <3>3. i < j /\ ~(i < i)
      BY <1>5, <3>1
    <3> QED
      BY <3>2, <3>3
  <2> QED
    BY <1>3, <2>1
<1>6. f \in Injection(K, T)
  <2>1. f \in [K -> T]
    BY <1>4
  <2>2. ASSUME NEW i \in K, NEW j \in K, f[i] = f[j] PROVE i = j
    <3>1. i \in Nat /\ j \in Nat
      OBVIOUS
    <3>2. Cardinality(Below(i)) = Cardinality(Below(j)) /\ Cardinality(Below(i)) \in Nat
      BY <1>2, <2>2
    <3>3. ~(i < j) /\ ~(j < i)
      <4> HIDE DEF Below
      <4> QED
        BY <1>5, <3>2
    <3> QED
      BY <3>1, <3>3
  <2> HIDE DEF f, T
  <2> QED
    BY <2>1, <2>2, Fun_IsInj
<1>7. IsFiniteSet(T) /\ Cardinality(T) = n
  BY <1>1, FS_Interval
<1>8. f \in Surjection(K, T)
  <2> HIDE DEF f, T
  <2> QED
    BY <1>1, <1>6, <1>7, FS_Injection
<1>9. \A t \in T : \E j \in K : Cardinality(Below(j)) = t
  BY <1>8 DEF Surjection
<1>10. {Cardinality(Below(j)) : j \in K} = T
  <2> HIDE DEF T, Below
  <2> QED
    BY <1>4, <1>9
<1> QED
  BY <1>1, <1>10

\* What is written of a list, by its positions.
LEMMA WholeRows ==
    ASSUME NEW i, NEW l \in Lists, NEW key, NEW b, NEW s \in Seq(Values \cup {Bad})
    PROVE  LET S    == [owner : {i}, cell : {l}, by : {b}, row : PartRows(l, key, s)]
               base == IF l \in Rels THEN 0 ELSE 1
           IN /\ IsFiniteSet(S) /\ Cardinality(S) \in Nat
              /\ {x.row[2] : x \in S} = base..(base + Cardinality(S) - 1)
              /\ \A x, y \in S : x.row = y.row => x = y
<1> DEFINE e == Elements(l, s)
           K == Kept(l, e)
           P(j) == Position(l, e, j)
           S == [owner : {i}, cell : {l}, by : {b}, row : PartRows(l, key, s)]
           base == IF l \in Rels THEN 0 ELSE 1
           item(j) == [owner |-> i, cell |-> l, by |-> b, row |-> <<key, P(j), e[j]>>]
           f == [j \in K |-> item(j)]
<1>1. Len(s) \in Nat /\ K \subseteq 1..Len(s)
  <2>1. DOMAIN e = 1..Len(s)
    BY DEF Elements
  <2> QED
    BY <2>1 DEF Kept
<1>2. /\ IsFiniteSet(K) /\ Cardinality(K) \in Nat
      /\ {Cardinality({h \in K : h < j}) : j \in K} = 0..(Cardinality(K) - 1)
  <2> HIDE DEF K
  <2> QED
    BY <1>1, Ranks
<1>3. \A j \in K : P(j) = Cardinality({h \in K : h < j}) + base
  BY DEF Position
<1>4. \A j \in K : Cardinality({h \in K : h < j}) \in Nat
  BY <1>2, FS_Subset, FS_CardinalityType
<1>5. {P(j) : j \in K} = base..(base + Cardinality(K) - 1)
  <2> DEFINE R(j) == Cardinality({h \in K : h < j})
  <2>1. {R(j) : j \in K} = 0..(Cardinality(K) - 1) /\ \A j \in K : P(j) = R(j) + base /\ R(j) \in Nat
    BY <1>2, <1>3, <1>4
  <2>2. base \in {0, 1}
    OBVIOUS
  <2> HIDE DEF K, P, R, base
  <2>3. ASSUME NEW p \in base..(base + Cardinality(K) - 1) PROVE \E j \in K : P(j) = p
    <3>1. p - base \in 0..(Cardinality(K) - 1)
      BY <1>2, <2>2
    <3>2. PICK j \in K : R(j) = p - base
      BY <2>1, <3>1
    <3> QED
      BY <2>1, <2>2, <3>2
  <2>4. ASSUME NEW j \in K PROVE P(j) \in base..(base + Cardinality(K) - 1)
    <3>1. R(j) \in 0..(Cardinality(K) - 1)
      BY <2>1
    <3> QED
      BY <1>2, <2>1, <2>2, <3>1
  <2> QED
    BY <2>3, <2>4
<1>6. \A j, h \in K : P(j) = P(h) => j = h
  <2> DEFINE R(j) == Cardinality({h \in K : h < j})
  <2>1. ASSUME NEW j \in K, NEW h \in K, j < h PROVE R(j) < R(h)
    <3>1. R(h) \in Nat /\ R(j) \in Nat /\ IsFiniteSet({g \in K : g < h})
      BY <1>2, <1>4, FS_Subset
    <3>2. {g \in K : g < j} \in SUBSET {g \in K : g < h} /\ j \in {g \in K : g < h} \ {g \in K : g < j}
      BY <1>1, <2>1
    <3>3. R(j) <= R(h) /\ R(j) # R(h)
      BY <3>1, <3>2, FS_Subset
    <3> QED
      BY <3>1, <3>3
  <2>2. \A j, h \in K : j < h => P(j) # P(h)
    <3>1. \A j \in K : P(j) = R(j) + base /\ R(j) \in Nat /\ base \in {0, 1}
      BY <1>3, <1>4
    <3> HIDE DEF P, R, K, base
    <3> QED
      BY <2>1, <3>1
  <2> HIDE DEF P, K
  <2> QED
    BY <1>1, <2>2
<1>7. S = {item(j) : j \in K}
  <2>1. PartRows(l, key, s) = {<<key, P(j), e[j]>> : j \in K}
    BY DEF PartRows
  <2> HIDE DEF P, K, e
  <2>2. \A x \in S : x = [owner |-> i, cell |-> l, by |-> b, row |-> x.row]
    OBVIOUS
  <2>3. S \subseteq {item(j) : j \in K}
    BY <2>1, <2>2
  <2>4. \A j \in K : item(j) \in S
    BY <2>1
  <2> QED
    BY <2>3, <2>4
<1>8. f \in Bijection(K, S)
  <2>1. f \in [K -> S]
    BY <1>7
  <2>2. ASSUME NEW j \in K, NEW h \in K, f[j] = f[h] PROVE j = h
    <3>1. P(j) = P(h)
      <4> HIDE DEF P, K, e
      <4> QED
        BY <2>2
    <3> QED
      BY <1>6, <3>1
  <2>3. \A x \in S : \E j \in K : f[j] = x
    <3> HIDE DEF P, K, e, S
    <3> QED
      BY <1>7
  <2> HIDE DEF f, K, S
  <2> QED
    BY <2>1, <2>2, <2>3, Fun_IsBij
<1>9. IsFiniteSet(S) /\ Cardinality(S) = Cardinality(K)
  <2>1. ExistsBijection(K, S)
    BY <1>8 DEF ExistsBijection
  <2> HIDE DEF K, S
  <2> QED
    BY <1>2, <2>1, FS_Bijection
<1>10. {x.row[2] : x \in S} = {P(j) : j \in K}
  <2>1. \A j \in K : item(j).row[2] = P(j)
    OBVIOUS
  <2> HIDE DEF P, K, S, item
  <2> QED
    BY <1>7, <2>1
<1>11. \A x, y \in S : x.row = y.row => x = y
  OBVIOUS
<1> HIDE DEF S, K
<1> QED
  BY <1>2, <1>5, <1>9, <1>10, <1>11 DEF S

\* rels.go:50, child.go:321: where a save that replaces a list has written the main row
\* first, each list in the tables is the list of one save, its positions without gaps or
\* repetitions, however many saves overlap.
THEOREM ListsAreWhole ==
    ASSUME LocksFirst PROVE Spec => []WholeLists
<1>1. ListInv => WholeLists
  <2> SUFFICES ASSUME ListInv, NEW i \in Ids, NEW l \in Lists, NEW key \in Parts
               PROVE  LET S    == ItemsAt(i, l, key)
                          base == IF l \in Rels THEN 0 ELSE 1
                      IN /\ Cardinality({x.by : x \in S}) <= 1
                         /\ {x.row[2] : x \in S} = base..(base + Cardinality(S) - 1)
    BY DEF WholeLists
  <2>1. OneList(i, l, key)
    BY DEF ListInv, Sorted
  <2>2. PICK b \in Calls \cup {None}, s \in Seq(Values \cup {Bad}) :
           ItemsAt(i, l, key) = [owner : {i}, cell : {l}, by : {b}, row : PartRows(l, key, s)]
    BY <2>1 DEF OneList
  <2> DEFINE S == ItemsAt(i, l, key)
  <2>3. {x.by : x \in S} \in SUBSET {b}
    BY <2>2
  <2>4. Cardinality({x.by : x \in S}) <= 1
    <3>1. IsFiniteSet({b}) /\ Cardinality({b}) = 1
      BY FS_Singleton
    <3>2. Cardinality({x.by : x \in S}) <= Cardinality({b})
      BY <2>3, <3>1, FS_Subset
    <3> QED
      BY <3>1, <3>2
  <2> QED
    BY <2>2, <2>4, WholeRows
<1>2. ListInv /\ [Next]_vars => ListInv'
  BY NextLists
<1> QED
  BY <1>1, <1>2, InitLists, PTL DEF Spec
===============================================================================
