------------------------------ MODULE ErjetStore ------------------------------
(***************************************************************************)
(* erjet.Store: Save and Delete as transactions of several SQL statements  *)
(* (adapter/erjet/store.go, table.go), with the lists of side tables that  *)
(* a save replaces (rels.go, ChildValues and KeyedChildValues of child.go, *)
(* deferred_list.go), many calls at a time.                                *)
(*                                                                         *)
(* The database is PostgreSQL at READ COMMITTED, the level of a plain      *)
(* Begin: a statement sees what was committed when it started, an UPDATE   *)
(* or DELETE waits for the transaction that holds the row and then looks   *)
(* at it again.  It is external and modelled as far as Save and Delete     *)
(* lean on it: row locks, the foreign key from the list tables to the      *)
(* parent (ON DELETE CASCADE), rollback, deadlock detection.               *)
(*                                                                         *)
(* One action is one statement.  A transaction's writes stay with it until *)
(* Commit: tx[c] holds the rows of the list tables it has deleted and      *)
(* inserted, lock[i] = c stands for its writes of the main row.            *)
(***************************************************************************)
EXTENDS Naturals, FiniteSets, Sequences, Overriding

CONSTANTS Calls,        \* calls of Save and Delete, one operation each
          Ids,          \* primary keys of the main table
          InitialIds,   \* the rows that exist at the start
          Plain,        \* cells assigned in the main table's SET
          DeferredCols, \* Deferred cells: a column written in the second phase
          Lists,        \* cells whose lists are rows of a side table
          Rels,         \* those of a relations table; the others are ChildValues
          Keyed,        \* KeyedChildValues: a map of lists
          Resolves,     \* the lists wrapped in a DeferredList
          Resolve,      \* what its DeferredFunc makes of an element
          Keys,         \* the keys of such a map, the empty one included
          EmptyKey,     \* the key "", of no partition
          KeyRank,      \* the order of the statements of a cell, by key
          Whole,        \* the key of a list that is not one of a map
          Reread,       \* the key of a cell's last SELECT
          Rank,         \* position of a cell in the declaration, Table.Cols
          Values,       \* what a column holds
          Text(_),      \* the text fmt.Sprint makes of what is read of a field
          Null,         \* JSON null and SQL NULL
          Bad,          \* a value the cell does not parse
          HookRow,      \* the columns the Create hook fills, with the values
          Payloads,     \* bodies of Save, after the engine's checks
          Seed,         \* the body the initial rows were written with
          MaxOpen,      \* bound: calls in progress at a time
          LossyCommit,  \* may a commit succeed and its answer be lost?
          NoBody, Absent, None

Cols   == Plain \cup DeferredCols
Fields == Cols \cup Lists

Parts  == Keys \cup {Whole}

\* A row of the main table, and one with its lists.
Row     == [Cols -> Values \cup {Null}]
FullRow == [Fields -> Values \cup {Null} \cup SUBSET (Parts \X Nat \X Values)]
Request == [op : {"create", "update", "delete"}, id : Ids, in : Payloads \cup {NoBody}]

\* None and Absent stand for nothing that is there.
ASSUME NoneAssumption ==
    None \notin Calls /\ None \notin Request /\ None \notin {"ok", "err", "notfound", "conflict"}
ASSUME AbsentAssumption == Absent \notin Row /\ Absent \notin FullRow

\* Two cells have two positions, two keys of a map two ranks.
ASSUME RankAssumption ==
    \A f, g \in Fields : Rank[f] \in Nat /\ (Rank[f] = Rank[g] => f = g)
ASSUME KeyRankAssumption ==
    /\ Whole \notin Keys /\ Reread \notin Parts
    /\ \A k, l \in Parts \cup {Reread} : KeyRank[k] \in Nat /\ (KeyRank[k] = KeyRank[l] => k = l)
    /\ \A k \in Parts : KeyRank[k] < KeyRank[Reread]

ASSUME IdsAssumption == InitialIds \subseteq Ids
ASSUME CellsAssumption == Cols \cap Lists = {}

\* Rels and the keyed lists are other cells; DeferredList "requires a list cell".
ASSUME ListsAssumption == /\ Rels \subseteq Lists /\ Keyed \subseteq Lists \ Rels
                          /\ Resolves \subseteq Lists \ Keyed
                          /\ Resolve \in [Values \cup {Bad} -> Values \cup {Bad}]

\* The hook fills columns; a body holds, for a column, a value or something that
\* is none, for a list, a sequence of these and, for a map, such lists by key.
NoList == {Null, Bad}
ASSUME HookRowAssumption ==
    DOMAIN HookRow \subseteq Cols /\ \A f \in DOMAIN HookRow : HookRow[f] \in Values \cup {Null}
ASSUME PayloadAssumption ==
    \A in \in Payloads \cup {Seed} : \A f \in DOMAIN in :
        /\ f \in Cols => in[f] \in Values \cup {Null, Bad}
        /\ f \in Lists \ Keyed => in[f] \in NoList \/ in[f] \in Seq(Values \cup {Bad})
        /\ f \in Keyed => \/ in[f] \in NoList
                         \/ /\ DOMAIN in[f] \subseteq Keys
                            /\ \A k \in DOMAIN in[f] : \/ in[f][k] \in NoList
                                                     \/ in[f][k] \in Seq(Values \cup {Bad})

VARIABLES rows,         \* the committed main table: columns by id
          items,        \* the committed rows of the list tables
          lock,         \* by id: the transaction that has written the main row
          share,        \* by id: transactions whose list rows reference it
          pc,           \* the statement each call runs next
          call,         \* the operation of each call
          tx,           \* the local state and uncommitted list rows of each call
          answer,       \* what each call returned
          report,       \* what OnWrite was told for each call
          effect        \* history: what the commits so far have changed, by call

vars == <<rows, items, lock, share, pc, call, tx, answer, report, effect>>
-------------------------------------------------------------------------------
(* What a body writes.                                                      *)

\* DeferredList: first the whole list becomes what the wrapped cell can insert.
Elements(l, s) == IF l \in Resolves THEN [j \in DOMAIN s |-> Resolve[s[j]]] ELSE s

\* Elements that do not parse are not written; idSlice drops repetitions too.
Kept(l, s) == {j \in DOMAIN s : s[j] # Bad /\ (l \in Rels => \A h \in 1..(j - 1) : s[h] # s[j])}

\* Fault: an element has the index it was sent at.
PositionSent(l, s, j) == IF l \in Rels THEN j - 1 ELSE j

\* The positions of what is kept have no gaps, from 0 in a relations table and
\* from 1 in others (writeOrder).
Position(l, s, j) ==
    Cardinality({h \in Kept(l, s) : h < j}) + (IF l \in Rels THEN 0 ELSE 1)

\* The rows of one list: key, position and value.
PartRows(l, key, s) ==
    {<<key, Position(l, Elements(l, s), j), Elements(l, s)[j]>> : j \in Kept(l, Elements(l, s))}

\* The lists of a payload that are replaced: of a map neither the empty key nor
\* what is no list, and no key that was not sent.
Sent(l, v) == IF l \in Keyed THEN {k \in DOMAIN v \ {EmptyKey} : v[k] \notin NoList}
              ELSE {Whole}
ListAt(l, v, key) == IF l \in Keyed THEN v[key] ELSE v
ListRows(l, v) == UNION {PartRows(l, key, ListAt(l, v, key)) : key \in Sent(l, v)}

\* A cell that does not parse its value leaves the field alone; JSON null
\* clears a column and is no list.
Parses(f, v) == v # Bad /\ (f \in Lists => v # Null)

\* Table.Assignments: the columns of the first SET, in a create of the second.
\* A Deferred cell is here only to be cleared.
Assignments(in) == {f \in DOMAIN in : Parses(f, in[f]) /\
                        (f \in Plain \/ (f \in DeferredCols /\ in[f] = Null))}

\* Table.Deferred: the cells that write with statements of their own.
Deferred(in) == {f \in DOMAIN in : f \in Lists \/ (f \in DeferredCols /\ in[f] # Null)}

\* What they do, cell by cell: a column is one step, a list its DELETE and
\* INSERTs; a map has these for each key in sorted order, and all but Rels end
\* with a SELECT.
StepsOf(f, v) ==
    IF f \in Lists /\ Parses(f, v)
    THEN {<<f, key>> : key \in Sent(f, v) \cup (IF f \in Rels THEN {} ELSE {Reread})}
    ELSE {<<f, Whole>>}
Steps(in) == UNION {StepsOf(f, in[f]) : f \in Deferred(in)}

\* What the cells write: changed and the columns of newVals at the end of Save.
Written(in) == [f \in {g \in DOMAIN in : g \in Fields /\ Parses(g, in[g])} |->
                   IF f \in Lists THEN ListRows(f, in[f]) ELSE in[f]]

\* Fault: a create writes only what the hook and the second phase write.
AssignsBackOfUpdate(r) == {f \in Deferred(r.in) \cap DeferredCols : Parses(f, r.in[f])}

\* assignsBack: the columns of the second UPDATE.
AssignsBack(r) ==
    {f \in Deferred(r.in) \cap DeferredCols : Parses(f, r.in[f])}
      \cup (IF r.op = "create" THEN Assignments(r.in) ELSE {})

\* A new row as the Create hook inserts it, and with its lists.
NewRow == Over(HookRow, [f \in Cols |-> Null])
Blank  == [f \in Fields |-> IF f \in Lists THEN {} ELSE Null]

\* The columns among the written fields.
Columns(w) == [f \in DOMAIN w \cap Cols |-> w[f]]

Contents(S) == {x.row : x \in S}
ItemsOf(i, l) == {x \in items : x.owner = i /\ x.cell = l}
ItemsAt(i, l, key) == {x \in ItemsOf(i, l) : x.row[1] = key}
RowOf(i) == IF rows[i] = Absent THEN Absent
            ELSE Over(rows[i], [l \in Lists |-> Contents(ItemsOf(i, l))])

\* A row with a body written over it; of a map the lists that were not sent stay.
Put(in, row) ==
    LET w == Written(in)
    IN Over([f \in DOMAIN w |->
                IF f \in Lists THEN w[f] \cup {r \in row[f] : r[1] \notin Sent(f, in[f])}
                ELSE w[f]], row)

\* The promise of types.go about this store's committed state.  A call has
\* its answer from the commit on, OnWrite runs before Save returns it.
Contract == INSTANCE EntityContract WITH
    BlankRow <- Over(NewRow, Blank),
    rows     <- [i \in Ids |-> RowOf(i)],
    answer   <- [c \in Calls |-> IF pc[c] = "report" THEN "ok" ELSE answer[c]]
-------------------------------------------------------------------------------
NoTx == [before |-> <<>>, unread |-> {}, todo |-> {}, sets |-> <<>>,
         snap |-> {}, gone |-> {}, fresh |-> {}, echo |-> <<>>]

Init == /\ rows = [i \in Ids |-> IF i \in InitialIds
                                 THEN Over(Columns(Written(Seed)), NewRow)
                                 ELSE Absent]
        /\ items = UNION {{[owner |-> i, cell |-> l, row |-> r, by |-> None] :
                              r \in Written(Seed)[l]} :
                          i \in InitialIds, l \in Lists \cap DOMAIN Written(Seed)}
        /\ lock = [i \in Ids |-> None]
        /\ share = [i \in Ids |-> {}]
        /\ pc = [c \in Calls |-> "idle"]
        /\ call = [c \in Calls |-> None]
        /\ tx = [c \in Calls |-> NoTx]
        /\ answer = [c \in Calls |-> None]
        /\ report = [c \in Calls |-> None]
        /\ effect = <<>>

Id(c) == call[c].id
In(c) == call[c].in
Goto(c, l) == pc' = [pc EXCEPT ![c] = l]
Open == {c \in Calls : pc[c] \notin {"idle", "report", "done"}}

\* The transactions a statement of c has to wait for: a writer of the main
\* row for an UPDATE; whoever has deleted a list row that c deletes; a
\* deleter of the parent for the foreign key of an INSERT; any of them for
\* the DELETE of the main row.
RowHolders(c) == IF rows[Id(c)] = Absent THEN {} ELSE {lock[Id(c)]} \ {None, c}
Deleters(S, c) == {d \in Calls \ {c} : tx[d].gone \cap S \cap items # {}}
WaitsFor(c) ==
    CASE pc[c] \in {"update", "updateBack"} -> RowHolders(c)
      [] pc[c] = "replace" -> Deleters(tx[c].snap, c)
      [] pc[c] = "insert"  -> {d \in RowHolders(c) : call[d].op = "delete"}
      [] pc[c] = "remove"  -> RowHolders(c) \cup (share[Id(c)] \ {c})
      [] pc[c] = "cascade" -> Deleters({x \in items : x.owner = Id(c)}, c)
      [] OTHER -> {}
Runs(c, l) == pc[c] = l /\ WaitsFor(c) = {}

\* The cells are read and written in the order of the declaration.
First(S, f) == f \in S /\ \A g \in S : Rank[f] <= Rank[g]
Due(S, s) == /\ s \in S
             /\ \A t \in S : \/ Rank[s[1]] < Rank[t[1]]
                             \/ s[1] = t[1] /\ KeyRank[s[2]] <= KeyRank[t[2]]

\* Fault: OnWrite is called first and Commit never.
AfterDeferredReport(c, todo) == IF todo # {} THEN "deferred"
                                ELSE IF AssignsBack(call[c]) # {} THEN "updateBack"
                                ELSE "report"

\* Where Save goes with these deferred cells left.
AfterDeferred(c, todo) == IF todo # {} THEN "deferred"
                          ELSE IF AssignsBack(call[c]) # {} THEN "updateBack"
                          ELSE "commit"

\* The end of a transaction: its locks go, its uncommitted rows with them.
Close(c) == /\ lock'  = [i \in Ids |-> IF lock[i] = c THEN None ELSE lock[i]]
            /\ share' = [i \in Ids |-> share[i] \ {c}]
            /\ tx'    = [tx EXCEPT ![c] = [NoTx EXCEPT !.before = tx[c].before,
                                                      !.echo = tx[c].echo]]

\* Fault: an early return leaves the transaction open.
ReturnWithoutRollback(c, a) == /\ answer' = [answer EXCEPT ![c] = a]
                               /\ Goto(c, "done")
                               /\ UNCHANGED <<rows, items, lock, share, call, tx, report, effect>>

\* A return before Commit: the deferred Rollback of Save and Delete.
Return(c, a) == /\ Close(c)
                /\ answer' = [answer EXCEPT ![c] = a]
                /\ Goto(c, "done")
                /\ UNCHANGED <<rows, items, call, report, effect>>

Locally == UNCHANGED <<rows, items, call, answer, report, effect>>
-------------------------------------------------------------------------------
(* Save.                                                                    *)

\* Begin, and what Save computes from the body alone.
Start(c) ==
    /\ pc[c] = "idle"
    /\ Cardinality({d \in Calls : pc[d] \notin {"idle", "done"}}) < MaxOpen
    /\ \E r \in Contract!Operations :
         /\ call' = [call EXCEPT ![c] = r]
         /\ tx' = [tx EXCEPT ![c].todo = IF r.op = "delete" THEN {} ELSE Steps(r.in)]
         /\ Goto(c, CASE r.op = "create" -> "hook"
                      [] r.op = "delete" -> "remove"
                      [] r.op = "update" -> IF Assignments(r.in) = {} /\ Deferred(r.in) = {}
                                            THEN "exists" ELSE "before")
    /\ UNCHANGED <<rows, items, lock, share, answer, report, effect>>

\* Fault: the hook inserts nothing, the second UPDATE is all there is.
CreateWithoutInsert(c) == /\ pc[c] = "hook"
                          /\ lock' = [lock EXCEPT ![Id(c)] = c]
                          /\ Goto(c, AfterDeferred(c, tx[c].todo))
                          /\ UNCHANGED <<share, tx>> /\ Locally

\* The Create hook inserts the row, which only this transaction sees.
CreateHook(c) == /\ pc[c] = "hook"
                 /\ lock' = [lock EXCEPT ![Id(c)] = c]
                 /\ tx' = [tx EXCEPT ![c].sets = NewRow]
                 /\ Goto(c, AfterDeferred(c, tx[c].todo))
                 /\ UNCHANGED share /\ Locally

\* Nothing to write: Exists tells "no row" from "nothing to do".
CheckExists(c) == /\ pc[c] = "exists"
                  /\ Return(c, IF rows[Id(c)] = Absent THEN "notfound" ELSE "ok")

\* Table.Row, the columns: a plain SELECT that locks nothing.
ReadBefore(c) ==
    /\ pc[c] = "before"
    /\ IF rows[Id(c)] = Absent
       THEN Return(c, "notfound")
       ELSE LET keys   == Assignments(In(c)) \cup Deferred(In(c))
                unread == keys \cap Lists
            IN /\ tx' = [tx EXCEPT
                     ![c].before = [f \in keys \ Lists |-> rows[Id(c)][f]],
                     ![c].unread = unread]
               /\ Goto(c, IF unread # {} THEN "beforeLists"
                          ELSE IF Assignments(In(c)) # {} THEN "update"
                          ELSE "deferred")
               /\ UNCHANGED <<lock, share>> /\ Locally

\* Table.Row, the satellites: one SELECT each, with what is committed by now.
ReadBeforeList(c) ==
    /\ pc[c] = "beforeLists"
    /\ \E l \in tx[c].unread :
         LET unread == tx[c].unread \ {l}
         IN /\ First(tx[c].unread, l)
            /\ tx' = [tx EXCEPT ![c].before = Over([k \in {l} |-> ItemsOf(Id(c), l)], @),
                                ![c].unread = unread]
            /\ Goto(c, IF unread # {} THEN "beforeLists"
                       ELSE IF Assignments(In(c)) # {} THEN "update"
                       ELSE "deferred")
    /\ UNCHANGED <<lock, share>> /\ Locally

\* Fault: an upsert in place of the UPDATE.
UpsertRow(c) == lock' = [lock EXCEPT ![Id(c)] = c]

\* An UPDATE of the main row takes its lock; of a row gone by now it updates
\* nothing, and no one looks at how many rows it updated.
LockRow(c) == lock' = IF rows[Id(c)] = Absent /\ lock[Id(c)] # c
                      THEN lock ELSE [lock EXCEPT ![Id(c)] = c]
Update(c, cols) ==
    /\ LockRow(c)
    /\ tx' = [tx EXCEPT ![c].sets = Over([f \in cols |-> Written(In(c))[f]], @)]

UpdateRow(c) == /\ Runs(c, "update")
                /\ Update(c, Assignments(In(c)))
                /\ Goto(c, AfterDeferred(c, tx[c].todo))
                /\ UNCHANGED share /\ Locally

\* A Deferred cell's save yields what the second UPDATE will assign; a list
\* cell's save of something that is no list yields nil and writes nothing.
ResolveDeferred(c) ==
    /\ pc[c] = "deferred"
    /\ \E s \in tx[c].todo :
         LET todo == tx[c].todo \ {s}
         IN /\ Due(tx[c].todo, s)
            /\ s[1] \in Lists => ~Parses(s[1], In(c)[s[1]])
            /\ tx' = [tx EXCEPT ![c].todo = todo]
            /\ Goto(c, AfterDeferred(c, todo))
    /\ UNCHANGED <<lock, share>> /\ Locally

\* replace and replaceValues: the DELETE of a list starts, with the rows it can
\* see...
StartReplace(c) ==
    /\ pc[c] = "deferred"
    /\ \E s \in tx[c].todo :
         /\ Due(tx[c].todo, s)
         /\ s[1] \in Lists /\ Parses(s[1], In(c)[s[1]]) /\ s[2] # Reread
         /\ tx' = [tx EXCEPT ![c].snap = ItemsAt(Id(c), s[1], s[2])]
    /\ Goto(c, "replace")
    /\ UNCHANGED <<lock, share>> /\ Locally

\* ... deletes those that are still there when their writers are through...
FinishReplace(c) ==
    /\ Runs(c, "replace")
    /\ tx' = [tx EXCEPT ![c].gone = @ \cup (tx[c].snap \cap items), ![c].snap = {}]
    /\ Goto(c, "insert")
    /\ UNCHANGED <<lock, share>> /\ Locally

\* ... and the INSERTs follow, one per element.  An empty list inserts nothing
\* and so never learns that the parent has gone.  The save of Rels returns what
\* it has inserted.
InsertList(c) ==
    /\ Runs(c, "insert")
    /\ \E s \in tx[c].todo :
         LET l    == s[1]
             new  == [owner : {Id(c)}, cell : {l}, by : {c},
                      row : PartRows(l, s[2], ListAt(l, In(c)[l], s[2]))]
             todo == tx[c].todo \ {s}
         IN /\ Due(tx[c].todo, s)
            /\ IF new # {} /\ rows[Id(c)] = Absent /\ lock[Id(c)] # c
               THEN Return(c, "err")
               ELSE /\ tx' = [tx EXCEPT ![c].fresh = @ \cup new, ![c].todo = todo,
                                        ![c].echo = IF l \in Rels THEN Over([k \in {l} |-> new], @)
                                                    ELSE @]
                    /\ share' = IF new = {} THEN share
                                ELSE [share EXCEPT ![Id(c)] = @ \cup {c}]
                    /\ Goto(c, AfterDeferred(c, todo))
                    /\ UNCHANGED lock /\ Locally

\* Fault: what was sent is returned, not what is there.
EchoSent(c, l) == {x \in tx[c].fresh : x.cell = l}

\* The list rows of a cell as the transaction sees them.
SeenRows(c, l) == {x \in (items \ tx[c].gone) \cup tx[c].fresh : x.owner = Id(c) /\ x.cell = l}

\* readValues and readKeyedValues: the save of the other lists returns all lists
\* of the cell, re-read "after the write, in the same transaction".
ReadBack(c) ==
    /\ pc[c] = "deferred"
    /\ \E s \in tx[c].todo :
         LET todo == tx[c].todo \ {s}
         IN /\ Due(tx[c].todo, s) /\ s[2] = Reread
            /\ tx' = [tx EXCEPT ![c].echo = Over([k \in {s[1]} |-> SeenRows(c, s[1])], @),
                                ![c].todo = todo]
            /\ Goto(c, AfterDeferred(c, todo))
    /\ UNCHANGED <<lock, share>> /\ Locally

UpdateBack(c) == /\ Runs(c, "updateBack")
                 /\ Update(c, AssignsBack(call[c]))
                 /\ Goto(c, "commit")
                 /\ UNCHANGED share /\ Locally
-------------------------------------------------------------------------------
(* Delete.                                                                  *)

\* The DELETE of the main row; of no row it deletes nothing and goes on.
RemoveRow(c) == /\ Runs(c, "remove")
                /\ LockRow(c)
                /\ Goto(c, IF rows[Id(c)] = Absent THEN "commit" ELSE "cascade")
                /\ UNCHANGED <<share, tx>> /\ Locally

\* The constraint of a table that references the row: conflictErr.
RefuseRemove(c) == /\ Runs(c, "remove")
                   /\ rows[Id(c)] # Absent
                   /\ Return(c, "conflict")

\* External: ON DELETE CASCADE of the list tables.
Cascade(c) == /\ Runs(c, "cascade")
              /\ tx' = [tx EXCEPT ![c].gone = {x \in items : x.owner = Id(c)}]
              /\ Goto(c, "commit")
              /\ UNCHANGED <<lock, share>> /\ Locally
-------------------------------------------------------------------------------
(* Commit and OnWrite.                                                      *)

Apply(c) ==
    /\ rows' = [i \in Ids |-> IF lock[i] # c THEN rows[i]
                              ELSE IF call[c].op = "delete" THEN Absent
                              ELSE IF rows[i] = Absent THEN tx[c].sets
                              ELSE Over(tx[c].sets, rows[i])]
    /\ items' = (items \ tx[c].gone) \cup tx[c].fresh
    /\ \E i \in {Id(c)} :
         effect' = Over([d \in {c} |-> [before |-> RowOf(i), after |-> RowOf(i)']], effect)
    /\ Close(c)

Commit(c) == /\ pc[c] = "commit"
             /\ Apply(c)
             /\ IF call[c].op = "delete"
                THEN answer' = [answer EXCEPT ![c] = "ok"] /\ Goto(c, "done")
                ELSE Goto(c, "report") /\ UNCHANGED answer
             /\ UNCHANGED <<call, report>>

\* The commit went through and its answer did not come back.
CommitUnheard(c) == /\ pc[c] = "commit" /\ LossyCommit
                    /\ Apply(c)
                    /\ answer' = [answer EXCEPT ![c] = "err"]
                    /\ Goto(c, "done")
                    /\ UNCHANGED <<call, report>>

\* newVals when Save is through.
NewVals(c) == [f \in DOMAIN Written(In(c)) |->
                  IF f \in Lists THEN tx[c].echo[f] ELSE Written(In(c))[f]]
Shown(f, v) == IF f \in Lists THEN Contents(v) ELSE v

\* What is read of a field: of a list how often each of its rows is there.
Reading(f, v) == IF f \in Lists
                 THEN [r \in Contents(v) |-> Cardinality({x \in v : x.row = r})] ELSE v

\* diff: the written fields whose value before reads differently, as text, from the
\* one after.
Differs(f, old, new) == Text(Reading(f, old)) # Text(Reading(f, new))
Diff(before, after) ==
    [f \in {g \in DOMAIN after : Differs(g, before[g], after[g])} |->
        [old |-> Shown(f, before[f]), new |-> Shown(f, after[f])]]

\* mergeHookChanges: what the hook has filled in and Assignments did not give.  A
\* deferred column that the body gives is appended after it, so it is there twice,
\* both times with the value of the body.
Inserted(vals) == LET all == Over(vals, HookRow)
                  IN [f \in DOMAIN all |-> [old |-> None, new |-> Shown(f, all[f])]]
InsertedTwice(in) == DOMAIN HookRow \cap Deferred(in) \cap DOMAIN Written(in)

\* wrote: OnWrite hears of every commit of Save, whatever the diff.
Report(c) ==
    /\ pc[c] = "report"
    /\ report' = [report EXCEPT ![c] =
           IF call[c].op = "create"
           THEN [created |-> TRUE, changes |-> Inserted(NewVals(c)),
                 twice |-> InsertedTwice(In(c))]
           ELSE [created |-> FALSE, changes |-> Diff(tx[c].before, NewVals(c)), twice |-> {}]]
    /\ answer' = [answer EXCEPT ![c] = "ok"]
    /\ Goto(c, "done")
    /\ UNCHANGED <<rows, items, lock, share, call, tx, effect>>
-------------------------------------------------------------------------------
\* Any statement may fail: the error is returned, the transaction rolled back.
Fail(c) == c \in Open /\ Return(c, "err")

\* External: of a set of transactions that all wait for each other the database
\* fails one.
Stuck(S) == S # {} /\ \A c \in S : WaitsFor(c) \cap S # {}
DeadlockVictim(c) == /\ \E S \in SUBSET Open : c \in S /\ Stuck(S)
                     /\ Return(c, "err")

Statement(c) == \/ CreateHook(c)
                \/ CheckExists(c)
                \/ ReadBefore(c)
                \/ ReadBeforeList(c)
                \/ UpdateRow(c)
                \/ ResolveDeferred(c)
                \/ StartReplace(c)
                \/ FinishReplace(c)
                \/ InsertList(c)
                \/ ReadBack(c)
                \/ UpdateBack(c)
                \/ RemoveRow(c)
                \/ RefuseRemove(c)
                \/ Cascade(c)
                \/ Commit(c)
                \/ CommitUnheard(c)
                \/ Report(c)

\* Every call of this instance has returned.
Finished == (\A c \in Calls : pc[c] = "done") /\ UNCHANGED vars

Next == \/ \E c \in Calls : Start(c) \/ Statement(c) \/ Fail(c) \/ DeadlockVictim(c)
        \/ Finished

Spec == Init /\ [][Next]_vars

\* Save and Delete run to their end: a statement that need not wait is
\* executed, and a deadlock is detected.  That a statement fails is never due.
FairSpec == /\ Spec
            /\ \A c \in Calls : WF_vars(Statement(c)) /\ WF_vars(DeadlockVictim(c))
-------------------------------------------------------------------------------
(* Properties.                                                              *)

Item == [owner : Ids, cell : Lists, row : Parts \X Nat \X Values, by : Calls \cup {None}]
Stage == {"idle", "hook", "exists", "before", "beforeLists", "update", "deferred",
          "replace", "insert", "updateBack", "remove", "cascade", "commit", "report", "done"}

\* The types.  Of before only the fields are here: what it holds the journal
\* properties say.
TypeOK ==
    /\ rows \in [Ids -> Row \cup {Absent}]
    /\ items \subseteq Item
    /\ lock \in [Ids -> Calls \cup {None}]
    /\ share \in [Ids -> SUBSET Calls]
    /\ pc \in [Calls -> Stage]
    /\ call \in [Calls -> Request \cup {None}]
    /\ \A c \in Calls :
         /\ DOMAIN tx[c] = DOMAIN NoTx
         /\ DOMAIN tx[c].before \subseteq Fields
         /\ tx[c].unread \subseteq Lists
         /\ tx[c].todo \subseteq Fields \X (Parts \cup {Reread})
         /\ tx[c].snap \subseteq Item /\ tx[c].gone \subseteq Item
         /\ tx[c].fresh \subseteq Item
         /\ DOMAIN tx[c].echo \subseteq Lists
    /\ answer \in [Calls -> {None, "ok", "notfound", "conflict", "err"}]

\* An error means rollback and a report means a commit (store.go:45, "after a
\* successful commit"): the list rows of a call are in the table, and OnWrite
\* has heard of it, only if its commit went through, and an error other than
\* a lost answer to the commit leaves none of its writes behind.
OnlyCommitsShow ==
    /\ \A c \in Calls : report[c] # None => c \in DOMAIN effect /\ answer[c] = "ok"
    /\ \A x \in items : x.by # None => x.by \in DOMAIN effect
    /\ \A c \in Calls : answer[c] \in {"notfound", "conflict"} \/ (answer[c] = "err" /\ ~LossyCommit)
                           => c \notin DOMAIN effect

\* A deleted row stays deleted: neither the row nor list rows of it come back
\* through a save that had read it before the delete, however the two overlap.
NoResurrection ==
    \A c \in Calls : pc[c] = "done" /\ answer[c] = "ok" /\ call[c].op = "delete"
        => rows[Id(c)] = Absent /\ \A x \in items : x.owner # Id(c)

\* A call that has returned, with or without an error, holds no lock others
\* could wait for: the deferred Rollback covers every early return.
ReturnedHoldsNothing ==
    \A c \in Calls \ Open : /\ \A i \in Ids : lock[i] # c /\ c \notin share[i]
                            /\ tx[c].gone = {} /\ tx[c].fresh = {}

\* rels.go:50, "a half reordered state cannot exist"; child.go:321, positions that
\* do not "silently stop being consecutive": each list in the tables, of a map
\* each by itself, is the list of one save, its positions without gaps or
\* repetitions.
WholeLists ==
    \A i \in Ids, l \in Lists, key \in Parts :
        LET S    == ItemsAt(i, l, key)
            base == IF l \in Rels THEN 0 ELSE 1
        IN /\ Cardinality({x.by : x \in S}) <= 1
           /\ {x.row[2] : x \in S} = base..(base + Cardinality(S) - 1)

\* The journal tells what happened.  What OnWrite hears of an update is every
\* field its commit changed to something that reads differently as text, and no
\* other, with the value that was there before and the one after (change.go:3),
\* unless another save has changed the row since this one read it; what it hears of
\* a create makes up the row, each field once (store.go:221) but for a deferred
\* column that the hook has filled as well.
AsRead(f, v) == IF f \in Lists THEN [r \in v |-> 1] ELSE v
Changes(before, after) ==
    [f \in {g \in Fields : /\ before # Absent
                           /\ Text(AsRead(g, before[g])) # Text(AsRead(g, after[g]))} |->
        [old |-> before[f], new |-> after[f]]]
UpToDate(c) == effect[c].before # Absent /\
    \A f \in DOMAIN tx[c].before : Shown(f, tx[c].before[f]) = effect[c].before[f]
JournalTellsTheTruth ==
    \A c \in Calls : report[c] # None =>
        LET told == report[c].changes
        IN IF report[c].created
           THEN /\ effect[c].after = Over([f \in DOMAIN told |-> told[f].new], Blank)
                /\ report[c].twice \subseteq DOMAIN HookRow \cap DeferredCols
           ELSE UpToDate(c) => told = Changes(effect[c].before, effect[c].after)

\* errors.go:14: a save whose row was deleted under it gives 404; OnWrite never
\* reports an update of a row that is not there.
MissingRowIsNotReported == \A c \in Calls : report[c] # None => effect[c].after # Absent

\* The store keeps the promise of the Entity hooks: seen from outside, each
\* call takes effect in one step, or in none.
KeepsContract == Contract!Spec

\* Every call returns, whoever it has to wait for: waits end with the other's
\* commit, rollback or, if they form a cycle, with the deadlock's victim.
EveryCallReturns == \A c \in Calls : pc[c] # "idle" ~> pc[c] = "done"
===============================================================================
