------------------------------ MODULE ChildTable ------------------------------
(***************************************************************************)
(* ChildRows and KeyedChildRows (adapter/erjet/child.go): a field that is  *)
(* a list of objects, one row of a child table each, partitioned by key.   *)
(*                                                                         *)
(* The cell's save runs inside the transaction of Store.Save.  It keeps    *)
(* the ids of the rows, since other tables refer to them, but takes none   *)
(* on trust: an id the parent does not own becomes a new element.          *)
(*                                                                         *)
(* One action is one statement; PostgreSQL at READ COMMITTED is external   *)
(* and modelled as in ErjetStore.  A call's uncommitted rows are in        *)
(* tx[c].writes, held[i] is the call that has written row i.  The rows of  *)
(* an element's own satellites are part of its row here: they are keyed by *)
(* its id, go with it (ON DELETE CASCADE) and are written by whoever has   *)
(* just written it.  Only a table with NewID can have them.                *)
(***************************************************************************)
EXTENDS Naturals, FiniteSets, Sequences, Functions, Overriding

CONSTANTS Calls,        \* saves of the field, each of one parent
          Parents,      \* the owning rows, which exist throughout
          Keys,         \* partitions; a table without ChildTable.Key has one
          EmptyKey,     \* the key "", which is no partition
          KeyRank,      \* the sort order of Keys
          Ids,          \* primary keys of the child table
          Cells,        \* writable cells of an element, its satellites among them
          Values, Null, \* what a cell holds
          Bad,          \* a value that does not parse, as list, element or cell
          NoId,         \* an element without an id
          Patches,      \* what the field may be sent: lists by key
          Locking,      \* those that come with columns of the main row
          InitialRows,  \* the rows at the start
          MaxOpen,      \* bound: saves in progress at a time
          Absent, None

Row == [parent : Parents, key : Keys, pos : Nat, cells : [Cells -> Values \cup {Null}]]

ASSUME SentinelAssumption == Absent \notin Row /\ None \notin Calls \cup {"ok", "err"}
                             /\ NoId \notin Ids /\ EmptyKey \notin Keys
ASSUME NoHomeAssumption == None \notin Parents \X Keys
ASSUME InitialRowsAssumption == InitialRows \in [Ids -> Row \cup {Absent}]

\* A list of elements, each an id and the cells sent with it.
ASSUME PatchAssumption ==
    \A in \in Patches : \A k \in DOMAIN in :
        /\ k \in Keys \cup {EmptyKey}
        /\ in[k] # Bad =>
             /\ in[k] \in Seq([id : Ids \cup {NoId}, set : UNION {[S -> Values \cup {Null, Bad}] :
                                                                   S \in SUBSET Cells}] \cup {Bad})

VARIABLES hasNewID,     \* is ChildTable.NewID set?  Otherwise the database issues ids
          rows,         \* the committed child table
          home,         \* history: the parent and key each id was issued under
          held,         \* by row: the call that has written it
          pc, call, tx, answer

vars == <<hasNewID, rows, home, held, pc, call, tx, answer>>
-------------------------------------------------------------------------------
\* Fault: the empty key is taken for a partition.
PartitionsAndAll(in) == {k \in DOMAIN in : in[k] # Bad}

\* The partitions a patch names: the empty key is none, what is no list is left
\* alone.
Partitions(in) == {k \in DOMAIN in : k # EmptyKey /\ in[k] # Bad}

\* The cells of an element that are sent and parse.
Sent(e) == {f \in DOMAIN e.set : e.set[f] # Bad}
IsElement(list, n) == n \in DOMAIN list /\ list[n] # Bad

\* The position of the element with this index: 1-based, gaps not counted.
Position(list, n) == Cardinality({m \in 1..n : IsElement(list, m)})

In(c)     == call[c].in
Parent(c) == call[c].parent
List(c)   == In(c)[tx[c].key]
View(c)   == Over(tx[c].writes, rows)
Open      == {c \in Calls : pc[c] \notin {"idle", "done"}}
Goto(c, l) == pc' = [pc EXCEPT ![c] = l] /\ UNCHANGED hasNewID

\* scope: the rows of one parent and partition, in what the call sees.  The
\* empty key stands for all partitions.
Scope(view, p, k) ==
    {i \in Ids : view[i] # Absent /\ view[i].parent = p /\ k \in {view[i].key, EmptyKey}}

\* readRows, readKeyedRows: the lists of a parent.
Read(view, p) == [k \in Keys |-> {<<view[i].pos, i, view[i].cells>> : i \in Scope(view, p, k)}]

\* Fault: a row is recognised by its existence, not by whose it is.
OwnsExisting(list, owned, n) ==
    /\ IsElement(list, n)
    /\ list[n].id # NoId /\ rows[list[n].id] # Absent
    /\ \A m \in 1..(n - 1) : IsElement(list, m) => list[m].id # list[n].id

\* An element that keeps its id: it is the parent's own, and sent the first time.
Owns(list, owned, n) ==
    /\ IsElement(list, n)
    /\ list[n].id \in owned
    /\ \A m \in 1..(n - 1) : IsElement(list, m) => list[m].id # list[n].id

\* resolveIDs: every other element gets a new id, now or by the database.
Unused == {i \in Ids : home[i] = None}
Issued(S) == IF hasNewID THEN Injection(S, Unused) ELSE {[n \in S |-> NoId]}
Resolved(list, owned) ==
    LET new == {n \in DOMAIN list : IsElement(list, n) /\ ~Owns(list, owned, n)}
    IN {[n \in DOMAIN list |-> IF n \in new THEN issued[n]
                               ELSE IF IsElement(list, n) THEN list[n].id ELSE NoId] :
           issued \in Issued(new)}

\* The element that writeRows turns to next, after the one at tx[c].at.
Following(c) == {n \in DOMAIN List(c) : n > tx[c].at /\ IsElement(List(c), n)}
NextElement(c) == {n \in Following(c) : \A m \in Following(c) : n <= m}

\* What a call waits for: the writers of the rows its statement writes.
WaitsFor(c) ==
    CASE pc[c] = "deleting" -> {held[i] : i \in tx[c].snap} \ {None, c}
      [] pc[c] = "upsert" ->
             {held[i] : i \in {tx[c].ids[n] : n \in NextElement(c)} \ {NoId}} \ {None, c}
      [] OTHER -> {}
Runs(c, l) == pc[c] = l /\ WaitsFor(c) = {}
-------------------------------------------------------------------------------
NoTx == [todo |-> {}, key |-> None, owned |-> {}, ids |-> <<>>, snap |-> {}, at |-> 0,
         writes |-> <<>>, echo |-> <<>>]

Init == /\ hasNewID \in BOOLEAN
        /\ rows = InitialRows
        /\ home = [i \in Ids |-> IF rows[i] = Absent THEN None
                                 ELSE <<rows[i].parent, rows[i].key>>]
        /\ held = [i \in Ids |-> None]
        /\ pc = [c \in Calls |-> "idle"]
        /\ call = [c \in Calls |-> None]
        /\ tx = [c \in Calls |-> NoTx]
        /\ answer = [c \in Calls |-> None]

\* Fault: only a commit ends the transaction.
ReturnWithoutRollback(c, a) ==
    /\ answer' = [answer EXCEPT ![c] = a]
    /\ held' = [i \in Ids |-> IF held[i] = c /\ a = "ok" THEN None ELSE held[i]]
    /\ Goto(c, "done")
    /\ UNCHANGED <<home, call, tx>>

\* The end of the transaction.
Return(c, a) == /\ answer' = [answer EXCEPT ![c] = a]
                /\ held' = [i \in Ids |-> IF held[i] = c THEN None ELSE held[i]]
                /\ tx' = [tx EXCEPT ![c] = NoTx]
                /\ Goto(c, "done")
                /\ UNCHANGED <<home, call>>

\* A save that has written its main row keeps others that write it waiting.
Start(c) ==
    /\ pc[c] = "idle" /\ Cardinality(Open) < MaxOpen
    /\ \E p \in Parents, in \in Patches :
         /\ in \in Locking => \A d \in Open : Parent(d) # p \/ In(d) \notin Locking
         /\ call' = [call EXCEPT ![c] = [parent |-> p, in |-> in]]
         /\ tx' = [tx EXCEPT ![c].todo = Partitions(in)]
         /\ Goto(c, IF Partitions(in) = {} THEN "echo" ELSE "own")
    /\ UNCHANGED <<rows, home, held, answer>>

\* ownedIDs, and the ids the elements will have.  The partitions come in the
\* order of their keys.
ReadOwned(c) ==
    /\ pc[c] = "own"
    /\ \E k \in tx[c].todo :
         /\ \A l \in tx[c].todo : KeyRank[k] <= KeyRank[l]
         /\ \E ids \in Resolved(In(c)[k], Scope(View(c), Parent(c), k)) :
              /\ tx' = [tx EXCEPT ![c].todo = @ \ {k}, ![c].key = k, ![c].ids = ids, ![c].at = 0]
              /\ home' = [i \in Ids |-> IF i \in Range(ids) /\ home[i] = None
                                        THEN <<Parent(c), k>> ELSE home[i]]
    /\ Goto(c, "delete")
    /\ UNCHANGED <<rows, held, call, answer>>

\* deleteExceptSQL: the DELETE starts, with the rows it can see...
StartDelete(c) ==
    /\ pc[c] = "delete"
    /\ tx' = [tx EXCEPT ![c].snap =
                 Scope(View(c), Parent(c), tx[c].key) \ Range(tx[c].ids)]
    /\ Goto(c, "deleting")
    /\ UNCHANGED <<rows, home, held, call, answer>>

\* Where writeRows goes when the elements in rest are left.
GoOn(c, rest) ==
    Goto(c, IF rest # {} THEN "upsert" ELSE IF tx[c].todo # {} THEN "own" ELSE "echo")

\* ... and deletes those that are still there when their writers are through.
FinishDelete(c) ==
    /\ Runs(c, "deleting")
    /\ LET S == {i \in tx[c].snap : View(c)[i] # Absent}
       IN /\ tx' = [tx EXCEPT ![c].writes = Over([i \in S |-> Absent], @),
                              ![c].snap = {}]
          /\ held' = [i \in Ids |-> IF i \in S THEN c ELSE held[i]]
    /\ GoOn(c, Following(c))
    /\ UNCHANGED <<rows, home, call, answer>>

\* Fault: a cell that was not sent is written as NULL.
UpsertedWhole(view, i, p, k, pos, e) ==
    [parent |-> p, key |-> k, pos |-> pos,
     cells |-> [f \in Cells |-> IF f \in Sent(e) THEN e.set[f] ELSE Null]]

\* upsertRowSQL and the save of the element's satellites: an INSERT of the cells
\* sent or, if the row is there, an UPDATE of them and of the position.
Upserted(view, i, p, k, pos, e) ==
    LET set == [f \in Sent(e) |-> e.set[f]]
    IN IF view[i] = Absent
       THEN [parent |-> p, key |-> k, pos |-> pos, cells |-> Over(set, [f \in Cells |-> Null])]
       ELSE [view[i] EXCEPT !.pos = pos, !.cells = Over(set, view[i].cells)]

\* Fault: the position is the index in the list.
UpsertAtIndex(c) ==
    /\ Runs(c, "upsert")
    /\ \E n \in NextElement(c) :
       \E i \in IF tx[c].ids[n] = NoId THEN Unused ELSE {tx[c].ids[n]} :
         LET pos == n
             row == Upserted(View(c), i, Parent(c), tx[c].key, pos, List(c)[n])
         IN /\ tx' = [tx EXCEPT ![c].writes = Over([j \in {i} |-> row], @), ![c].at = n]
            /\ home' = [home EXCEPT ![i] = IF @ = None THEN <<Parent(c), tx[c].key>> ELSE @]
            /\ held' = [held EXCEPT ![i] = c]
            /\ GoOn(c, Following(c) \ {n})
    /\ UNCHANGED <<rows, call, answer>>

\* upsertRow: one element.  Without NewID the database picks the id of a new one.
Upsert(c) ==
    /\ Runs(c, "upsert")
    /\ \E n \in NextElement(c) :
       \E i \in IF tx[c].ids[n] = NoId THEN Unused ELSE {tx[c].ids[n]} :
         LET pos == Position(List(c), n)
             row == Upserted(View(c), i, Parent(c), tx[c].key, pos, List(c)[n])
         IN /\ tx' = [tx EXCEPT ![c].writes = Over([j \in {i} |-> row], @), ![c].at = n]
            /\ home' = [home EXCEPT ![i] = IF @ = None THEN <<Parent(c), tx[c].key>> ELSE @]
            /\ held' = [held EXCEPT ![i] = c]
            /\ GoOn(c, Following(c) \ {n})
    /\ UNCHANGED <<rows, call, answer>>

\* Fault: the list as it was sent is what is reported, ids included.
EchoSent(c) ==
    /\ pc[c] = "echo"
    /\ tx' = [tx EXCEPT ![c].echo =
          [Read(View(c), Parent(c)) EXCEPT ![tx[c].key] =
              {<<n, List(c)[n].id, List(c)[n].set>> : n \in {m \in DOMAIN List(c) : IsElement(List(c), m)}}]]
    /\ Goto(c, "commit")
    /\ UNCHANGED <<rows, home, held, call, answer>>

\* What save returns for the journal is read back within the transaction.
Echo(c) ==
    /\ pc[c] = "echo"
    /\ tx' = [tx EXCEPT ![c].echo = Read(View(c), Parent(c))]
    /\ Goto(c, "commit")
    /\ UNCHANGED <<rows, home, held, call, answer>>

Commit(c) == /\ pc[c] = "commit"
             /\ rows' = View(c)
             /\ Return(c, "ok")

\* Any statement may fail, and all is rolled back.
Fail(c) == c \in Open /\ Return(c, "err") /\ UNCHANGED rows

\* External: of calls that all wait for each other the database fails one.
Stuck(S) == S # {} /\ \A c \in S : WaitsFor(c) \cap S # {}
DeadlockVictim(c) == /\ \E S \in SUBSET Open : c \in S /\ Stuck(S)
                     /\ Return(c, "err") /\ UNCHANGED rows

Statement(c) == \/ ReadOwned(c)
                \/ StartDelete(c)
                \/ FinishDelete(c)
                \/ Upsert(c)
                \/ Echo(c)
                \/ Commit(c)

\* Every call of this instance has returned.
Finished == (\A c \in Calls : pc[c] = "done") /\ UNCHANGED vars

Next == \/ \E c \in Calls : Start(c) \/ Statement(c) \/ Fail(c) \/ DeadlockVictim(c)
        \/ Finished

Spec == Init /\ [][Next]_vars
FairSpec == Spec /\ \A c \in Calls : WF_vars(Statement(c)) /\ WF_vars(DeadlockVictim(c))
-------------------------------------------------------------------------------
(* Properties.                                                              *)

Stage == {"idle", "own", "delete", "deleting", "upsert", "echo", "commit", "done"}

\* The types.
TypeOK ==
    /\ hasNewID \in BOOLEAN
    /\ rows \in [Ids -> Row \cup {Absent}]
    /\ home \in [Ids -> (Parents \X Keys) \cup {None}]
    /\ held \in [Ids -> Calls \cup {None}]
    /\ pc \in [Calls -> Stage]
    /\ call \in [Calls -> [parent : Parents, in : Patches] \cup {None}]
    /\ \A c \in Calls :
         /\ DOMAIN tx[c] = DOMAIN NoTx
         /\ tx[c].todo \subseteq Keys /\ tx[c].snap \subseteq Ids
         /\ tx[c].key \in Keys \cup {None} /\ tx[c].at \in Nat
         /\ Range(tx[c].ids) \subseteq Ids \cup {NoId}
         /\ DOMAIN tx[c].writes \subseteq Ids
         /\ Range(tx[c].writes) \subseteq Row \cup {Absent}
    /\ answer \in [Calls -> {None, "ok", "err"}]

\* child.go:412, "a forged id of a foreign row would update that row": whatever
\* ids are sent, and however the saves overlap, a row stays with the parent and
\* the partition it was made for.
RowsStayHome ==
    \A i \in Ids : rows[i] # Absent => home[i] = <<rows[i].parent, rows[i].key>>

\* A save changes the rows of its own parent and of the partitions it was sent,
\* and no others: not for an empty key, a partition that is no list or one
\* that is missing (child.go:456, "absent key means untouched").
OthersUntouched ==
    [][\A c \in Calls : pc[c] = "commit" /\ pc'[c] = "done" =>
           \A i \in Ids : rows'[i] # rows[i] =>
               home[i] \in {Parent(c)} \X Partitions(In(c))]_vars

\* A save whose field no other save of the parent writes meanwhile: it has the
\* lock of the main row, and those that do not ask for it are kept apart by the
\* instance (Alone).
CommitsAlone(c) == pc[c] = "commit" /\ answer'[c] = "ok" /\ In(c) \in Locking

\* What a commit leaves is the list that was sent: an element for each object,
\* in their order, with positions 1, 2, 3..., the cells that were sent, and the
\* id it was sent with if that is one of the list's own.
ListsAsSent ==
    [][\A c \in Calls : CommitsAlone(c) =>
           \A k \in Partitions(In(c)) :
               LET list == In(c)[k]
                   now  == Scope(rows', Parent(c), k)
                   sent == {n \in DOMAIN list : IsElement(list, n)}
               IN /\ Cardinality(now) = Cardinality(sent)
                  /\ \A n \in sent : \E i \in now :
                       /\ rows'[i].pos = Position(list, n)
                       /\ \A f \in Sent(list[n]) : rows'[i].cells[f] = list[n].set[f]
                       /\ Owns(list, Scope(rows, Parent(c), k), n) => i = list[n].id]_vars

\* child.go:811, "not sent means untouched" within an element: a row that is sent
\* under its own id is there after the save, and its other cells and its
\* nested rows are as they were.
UnsentIsUntouched ==
    [][\A c \in Calls : CommitsAlone(c) =>
           \A k \in Partitions(In(c)) : \A n \in DOMAIN In(c)[k] :
               LET e == In(c)[k][n]
               IN Owns(In(c)[k], Scope(rows, Parent(c), k), n) =>
                      /\ rows'[e.id] # Absent
                      /\ \A f \in Cells \ Sent(e) : rows'[e.id].cells[f] = rows[e.id].cells[f]]_vars

\* What is reported of the field is what the commit leaves in it.
EchoIsCommitted ==
    [][\A c \in Calls : CommitsAlone(c) => Read(rows', Parent(c)) = tx[c].echo]_vars

\* Every save returns, whatever order it takes the rows in.
EverySaveReturns == \A c \in Calls : pc[c] # "idle" ~> pc[c] = "done"
===============================================================================
