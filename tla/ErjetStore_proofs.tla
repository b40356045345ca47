--------------------------- MODULE ErjetStore_proofs ---------------------------
(***************************************************************************)
(* Theorems about erjet.Store, for any number of calls, rows and cells and *)
(* whatever the bodies write.                                              *)
(*                                                                         *)
(* The actions of a call have one of ten shapes: it starts, reads or moves *)
(* on, inserts its row, updates it, inserts a list, takes the row for a    *)
(* DELETE, cascades, is rolled back, commits, reports.  The invariant is   *)
(* split by what it speaks of, and each part is shown to survive each      *)
(* shape.                                                                  *)
(***************************************************************************)
EXTENDS ErjetStore, FiniteSetTheorems, TLAPS

\* Where the state of every call is.
Shaped ==
    /\ DOMAIN rows = Ids
    /\ lock \in [Ids -> Calls \cup {None}]
    /\ share \in [Ids -> SUBSET Calls]
    /\ pc \in [Calls -> Stage]
    /\ call \in [Calls -> Request \cup {None}]
    /\ DOMAIN tx = Calls /\ \A c \in Calls : DOMAIN tx[c] = DOMAIN NoTx
    /\ DOMAIN answer = Calls /\ DOMAIN report = Calls
    /\ \A c \in Calls : pc[c] = "idle" <=> call[c] = None

\* What the stage of a call says of its operation, its row and its answer.
Staged(c) ==
    /\ pc[c] \in {"remove", "cascade"} => call[c].op = "delete"
    /\ pc[c] \in {"hook"} => call[c].op = "create"
    /\ pc[c] \in {"exists", "before", "beforeLists", "update"} => call[c].op = "update"
    /\ pc[c] \in {"deferred", "replace", "insert", "updateBack", "report"}
           => call[c].op \in {"create", "update"}
    /\ answer[c] # None => pc[c] = "done"
    /\ call[c] # None /\ call[c].op \in {"create", "update"} => In(c) \in Payloads

\* Locks and list rows belong to a call that has not returned, and to its row.
Owned(c) ==
    /\ \A i \in Ids : lock[i] = c \/ c \in share[i] => c \in Open /\ Id(c) = i
    /\ \A x \in tx[c].fresh : x.owner = Id(c) /\ x.by = c /\ c \in share[Id(c)]
    /\ c \notin Open => tx[c].gone = {} /\ tx[c].fresh = {}

Does(c, op) == call[c] # None /\ call[c].op = op

\* A create has its id to itself.
Named(c) == Does(c, "create") => /\ Id(c) \notin InitialIds
                                 /\ \A d \in Calls \ {c} : Does(d, "create") => Id(d) # Id(c)

\* A row is there from the start or from a create that has committed; an update
\* or a delete is of such a row, be it there still or not.
IsCreated(i) == \E d \in Calls : /\ Does(d, "create") /\ Id(d) = i
                                 /\ pc[d] \in {"report", "done"}
Rooted == /\ \A i \in Ids : rows[i] # Absent => i \in InitialIds \/ IsCreated(i)
          /\ \A c \in Calls : Does(c, "update") \/ Does(c, "delete")
                                 => Id(c) \in InitialIds \/ IsCreated(Id(c))

\* What a transaction has written of its main row.
Assigns(new) == DOMAIN new \subseteq Cols /\ new \in [DOMAIN new -> Values \cup {Null}]
Rowed == /\ \A i \in Ids : rows[i] \in Row \cup {Absent}
         /\ \A c \in Calls : Assigns(tx[c].sets)
         /\ \A c \in Open : Does(c, "create") /\ pc[c] # "hook"
                                => lock[Id(c)] = c /\ DOMAIN tx[c].sets = Cols
         /\ \A i \in Ids, c \in Calls : lock[i] = c /\ rows[i] = Absent => Does(c, "create")

\* Where there is no row there are no list rows, and none to come but from the
\* create of the row; a DELETE that holds the row has it to itself.
Emptied ==
    /\ \A i \in Ids : rows[i] = Absent =>
           /\ \A x \in items : x.owner # i
           /\ \A c \in Calls : \A x \in tx[c].fresh : x.owner = i => Does(c, "create")
    /\ \A c \in Calls : Does(c, "delete") =>
           /\ tx[c].fresh = {} /\ \A i \in Ids : c \notin share[i]
           /\ lock[Id(c)] = c => share[Id(c)] = {}
           /\ pc[c] = "cascade" => lock[Id(c)] = c
           /\ pc[c] = "commit" =>
                  \/ rows[Id(c)] = Absent
                  \/ lock[Id(c)] = c /\ \A x \in items : x.owner = Id(c) => x \in tx[c].gone
           /\ pc[c] = "done" /\ answer[c] = "ok" => rows[Id(c)] = Absent

Inv == /\ Shaped
       /\ \A c \in Calls : Staged(c) /\ Owned(c) /\ Named(c)
       /\ Rooted /\ Rowed /\ Emptied
-------------------------------------------------------------------------------
(* The shapes.                                                              *)

\* The local state of c changes and of no other call.
LocalTo(c) == /\ DOMAIN tx' = Calls /\ DOMAIN tx'[c] = DOMAIN NoTx
              /\ \A d \in Calls \ {c} : tx'[d] = tx[d]

AfterBegin == {"hook", "remove", "exists", "before"}
Started(c) ==
    /\ pc[c] = "idle"
    /\ \E r \in Contract!Operations, l \in AfterBegin :
         /\ call' = [call EXCEPT ![c] = r]
         /\ Goto(c, l)
         /\ l = "hook" <=> r.op = "create"
         /\ l = "remove" <=> r.op = "delete"
    /\ LocalTo(c)
    /\ tx'[c].sets = tx[c].sets /\ tx'[c].gone = tx[c].gone /\ tx'[c].fresh = tx[c].fresh
    /\ UNCHANGED <<rows, items, lock, share, answer, report, effect>>

AfterSave == {"deferred", "updateBack", "commit"}

\* It reads, or works out what to write next.
Moved(c) ==
    /\ pc[c] \in {"before", "beforeLists", "deferred", "replace"}
    /\ \E l \in {"beforeLists", "update", "deferred", "replace", "insert", "updateBack", "commit"} :
         /\ Goto(c, l)
         /\ call[c].op = "create" => l \notin {"beforeLists", "update"}
    /\ LocalTo(c) /\ tx'[c].sets = tx[c].sets /\ tx'[c].fresh = tx[c].fresh
    /\ UNCHANGED <<rows, items, lock, share, call, answer, report, effect>>

Created(c) == /\ pc[c] = "hook"
              /\ lock' = [lock EXCEPT ![Id(c)] = c]
              /\ LocalTo(c) /\ tx'[c].sets = NewRow /\ tx'[c].fresh = tx[c].fresh
              /\ \E l \in AfterSave : Goto(c, l)
              /\ UNCHANGED <<rows, items, share, call, answer, report, effect>>

Updated(c) == /\ pc[c] \in {"update", "updateBack"} /\ RowHolders(c) = {}
              /\ LockRow(c)
              /\ LocalTo(c) /\ tx'[c].fresh = tx[c].fresh
              /\ \E new : tx'[c].sets = Over(new, tx[c].sets) /\ Assigns(new)
              /\ \E l \in AfterSave : Goto(c, l)
              /\ UNCHANGED <<rows, items, share, call, answer, report, effect>>

Listed(c) ==
    /\ pc[c] = "insert"
    /\ {d \in RowHolders(c) : call[d].op = "delete"} = {}
    /\ \E new :
         /\ \A x \in new : x.owner = Id(c) /\ x.by = c
         /\ new = {} \/ rows[Id(c)] # Absent \/ lock[Id(c)] = c
         /\ tx'[c].fresh = tx[c].fresh \cup new
         /\ share' = IF new = {} THEN share ELSE [share EXCEPT ![Id(c)] = @ \cup {c}]
    /\ \E l \in AfterSave : Goto(c, l)
    /\ LocalTo(c) /\ tx'[c].sets = tx[c].sets
    /\ UNCHANGED <<rows, items, lock, call, answer, report, effect>>

RolledBack(c) == /\ c \in Open
                 /\ \E a \in {"ok", "err", "notfound", "conflict"} :
                      /\ Return(c, a)
                      /\ a = "ok" => pc[c] = "exists"

AfterCommit == {"ok"} \cup (IF LossyCommit THEN {"err"} ELSE {})
Applied(c) == /\ pc[c] = "commit"
              /\ Apply(c)
              /\ UNCHANGED <<call, report>>
              /\ \/ call[c].op # "delete" /\ Goto(c, "report") /\ UNCHANGED answer
                 \/ Goto(c, "done") /\ \E a \in AfterCommit : answer' = [answer EXCEPT ![c] = a]

Step(c) == \/ Started(c) \/ Moved(c) \/ Created(c) \/ Updated(c) \/ Listed(c)
           \/ RemoveRow(c) \/ Cascade(c) \/ RolledBack(c) \/ Applied(c) \/ Report(c)

LEMMA StartShape ==
    ASSUME Shaped, NEW c \in Calls, Start(c)
    PROVE  Started(c)
<1>1. PICK r \in Contract!Operations :
         /\ call' = [call EXCEPT ![c] = r]
         /\ tx' = [tx EXCEPT ![c].todo = IF r.op = "delete" THEN {} ELSE Steps(r.in)]
         /\ Goto(c, CASE r.op = "create" -> "hook"
                      [] r.op = "delete" -> "remove"
                      [] r.op = "update" -> IF Assignments(r.in) = {} /\ Deferred(r.in) = {}
                                            THEN "exists" ELSE "before")
  BY DEF Start
<1>2. tx'[c] = [tx[c] EXCEPT !.todo = IF r.op = "delete" THEN {} ELSE Steps(r.in)]
  BY <1>1 DEF Shaped
<1>3. /\ LocalTo(c)
      /\ tx'[c].sets = tx[c].sets /\ tx'[c].gone = tx[c].gone /\ tx'[c].fresh = tx[c].fresh
  BY <1>1, <1>2 DEF Shaped, LocalTo, NoTx
<1>4. PICK l \in AfterBegin : /\ Goto(c, l)
                              /\ l = "hook" <=> r.op = "create"
                              /\ l = "remove" <=> r.op = "delete"
  <2>1. CASE r.op = "create"
    BY <1>1, <2>1 DEF AfterBegin
  <2>2. CASE r.op = "delete"
    BY <1>1, <2>2 DEF AfterBegin
  <2>3. CASE r.op = "update"
    BY <1>1, <2>3 DEF AfterBegin
  <2>4. r.op \in {"create", "delete", "update"}
    BY DEF Contract!Operations, Contract!Create, Contract!Update, Contract!Delete
  <2> QED
    BY <2>1, <2>2, <2>3, <2>4
<1> QED
  BY <1>1, <1>3, <1>4 DEF Start, Started

LEMMA MoveShape ==
    ASSUME Shaped, NEW c \in Calls, Staged(c),
           \/ ReadBefore(c) /\ rows[Id(c)] # Absent
           \/ ReadBeforeList(c) \/ ResolveDeferred(c)
           \/ StartReplace(c) \/ FinishReplace(c) \/ ReadBack(c)
    PROVE  Moved(c)
<1>1. CASE ReadBefore(c) /\ rows[Id(c)] # Absent
  <2>1. PICK b, u : tx' = [tx EXCEPT ![c].before = b, ![c].unread = u]
    BY <1>1 DEF ReadBefore
  <2>2. tx'[c] = [tx[c] EXCEPT !.before = b, !.unread = u]
    BY <2>1 DEF Shaped
  <2>3. LocalTo(c) /\ tx'[c].sets = tx[c].sets /\ tx'[c].fresh = tx[c].fresh
    BY <2>1, <2>2 DEF Shaped, LocalTo, NoTx
  <2> QED
    BY <1>1, <2>3 DEF ReadBefore, Moved, Locally, Staged, Goto
<1>2. CASE ReadBeforeList(c)
  <2>1. PICK l : LET unread == tx[c].unread \ {l}
         IN tx' = [tx EXCEPT ![c].before = Over([k \in {l} |-> ItemsOf(Id(c), l)], @),
                                ![c].unread = unread]
    BY <1>2 DEF ReadBeforeList
  <2>2. tx'[c] = [tx[c] EXCEPT !.before = Over([k \in {l} |-> ItemsOf(Id(c), l)], @),
                               !.unread = tx[c].unread \ {l}]
    BY <2>1 DEF Shaped
  <2>3. LocalTo(c) /\ tx'[c].sets = tx[c].sets /\ tx'[c].fresh = tx[c].fresh
    BY <2>1, <2>2 DEF Shaped, LocalTo, NoTx
  <2> QED
    BY <1>2, <2>3 DEF ReadBeforeList, Moved, Locally, Staged, Goto
<1>3. CASE ResolveDeferred(c)
  <2>1. PICK t : tx' = [tx EXCEPT ![c].todo = t]
    BY <1>3 DEF ResolveDeferred
  <2>2. tx'[c] = [tx[c] EXCEPT !.todo = t]
    BY <2>1 DEF Shaped
  <2>3. LocalTo(c) /\ tx'[c].sets = tx[c].sets /\ tx'[c].fresh = tx[c].fresh
    BY <2>1, <2>2 DEF Shaped, LocalTo, NoTx
  <2> QED
    BY <1>3, <2>3 DEF ResolveDeferred, Moved, Locally, AfterDeferred
<1>4. CASE StartReplace(c)
  <2>1. PICK t : tx' = [tx EXCEPT ![c].snap = t]
    BY <1>4 DEF StartReplace
  <2>2. tx'[c] = [tx[c] EXCEPT !.snap = t]
    BY <2>1 DEF Shaped
  <2>3. LocalTo(c) /\ tx'[c].sets = tx[c].sets /\ tx'[c].fresh = tx[c].fresh
    BY <2>1, <2>2 DEF Shaped, LocalTo, NoTx
  <2> QED
    BY <1>4, <2>3 DEF StartReplace, Moved, Locally
<1>5. CASE FinishReplace(c)
  <2>1. tx'[c] = [tx[c] EXCEPT !.gone = @ \cup (tx[c].snap \cap items), !.snap = {}]
    BY <1>5 DEF FinishReplace, Shaped
  <2>2. LocalTo(c) /\ tx'[c].sets = tx[c].sets /\ tx'[c].fresh = tx[c].fresh
    BY <1>5, <2>1 DEF FinishReplace, Shaped, LocalTo, NoTx
  <2> QED
    BY <1>5, <2>2 DEF FinishReplace, Runs, Moved, Locally
<1>6. CASE ReadBack(c)
  <2>1. PICK e, t : tx' = [tx EXCEPT ![c].echo = e, ![c].todo = t]
    BY <1>6 DEF ReadBack
  <2>2. tx'[c] = [tx[c] EXCEPT !.echo = e, !.todo = t]
    BY <2>1 DEF Shaped
  <2>3. LocalTo(c) /\ tx'[c].sets = tx[c].sets /\ tx'[c].fresh = tx[c].fresh
    BY <2>1, <2>2 DEF Shaped, LocalTo, NoTx
  <2> QED
    BY <1>6, <2>3 DEF ReadBack, Moved, Locally, AfterDeferred
<1> QED
  BY <1>1, <1>2, <1>3, <1>4, <1>5, <1>6

LEMMA WrittenColumns ==
    ASSUME NEW in \in Payloads \cup {Seed}, NEW f \in DOMAIN Written(in) \cap Cols
    PROVE  Written(in)[f] \in Values \cup {Null}
<1>1. f \notin Lists
  BY CellsAssumption
<1>2. f \in DOMAIN in /\ in[f] # Bad /\ Written(in)[f] = in[f]
  BY <1>1 DEF Written, Parses
<1> QED
  BY <1>2, PayloadAssumption

LEMMA AssignedColumns ==
    ASSUME NEW r, r.in \in Payloads
    PROVE  /\ Assignments(r.in) \subseteq DOMAIN Written(r.in) \cap Cols
           /\ AssignsBack(r) \subseteq DOMAIN Written(r.in) \cap Cols
  BY DEF Assignments, AssignsBack, Deferred, Written, Fields, Cols

LEMMA UpdateShape ==
    ASSUME Shaped, NEW c \in Calls, Staged(c), UpdateRow(c) \/ UpdateBack(c)
    PROVE  Updated(c)
<1>1. PICK cols \in {Assignments(In(c)), AssignsBack(call[c])} : Update(c, cols)
  BY DEF UpdateRow, UpdateBack
<1>2. In(c) \in Payloads /\ call[c].in \in Payloads
  BY NoneAssumption DEF UpdateRow, UpdateBack, Runs, Staged, Shaped, In
<1>3. cols \subseteq DOMAIN Written(In(c)) \cap Cols
  BY <1>1, <1>2, AssignedColumns DEF In
<1> DEFINE new == [f \in cols |-> Written(In(c))[f]]
<1>4. Assigns(new)
  BY <1>2, <1>3, WrittenColumns DEF Assigns
<1>5. tx'[c] = [tx[c] EXCEPT !.sets = Over(new, tx[c].sets)]
  BY <1>1 DEF Update, Shaped
<1>6. LocalTo(c) /\ tx'[c].sets = Over(new, tx[c].sets) /\ tx'[c].fresh = tx[c].fresh
  BY <1>1, <1>5 DEF Update, Shaped, LocalTo, NoTx
<1>7. RowHolders(c) = {} /\ pc[c] \in {"update", "updateBack"}
  BY DEF UpdateRow, UpdateBack, Runs, WaitsFor
<1>8. \E l \in AfterSave : Goto(c, l)
  BY DEF UpdateRow, UpdateBack, AfterDeferred, AfterSave
<1> QED
  BY <1>1, <1>4, <1>6, <1>7, <1>8 DEF UpdateRow, UpdateBack, Update, Updated, Locally

LEMMA CreateShape ==
    ASSUME Shaped, NEW c \in Calls, CreateHook(c)
    PROVE  Created(c)
<1>1. tx'[c] = [tx[c] EXCEPT !.sets = NewRow]
  BY DEF CreateHook, Shaped
<1>2. LocalTo(c) /\ tx'[c].sets = NewRow /\ tx'[c].fresh = tx[c].fresh
  BY <1>1 DEF CreateHook, Shaped, LocalTo, NoTx
<1> QED
  BY <1>2 DEF CreateHook, Created, AfterSave, AfterDeferred, Locally

LEMMA ListShape ==
    ASSUME Shaped, NEW c \in Calls, InsertList(c)
    PROVE  Listed(c) \/ RolledBack(c)
<1>1. PICK s \in tx[c].todo :
         LET l    == s[1]
             new  == [owner : {Id(c)}, cell : {l}, by : {c},
                      row : PartRows(l, s[2], ListAt(l, In(c)[l], s[2]))]
             todo == tx[c].todo \ {s}
         IN IF new # {} /\ rows[Id(c)] = Absent /\ lock[Id(c)] # c
            THEN Return(c, "err")
            ELSE /\ tx' = [tx EXCEPT ![c].fresh = @ \cup new, ![c].todo = todo,
                                     ![c].echo = IF l \in Rels THEN Over([k \in {l} |-> new], @)
                                                 ELSE @]
                 /\ share' = IF new = {} THEN share
                             ELSE [share EXCEPT ![Id(c)] = @ \cup {c}]
                 /\ Goto(c, AfterDeferred(c, todo))
                 /\ UNCHANGED lock /\ Locally
  BY DEF InsertList
<1> DEFINE new == [owner : {Id(c)}, cell : {s[1]}, by : {c},
                   row : PartRows(s[1], s[2], ListAt(s[1], In(c)[s[1]], s[2]))]
           todo == tx[c].todo \ {s}
           echo == IF s[1] \in Rels THEN Over([k \in {s[1]} |-> new], tx[c].echo) ELSE tx[c].echo
<1>2. pc[c] = "insert" /\ {d \in RowHolders(c) : call[d].op = "delete"} = {}
  BY DEF InsertList, Runs, WaitsFor
<1>3. CASE Return(c, "err")
  BY <1>2, <1>3 DEF RolledBack, Open
<1>4. CASE ~Return(c, "err")
  <2>1. tx'[c] = [tx[c] EXCEPT !.fresh = @ \cup new, !.todo = todo, !.echo = echo]
    BY <1>1, <1>4 DEF Shaped
  <2>2. LocalTo(c) /\ tx'[c].sets = tx[c].sets /\ tx'[c].fresh = tx[c].fresh \cup new
    BY <1>1, <1>4, <2>1 DEF Shaped, LocalTo, NoTx
  <2>3. \A x \in new : x.owner = Id(c) /\ x.by = c
    OBVIOUS
  <2>4. \E k \in AfterSave : Goto(c, k)
    BY <1>1, <1>4 DEF AfterSave, AfterDeferred
  <2>5. Listed(c)
    BY <1>1, <1>2, <1>4, <2>2, <2>3, <2>4 DEF Listed, Locally
  <2> QED
    BY <2>5
<1> QED
  BY <1>3, <1>4

\* Every action of a call has one of the ten shapes.
LEMMA Shapes ==
    ASSUME Shaped, NEW c \in Calls, Staged(c),
           Start(c) \/ Statement(c) \/ Fail(c) \/ DeadlockVictim(c)
    PROVE  Step(c)
<1>1. CASE Start(c)
  BY <1>1, StartShape DEF Step
<1>2. CASE ReadBefore(c) /\ rows[Id(c)] = Absent
  BY <1>2 DEF ReadBefore, Step, RolledBack, Open
<1>3. CASE CheckExists(c) \/ RefuseRemove(c)
  BY <1>3 DEF CheckExists, RefuseRemove, Runs, Step, RolledBack, Open
<1>4. CASE Fail(c) \/ DeadlockVictim(c)
  BY <1>4 DEF Fail, DeadlockVictim, Step, RolledBack, Open
<1>5. CASE Commit(c) \/ CommitUnheard(c)
  BY <1>5 DEF Commit, CommitUnheard, Step, Applied, AfterCommit
<1>6. CASE \/ ReadBefore(c) /\ rows[Id(c)] # Absent
           \/ ReadBeforeList(c) \/ ResolveDeferred(c)
           \/ StartReplace(c) \/ FinishReplace(c) \/ ReadBack(c)
  BY <1>6, MoveShape DEF Step
<1>7. CASE UpdateRow(c) \/ UpdateBack(c)
  BY <1>7, UpdateShape DEF Step
<1>8. CASE CreateHook(c)
  BY <1>8, CreateShape DEF Step
<1>9. CASE InsertList(c)
  BY <1>9, ListShape DEF Step
<1> QED
  BY <1>1, <1>2, <1>3, <1>4, <1>5, <1>6, <1>7, <1>8, <1>9 DEF Statement, Step
-------------------------------------------------------------------------------
(* The parts of the invariant, one after the other.                         *)

LEMMA StepActs == Inv /\ [Next]_vars => UNCHANGED vars \/ \E c \in Calls : Step(c)
  BY Shapes DEF Inv, Next, Finished

LEMMA RequestType ==
    ASSUME NEW r \in Contract!Operations
    PROVE  /\ r.op \in {"create", "update", "delete"} /\ r.id = r.id
           /\ r.op \in {"create", "update"} => r.in \in Payloads
  BY DEF Contract!Operations, Contract!Create, Contract!Update, Contract!Delete

LEMMA KnownIds ==
    ASSUME Inv PROVE Contract!Known \subseteq Ids
<1>1. \A d \in Contract!Creates : call[d].id \in Ids
  BY NoneAssumption DEF Contract!Creates, Inv, Shaped, Request
<1> QED
  BY <1>1, IdsAssumption DEF Contract!Known

LEMMA RequestsAreRequests ==
    ASSUME Inv PROVE Contract!Operations \subseteq Request
  BY KnownIds DEF Contract!Operations, Contract!Create, Contract!Update, Contract!Delete, Request

\* Nothing uncommitted is left of a transaction that has ended.
LEMMA Closed ==
    ASSUME Shaped, NEW c \in Calls, Close(c)
    PROVE  tx'[c].sets = <<>> /\ tx'[c].gone = {} /\ tx'[c].fresh = {}
<1>1. tx'[c] = [NoTx EXCEPT !.before = tx[c].before, !.echo = tx[c].echo]
  BY DEF Close, Shaped
<1> QED
  BY <1>1 DEF NoTx

LEMMA StepShaped ==
    ASSUME Inv, NEW c \in Calls, Step(c)
    PROVE  Shaped'
<1> USE DEF Inv, Shaped, Goto, Stage
<1>1. CASE Started(c)
  BY <1>1, RequestsAreRequests, NoneAssumption DEF Started, AfterBegin, LocalTo
<1>2. CASE Moved(c)
  BY <1>2 DEF Moved, LocalTo
<1>3. CASE Created(c)
  <2>1. lock' \in [Ids -> Calls \cup {None}] /\ share' \in [Ids -> SUBSET Calls]
    BY <1>3 DEF Created
  <2>2. /\ pc' \in [Calls -> Stage] /\ pc[c] # "idle" /\ pc'[c] # "idle"
        /\ \A d \in Calls \ {c} : pc'[d] = pc[d]
    BY <1>3 DEF Created, AfterSave
  <2>3. DOMAIN tx' = Calls /\ \A d \in Calls : DOMAIN tx'[d] = DOMAIN NoTx
    BY <1>3 DEF Created, LocalTo
  <2> QED
    BY <1>3, <2>1, <2>2, <2>3 DEF Created
<1>4. CASE Updated(c)
  <2>1. lock' \in [Ids -> Calls \cup {None}] /\ share' \in [Ids -> SUBSET Calls]
    BY <1>4 DEF Updated, LockRow
  <2>2. /\ pc' \in [Calls -> Stage] /\ pc[c] # "idle" /\ pc'[c] # "idle"
        /\ \A d \in Calls \ {c} : pc'[d] = pc[d]
    BY <1>4 DEF Updated, AfterSave
  <2>3. DOMAIN tx' = Calls /\ \A d \in Calls : DOMAIN tx'[d] = DOMAIN NoTx
    BY <1>4 DEF Updated, LocalTo
  <2> QED
    BY <1>4, <2>1, <2>2, <2>3 DEF Updated
<1>5. CASE Listed(c)
  <2>1. lock' \in [Ids -> Calls \cup {None}] /\ share' \in [Ids -> SUBSET Calls]
    <3>1. PICK new : share' = IF new = {} THEN share
                              ELSE [share EXCEPT ![Id(c)] = @ \cup {c}]
      BY <1>5 DEF Listed
    <3>2. UNCHANGED lock
      BY <1>5 DEF Listed
    <3> QED
      BY <3>1, <3>2
  <2>2. /\ pc' \in [Calls -> Stage] /\ pc[c] # "idle" /\ pc'[c] # "idle"
        /\ \A d \in Calls \ {c} : pc'[d] = pc[d]
    BY <1>5 DEF Listed, AfterSave
  <2>3. DOMAIN tx' = Calls /\ \A d \in Calls : DOMAIN tx'[d] = DOMAIN NoTx
    BY <1>5 DEF Listed, LocalTo
  <2> QED
    BY <1>5, <2>1, <2>2, <2>3 DEF Listed
<1>6. CASE RemoveRow(c)
  BY <1>6 DEF RemoveRow, Runs, LockRow, Locally
<1>7. CASE Cascade(c)
  BY <1>7 DEF Cascade, Runs, Locally
<1>8. CASE RolledBack(c)
  BY <1>8 DEF RolledBack, Return, Close, Open, NoTx
<1>9. CASE Applied(c)
  BY <1>9 DEF Applied, Apply, Close, NoTx
<1>10. CASE Report(c)
  BY <1>10 DEF Report
<1> QED
  BY <1>1, <1>2, <1>3, <1>4, <1>5, <1>6, <1>7, <1>8, <1>9, <1>10 DEF Step

LEMMA StepStaged ==
    ASSUME Inv, NEW c \in Calls, Step(c), NEW d \in Calls
    PROVE  Staged(d)'
<1> USE DEF Inv, Shaped, Staged, Goto, In
<1>1. CASE Started(c)
  BY <1>1, RequestType DEF Started, AfterBegin
<1>2. CASE Moved(c)
  BY <1>2 DEF Moved
<1>3. CASE Created(c)
  BY <1>3 DEF Created, AfterSave
<1>4. CASE Updated(c)
  BY <1>4 DEF Updated, AfterSave
<1>5. CASE Listed(c)
  BY <1>5 DEF Listed, AfterSave
<1>6. CASE RemoveRow(c)
  BY <1>6 DEF RemoveRow, Runs, Locally
<1>7. CASE Cascade(c)
  BY <1>7 DEF Cascade, Runs, Locally
<1>8. CASE RolledBack(c)
  BY <1>8 DEF RolledBack, Return
<1>9. CASE Applied(c)
  <2>1. pc[c] = "commit" /\ UNCHANGED call
    BY <1>9 DEF Applied
  <2>2. CASE d # c
    <3>1. pc'[d] = pc[d] /\ answer'[d] = answer[d] /\ call'[d] = call[d]
      BY <1>9, <2>2 DEF Applied
    <3> QED
      BY <3>1
  <2>3. CASE d = c
    <3>1. call'[c] = call[c] /\ call[c] # None
      BY <2>1
    <3>2. CASE call[c].op # "delete" /\ Goto(c, "report") /\ UNCHANGED answer
      BY <2>1, <2>3, <3>1, <3>2 DEF Request
    <3>3. CASE Goto(c, "done")
      BY <1>9, <2>1, <2>3, <3>1, <3>3
    <3> QED
      BY <1>9, <3>2, <3>3 DEF Applied
  <2> QED
    BY <2>2, <2>3
<1>10. CASE Report(c)
  BY <1>10 DEF Report
<1> QED
  BY <1>1, <1>2, <1>3, <1>4, <1>5, <1>6, <1>7, <1>8, <1>9, <1>10 DEF Step

LEMMA StepOwned ==
    ASSUME Inv, NEW c \in Calls, Step(c), NEW d \in Calls
    PROVE  Owned(d)'
<1> USE NoneAssumption DEF Inv, Shaped, Owned, Open, Id, Goto
<1>1. CASE Started(c)
  BY <1>1 DEF Started, AfterBegin, LocalTo
<1>2. CASE Moved(c)
  BY <1>2 DEF Moved, LocalTo
<1>3. CASE Created(c)
  BY <1>3 DEF Created, LocalTo, AfterSave
<1>4. CASE Updated(c)
  BY <1>4 DEF Updated, LocalTo, AfterSave, LockRow
<1>5. CASE Listed(c)
  <2>1. PICK new :
           /\ \A x \in new : x.owner = Id(c) /\ x.by = c
           /\ tx'[c].fresh = tx[c].fresh \cup new
           /\ share' = IF new = {} THEN share ELSE [share EXCEPT ![Id(c)] = @ \cup {c}]
    BY <1>5 DEF Listed
  <2>2. c \in Open /\ Open' = Open /\ UNCHANGED <<lock, call>> /\ Id(c) \in Ids
    BY <1>5 DEF Listed, AfterSave, Request
  <2>3. CASE d = c
    BY <2>1, <2>2, <2>3
  <2>4. CASE d # c
    BY <1>5, <2>1, <2>2, <2>4 DEF Listed, LocalTo
  <2> QED
    BY <2>3, <2>4
<1>6. CASE RemoveRow(c)
  BY <1>6 DEF RemoveRow, Runs, LockRow, Locally
<1>7. CASE Cascade(c)
  BY <1>7 DEF Cascade, Runs, Locally
<1>8. CASE RolledBack(c)
  <2>1. /\ \A i \in Ids : /\ lock'[i] = IF lock[i] = c THEN None ELSE lock[i]
                        /\ share'[i] = share[i] \ {c}
        /\ tx'[c].gone = {} /\ tx'[c].fresh = {}
        /\ \A q \in Calls \ {c} : tx'[q] = tx[q] /\ pc'[q] = pc[q]
        /\ pc'[c] \in {"report", "done"} /\ call' = call
    BY <1>8 DEF RolledBack, Return, Close, NoTx
  <2>2. CASE d = c
    BY <2>1, <2>2
  <2>3. CASE d # c
    <3>1. d \in Open => Id(d) \in Ids
      BY DEF Request
    <3> QED
      BY <2>1, <2>3, <3>1
  <2> QED
    BY <2>2, <2>3
<1>9. CASE Applied(c)
  <2>1. /\ \A i \in Ids : /\ lock'[i] = IF lock[i] = c THEN None ELSE lock[i]
                        /\ share'[i] = share[i] \ {c}
        /\ tx'[c].gone = {} /\ tx'[c].fresh = {}
        /\ \A q \in Calls \ {c} : tx'[q] = tx[q] /\ pc'[q] = pc[q]
        /\ pc'[c] \in {"report", "done"} /\ call' = call
    BY <1>9 DEF Applied, Apply, Close, NoTx
  <2>2. CASE d = c
    BY <2>1, <2>2
  <2>3. CASE d # c
    <3>1. d \in Open => Id(d) \in Ids
      BY DEF Request
    <3> QED
      BY <2>1, <2>3, <3>1
  <2> QED
    BY <2>2, <2>3
<1>10. CASE Report(c)
  BY <1>10 DEF Report
<1> QED
  BY <1>1, <1>2, <1>3, <1>4, <1>5, <1>6, <1>7, <1>8, <1>9, <1>10 DEF Step

\* What no step of c does: touch another call, change a call that was made, or
\* the tables other than by its commit.
LEMMA Frame ==
    ASSUME Inv, NEW c \in Calls, Step(c)
    PROVE  /\ \A d \in Calls \ {c} : /\ pc'[d] = pc[d] /\ call'[d] = call[d] /\ tx'[d] = tx[d]
                                     /\ answer'[d] = answer[d]
           /\ call[c] # None => call'[c] = call[c]
           /\ pc[c] \in {"report", "done"} => pc'[c] \in {"report", "done"}
           /\ Applied(c) \/ UNCHANGED <<rows, items>>
<1> USE DEF Inv, Shaped, Goto
<1>1. CASE Started(c)
  BY <1>1 DEF Started, LocalTo
<1>2. CASE Moved(c)
  BY <1>2 DEF Moved, LocalTo
<1>3. CASE Created(c)
  BY <1>3 DEF Created, LocalTo
<1>4. CASE Updated(c)
  BY <1>4 DEF Updated, LocalTo
<1>5. CASE Listed(c)
  BY <1>5 DEF Listed, LocalTo
<1>6. CASE RemoveRow(c)
  BY <1>6 DEF RemoveRow, Runs, Locally
<1>7. CASE Cascade(c)
  BY <1>7 DEF Cascade, Runs, Locally
<1>8. CASE RolledBack(c)
  BY <1>8 DEF RolledBack, Return, Close, Open
<1>9. CASE Applied(c)
  BY <1>9 DEF Applied, Apply, Close
<1>10. CASE Report(c)
  BY <1>10 DEF Report
<1> QED
  BY <1>1, <1>2, <1>3, <1>4, <1>5, <1>6, <1>7, <1>8, <1>9, <1>10 DEF Step

\* A call that has been made is there for good, and so is a create that is through.
LEMMA CallsStay ==
    ASSUME Inv, NEW c \in Calls, Step(c)
    PROVE  /\ \A d \in Calls : call[d] # None => call'[d] = call[d]
           /\ \A d \in Calls : \A op : Does(d, op) => Does(d, op)' /\ Id(d)' = Id(d)
           /\ \A i : IsCreated(i) => IsCreated(i)'
           /\ ~Started(c) => call' = call
<1>1. \A d \in Calls : call[d] # None => call'[d] = call[d]
  BY Frame
<1>2. \A d \in Calls : pc[d] \in {"report", "done"} => pc'[d] \in {"report", "done"}
  BY Frame
<1>3. ~Started(c) => call' = call
  BY DEF Step, Moved, Created, Updated, Listed, RemoveRow, Cascade, RolledBack, Return, Applied,
         Report, Locally
<1> QED
  BY <1>1, <1>2, <1>3 DEF Does, Id, IsCreated

\* The new call of a start.
LEMMA StartedRequest ==
    ASSUME Inv, NEW c \in Calls, Started(c)
    PROVE  /\ Does(c, "create")' => Id(c)' \in Ids \ Contract!Used
           /\ Does(c, "update")' \/ Does(c, "delete")' => Id(c)' \in Contract!Known
           /\ call[c] = None /\ pc'[c] \in AfterBegin
           /\ pc'[c] = "hook" <=> Does(c, "create")'
           /\ pc'[c] = "remove" <=> Does(c, "delete")'
<1>1. PICK r \in Contract!Operations, l \in AfterBegin :
          /\ call' = [call EXCEPT ![c] = r] /\ Goto(c, l)
          /\ l = "hook" <=> r.op = "create"
          /\ l = "remove" <=> r.op = "delete"
  BY DEF Started
<1>2. call'[c] = r /\ pc'[c] = l /\ call[c] = None
  BY <1>1 DEF Inv, Shaped, Started, Goto
<1>3. r # None
  BY RequestsAreRequests, NoneAssumption
<1>4. /\ r.op = "create" => r.id \in Ids \ Contract!Used
      /\ r.op \in {"update", "delete"} => r.id \in Contract!Known
  BY DEF Contract!Operations, Contract!Create, Contract!Update, Contract!Delete
<1> QED
  BY <1>1, <1>2, <1>3, <1>4 DEF Does, Id

LEMMA StepNamed ==
    ASSUME Inv, NEW c \in Calls, Step(c), NEW d \in Calls
    PROVE  Named(d)'
<1>1. CASE Started(c)
  <2>1. \A q \in Calls : Does(q, "create") => Id(q) \in Contract!Used
    BY DEF Does, Id, Contract!Used, Contract!Creates
  <2>2. InitialIds \subseteq Contract!Used
    BY DEF Contract!Used
  <2>3. \A q \in Calls \ {c} : call'[q] = call[q]
    BY <1>1, Frame
  <2> QED
    BY <1>1, <2>1, <2>2, <2>3, StartedRequest DEF Inv, Named, Does, Id
<1>2. CASE ~Started(c)
  BY <1>2, CallsStay DEF Inv, Named, Does, Id
<1> QED
  BY <1>1, <1>2

LEMMA KnownIsCreated ==
    ASSUME Inv, NEW i \in Contract!Known
    PROVE  i \in InitialIds \/ IsCreated(i)
<1>1. CASE i \in Ids /\ rows[i] # Absent
  BY <1>1 DEF Inv, Rooted
<1>2. CASE \E d \in Calls : /\ call[d] # None /\ call[d].op = "create" /\ call[d].id = i
                            /\ pc[d] = "report" \/ answer[d] = "ok"
  <2>1. \A d \in Calls : answer[d] = "ok" => pc[d] = "done"
    BY NoneAssumption DEF Inv, Staged
  <2> QED
    BY <1>2, <2>1 DEF IsCreated, Does, Id
<1>3. CASE i \in InitialIds
  BY <1>3
<1> QED
  BY <1>1, <1>2, <1>3 DEF Contract!Known, Contract!Creates, RowOf

LEMMA StepRooted ==
    ASSUME Inv, NEW c \in Calls, Step(c)
    PROVE  Rooted'
<1>1. ASSUME NEW d \in Calls, Does(d, "update")' \/ Does(d, "delete")'
      PROVE  (Id(d) \in InitialIds \/ IsCreated(Id(d)))'
  <2>1. CASE d = c /\ Started(c)
    BY <1>1, <2>1, StartedRequest, KnownIsCreated, CallsStay
  <2>2. CASE ~(d = c /\ Started(c))
    <3>1. call'[d] = call[d]
      BY <2>2, Frame, CallsStay
    <3> QED
      BY <1>1, <3>1, CallsStay DEF Inv, Rooted, Does, Id
  <2> QED
    BY <2>1, <2>2
<1>2. ASSUME NEW i \in Ids, rows'[i] # Absent
      PROVE  i \in InitialIds \/ IsCreated(i)'
  <2>1. CASE rows[i] # Absent
    BY <2>1, CallsStay DEF Inv, Rooted
  <2>2. CASE rows[i] = Absent
    <3>1. Applied(c) /\ lock[i] = c
      BY <1>2, <2>2, Frame DEF Applied, Apply
    <3>2. Does(c, "create") /\ Id(c) = i
      BY <2>2, <3>1 DEF Inv, Rowed, Owned
    <3>3. pc'[c] \in {"report", "done"}
      BY <3>1 DEF Applied, Goto, Inv, Shaped
    <3> QED
      BY <3>2, <3>3, CallsStay DEF IsCreated
  <2> QED
    BY <2>1, <2>2
<1> QED
  BY <1>1, <1>2 DEF Rooted

LEMMA OpenHasId ==
    ASSUME Inv, NEW c \in Calls, call[c] # None
    PROVE  Id(c) \in Ids /\ (Does(c, "create") \/ Does(c, "update") \/ Does(c, "delete"))
  BY DEF Inv, Shaped, Request, Id, Does

\* Until a create has committed no other call knows its row.
LEMMA AloneBeforeCommit ==
    ASSUME Inv, NEW c \in Calls, Does(c, "create"), pc[c] \notin {"report", "done"},
           NEW d \in Calls, d # c, call[d] # None
    PROVE  Id(d) # Id(c)
<1>1. Id(c) \notin InitialIds /\ ~IsCreated(Id(c))
  BY DEF Inv, Named, IsCreated
<1>2. CASE Does(d, "create")
  BY <1>2 DEF Inv, Named
<1>3. CASE Does(d, "update") \/ Does(d, "delete")
  BY <1>1, <1>3 DEF Inv, Rooted
<1> QED
  BY <1>2, <1>3, OpenHasId

\* A step takes no lock from another call, and takes one only of a row that is
\* there or that it inserts.
LEMMA LocksTaken ==
    ASSUME Inv, NEW c \in Calls, Step(c), NEW i \in Ids
    PROVE  /\ \A d \in Calls \ {c} : lock[i] = d <=> lock'[i] = d
           /\ lock'[i] = c /\ lock[i] # c =>
                  /\ i = Id(c) /\ call[c] # None /\ lock[i] = None
                  /\ rows[i] # Absent \/ Created(c)
                  /\ Created(c) \/ Updated(c) \/ RemoveRow(c)
           /\ lock[i] = c => lock'[i] = c \/ RolledBack(c) \/ Applied(c)
<1> USE NoneAssumption DEF Inv, Shaped
<1>1. CASE Created(c)
  <2>1. Does(c, "create") /\ pc[c] = "hook"
    BY <1>1 DEF Created, Staged, Does, Stage
  <2>2. ASSUME NEW d \in Calls, d # c PROVE lock[Id(c)] # d
    <3> SUFFICES ASSUME lock[Id(c)] = d PROVE FALSE
      OBVIOUS
    <3>1. call[c] # None /\ Id(c) \in Ids
      BY <2>1, OpenHasId DEF Does
    <3>2. Id(d) = Id(c) /\ call[d] # None
      BY <3>1 DEF Owned, Open
    <3> QED
      BY <2>1, <2>2, <3>2, AloneBeforeCommit
  <2> QED
    BY <1>1, <2>1, <2>2 DEF Created, Does
<1>2. CASE Updated(c) \/ RemoveRow(c)
  <2>1. LockRow(c) /\ RowHolders(c) = {} /\ call[c] # None
    BY <1>2 DEF Updated, RemoveRow, Runs, WaitsFor
  <2> QED
    BY <1>2, <2>1 DEF LockRow, RowHolders
<1>3. CASE RolledBack(c) \/ Applied(c)
  BY <1>3 DEF RolledBack, Return, Applied, Apply, Close
<1>4. CASE Started(c) \/ Moved(c) \/ Listed(c) \/ Cascade(c) \/ Report(c)
  BY <1>4 DEF Started, Moved, Listed, Cascade, Report
<1> QED
  BY <1>1, <1>2, <1>3, <1>4 DEF Step

LEMMA NewRowType == Assigns(NewRow) /\ DOMAIN NewRow = Cols
  BY HookRowAssumption DEF NewRow, Over, Assigns

LEMMA StepSets ==
    ASSUME Inv, NEW c \in Calls, Step(c)
    PROVE  /\ Assigns(tx[c].sets)'
           /\ Does(c, "create")' /\ c \in Open' /\ pc'[c] # "hook"
                  => DOMAIN tx'[c].sets = Cols /\ lock'[Id(c)'] = c
<1> USE DEF Inv, Rowed
<1>1. CASE Created(c)
  <2>1. call'[c] = call[c] /\ Id(c) \in Ids
    BY <1>1, OpenHasId DEF Created, Shaped
  <2> QED
    BY <1>1, <2>1, NewRowType DEF Created, Id, Shaped
<1>2. CASE Updated(c)
  <2>1. PICK new : tx'[c].sets = Over(new, tx[c].sets) /\ Assigns(new)
    BY <1>2 DEF Updated
  <2>2. Assigns(Over(new, tx[c].sets))
    BY <2>1 DEF Assigns, Over
  <2>3. DOMAIN tx[c].sets = Cols => DOMAIN Over(new, tx[c].sets) = Cols
    BY <2>1 DEF Assigns, Over
  <2>4. call' = call /\ c \in Open /\ pc[c] # "hook"
    BY <1>2 DEF Updated, Open
  <2>5. Does(c, "create") => lock'[Id(c)] = c
    <3>1. Does(c, "create") => Id(c) \in Ids /\ lock[Id(c)] = c
      BY <2>4, OpenHasId DEF Does
    <3> QED
      BY <1>2, <3>1 DEF Updated, LockRow, Shaped
  <2> QED
    BY <2>1, <2>2, <2>3, <2>4, <2>5 DEF Does, Id
<1>3. CASE Moved(c) \/ Listed(c)
  BY <1>3 DEF Moved, Listed, Open, Does, Id
<1>4. CASE Started(c)
  BY <1>4, StartedRequest DEF Started, AfterBegin
<1>5. CASE RemoveRow(c) \/ Cascade(c)
  <2>1. call'[c] = call[c] /\ ~Does(c, "create")
    BY <1>5 DEF RemoveRow, Cascade, Runs, Locally, Staged, Does
  <2>2. tx'[c].sets = tx[c].sets
    BY <1>5 DEF RemoveRow, Cascade, Shaped, NoTx
  <2> QED
    BY <2>1, <2>2 DEF Does
<1>6. CASE RolledBack(c) \/ Applied(c)
  <2>1. tx'[c].sets = <<>>
    BY <1>6, Closed DEF RolledBack, Applied, Return, Apply
  <2>2. pc'[c] \in {"report", "done"}
    BY <1>6 DEF RolledBack, Applied, Return, Shaped, Goto
  <2> QED
    BY <2>1, <2>2 DEF Assigns, Open
<1>7. CASE Report(c)
  BY <1>7 DEF Report, Open, Goto, Shaped
<1> QED
  BY <1>1, <1>2, <1>3, <1>4, <1>5, <1>6, <1>7 DEF Step

\* What a commit makes of the main table.
LEMMA Commits ==
    ASSUME Inv, NEW c \in Calls, Applied(c), NEW i \in Ids
    PROVE  /\ lock[i] # c => rows'[i] = rows[i]
           /\ lock[i] = c => IF Does(c, "delete") THEN rows'[i] = Absent ELSE rows'[i] \in Row
<1>1. rows'[i] = IF lock[i] # c THEN rows[i]
                 ELSE IF call[c].op = "delete" THEN Absent
                 ELSE IF rows[i] = Absent THEN tx[c].sets
                 ELSE Over(tx[c].sets, rows[i])
  BY DEF Applied, Apply
<1>2. call[c] # None /\ pc[c] = "commit" /\ c \in Open
  BY DEF Applied, Inv, Shaped, Open
<1>3. Assigns(tx[c].sets) /\ rows[i] \in Row \cup {Absent}
  BY DEF Inv, Rowed
<1>4. CASE lock[i] = c /\ rows[i] = Absent
  <2>1. Does(c, "create") /\ Id(c) = i
    BY <1>4 DEF Inv, Rowed, Owned
  <2>2. DOMAIN tx[c].sets = Cols
    BY <1>2, <2>1 DEF Inv, Rowed
  <2> QED
    BY <1>1, <1>3, <1>4, <2>1, <2>2 DEF Assigns, Row, Does
<1>5. CASE lock[i] = c /\ rows[i] # Absent
  <2>1. Over(tx[c].sets, rows[i]) \in Row
    BY <1>3, <1>5 DEF Assigns, Row, Over
  <2> QED
    BY <1>1, <1>2, <1>5, <2>1 DEF Does
<1> QED
  BY <1>1, <1>4, <1>5

LEMMA StepRowed ==
    ASSUME Inv, NEW c \in Calls, Step(c)
    PROVE  Rowed'
<1>1. ASSUME NEW i \in Ids PROVE rows'[i] \in Row \cup {Absent}
  BY Frame, Commits DEF Inv, Rowed
<1>2. ASSUME NEW d \in Calls
      PROVE  /\ Assigns(tx[d].sets)'
             /\ d \in Open' /\ Does(d, "create")' /\ pc'[d] # "hook"
                    => lock'[Id(d)'] = d /\ DOMAIN tx'[d].sets = Cols
  <2>1. CASE d = c
    BY <2>1, StepSets
  <2>2. CASE d # c
    <3>1. pc'[d] = pc[d] /\ call'[d] = call[d] /\ tx'[d] = tx[d]
      BY <2>2, Frame
    <3>2. call[d] # None => Id(d) \in Ids
      BY OpenHasId
    <3>3. call[d] # None /\ lock[Id(d)] = d => lock'[Id(d)] = d
      BY <2>2, <3>2, LocksTaken
    <3> QED
      BY <3>1, <3>3 DEF Inv, Rowed, Assigns, Open, Does, Id
  <2> QED
    BY <2>1, <2>2
<1>3. ASSUME NEW i \in Ids, NEW d \in Calls, lock'[i] = d, rows'[i] = Absent
      PROVE  Does(d, "create")'
  <2>1. Applied(c) => lock'[i] # c
    BY NoneAssumption DEF Applied, Apply, Close
  <2>2. CASE rows[i] = Absent /\ lock[i] = d
    BY <2>2, CallsStay DEF Inv, Rowed
  <2>3. CASE rows[i] # Absent
    <3>1. Applied(c) /\ lock[i] = c
      BY <1>3, <2>3, Frame, Commits
    <3> QED
      BY <1>3, <2>1, <3>1, LocksTaken
  <2>4. CASE rows[i] = Absent /\ lock[i] # d
    <3>1. d = c /\ Created(c)
      BY <1>3, <2>4, LocksTaken
    <3>2. Does(c, "create")
      BY <3>1 DEF Created, Inv, Shaped, Staged, Does
    <3> QED
      BY <3>1, <3>2, CallsStay
  <2> QED
    BY <2>2, <2>3, <2>4
<1> QED
  BY <1>1, <1>2, <1>3 DEF Rowed, Open

\* A row that an update or a delete finds gone does not come back.
LEMMA StaysGone ==
    ASSUME Inv, NEW c \in Calls, Step(c), NEW d \in Calls,
           Does(d, "update") \/ Does(d, "delete"), rows[Id(d)] = Absent
    PROVE  rows'[Id(d)] = Absent
<1>1. Id(d) \in Ids
  BY OpenHasId DEF Does
<1>2. CASE Applied(c) /\ lock[Id(d)] = c
  <2>1. Does(c, "create") /\ Id(c) = Id(d) /\ c # d
    BY <1>1, <1>2 DEF Inv, Rowed, Owned, Does
  <2>2. pc[c] = "commit" /\ call[d] # None
    BY <1>2 DEF Applied, Does
  <2> QED
    BY <2>1, <2>2, AloneBeforeCommit
<1>3. CASE ~(Applied(c) /\ lock[Id(d)] = c)
  BY <1>1, <1>3, Frame, Commits
<1> QED
  BY <1>2, <1>3

\* No list row of a row that a delete has locked is on its way.
LEMMA NoneOnTheWay ==
    ASSUME Inv, NEW d \in Calls, Does(d, "delete"), lock[Id(d)] = d, NEW q \in Calls
    PROVE  \A x \in tx[q].fresh : x.owner # Id(d)
  BY DEF Inv, Owned, Emptied

\* List rows that a step adds to those of its own transaction: of a row that is
\* there, or of the row that it creates.
LEMMA ListsGrow ==
    ASSUME Inv, NEW c \in Calls, Step(c)
    PROVE  /\ tx'[c].fresh \subseteq tx[c].fresh \/ Listed(c)
           /\ Listed(c) => \A x \in tx'[c].fresh \ tx[c].fresh :
                  x.owner = Id(c) /\ (rows[Id(c)] # Absent \/ Does(c, "create"))
<1>1. CASE Listed(c)
  <2>1. PICK new : /\ \A x \in new : x.owner = Id(c)
                   /\ new = {} \/ rows[Id(c)] # Absent \/ lock[Id(c)] = c
                   /\ tx'[c].fresh = tx[c].fresh \cup new
    BY <1>1 DEF Listed
  <2>2. call[c] # None /\ Id(c) \in Ids
    BY <1>1, OpenHasId DEF Listed, Inv, Shaped
  <2> QED
    BY <1>1, <2>1, <2>2 DEF Inv, Rowed
<1>2. CASE Started(c) \/ Moved(c) \/ Created(c) \/ Updated(c)
  BY <1>2 DEF Started, Moved, Created, Updated, Listed
<1>3. CASE RemoveRow(c) \/ Report(c)
  BY <1>3 DEF RemoveRow, Report, Runs, Listed
<1>4. CASE Cascade(c)
  BY <1>4 DEF Cascade, Runs, Listed, Inv, Shaped, NoTx
<1>5. CASE RolledBack(c) \/ Applied(c)
  <2>1. tx'[c].fresh = {}
    BY <1>5, Closed DEF RolledBack, Applied, Return, Apply, Inv
  <2>2. pc'[c] \notin AfterSave
    BY <1>5 DEF RolledBack, Applied, Return, Goto, AfterSave, Inv, Shaped
  <2> QED
    BY <2>1
<1> QED
  BY <1>1, <1>2, <1>3, <1>4, <1>5 DEF Step

LEMMA StepNoRowNoLists ==
    ASSUME Inv, NEW c \in Calls, Step(c), NEW i \in Ids, rows'[i] = Absent
    PROVE  /\ \A x \in items' : x.owner # i
           /\ \A d \in Calls : \A x \in tx'[d].fresh : x.owner = i => Does(d, "create")'
<1>1. CASE rows[i] # Absent
  <2>1. Applied(c) /\ lock[i] = c
    BY <1>1, Frame, Commits
  <2>2. Does(c, "delete") /\ Id(c) = i
    BY <2>1, Commits, AbsentAssumption DEF Inv, Owned
  <2>3. pc[c] = "commit" /\ items' = (items \ tx[c].gone) \cup tx[c].fresh
    BY <2>1 DEF Applied, Apply
  <2>4. \A x \in items' : x.owner # i
    BY <1>1, <2>2, <2>3 DEF Inv, Emptied
  <2>5. \A d \in Calls \ {c} : \A x \in tx'[d].fresh : x.owner # i
    BY <2>1, <2>2, Frame, NoneOnTheWay
  <2>6. tx'[c].fresh = {}
    BY <2>1 DEF Applied, Apply, Close, Inv, Shaped, NoTx
  <2> QED
    BY <2>4, <2>5, <2>6
<1>2. CASE rows[i] = Absent
  <2>1. \A x \in items' : x.owner # i
    <3>1. CASE Applied(c)
      <4> SUFFICES ASSUME NEW x \in tx[c].fresh, x.owner = i PROVE FALSE
        BY <1>2, <3>1 DEF Applied, Apply, Inv, Emptied
      <4>1. Does(c, "create") /\ Id(c) = i
        BY <1>2 DEF Inv, Emptied, Owned
      <4>2. lock[i] = c
        BY <3>1, <4>1 DEF Inv, Rowed, Applied, Open
      <4> QED
        BY <3>1, <4>1, <4>2, Commits, AbsentAssumption DEF Does
    <3>2. CASE ~Applied(c)
      BY <1>2, <3>2, Frame DEF Inv, Emptied
    <3> QED
      BY <3>1, <3>2
  <2>2. ASSUME NEW d \in Calls, NEW x \in tx'[d].fresh, x.owner = i
        PROVE  Does(d, "create")'
    <3>1. CASE x \in tx[d].fresh
      BY <1>2, <2>2, <3>1, CallsStay DEF Inv, Emptied
    <3>2. CASE x \notin tx[d].fresh
      <4>1. d = c
        BY <2>2, <3>2, Frame
      <4> QED
        BY <1>2, <2>2, <3>2, <4>1, ListsGrow, CallsStay
    <3> QED
      BY <3>1, <3>2
  <2> QED
    BY <2>1, <2>2
<1> QED
  BY <1>1, <1>2

\* Of a delete that is not c's.
LEMMA OthersDelete ==
    ASSUME Inv, NEW c \in Calls, Step(c), NEW d \in Calls, d # c, Does(d, "delete")
    PROVE  /\ tx'[d].fresh = {} /\ \A i \in Ids : d \notin share'[i]
           /\ lock'[Id(d)] = d => share'[Id(d)] = {}
           /\ pc'[d] = "cascade" => lock'[Id(d)] = d
           /\ pc'[d] = "commit" =>
                  \/ rows'[Id(d)] = Absent
                  \/ lock'[Id(d)] = d /\ \A x \in items' : x.owner = Id(d) => x \in tx'[d].gone
           /\ pc'[d] = "done" /\ answer'[d] = "ok" => rows'[Id(d)] = Absent
<1>1. Id(d) \in Ids
  BY OpenHasId DEF Does
<1>2. pc'[d] = pc[d] /\ tx'[d] = tx[d] /\ answer'[d] = answer[d]
  BY Frame
<1>3. lock[Id(d)] = d <=> lock'[Id(d)] = d
  BY <1>1, LocksTaken
<1>4. \A i \in Ids : share'[i] \subseteq share[i] \cup {c}
  BY DEF Step, Started, Moved, Created, Updated, Listed, RemoveRow, Cascade, RolledBack, Return,
         Applied, Apply, Close, Report, Inv, Shaped
<1>5. lock[Id(d)] = d => share'[Id(d)] = {}
  <2> SUFFICES ASSUME lock[Id(d)] = d PROVE share'[Id(d)] = {}
    OBVIOUS
  <2>1. share[Id(d)] = {}
    BY DEF Inv, Emptied
  <2>2. CASE Listed(c) /\ Id(c) = Id(d)
    <3>1. rows[Id(d)] # Absent
      BY <1>1 DEF Inv, Rowed, Does
    <3>2. d \in RowHolders(c)
      BY <2>2, <3>1, NoneAssumption DEF RowHolders
    <3> QED
      BY <2>2, <3>2 DEF Listed, Does
  <2>3. CASE ~(Listed(c) /\ Id(c) = Id(d))
    <3>1. share'[Id(d)] \subseteq share[Id(d)]
      BY <1>1, <2>3 DEF Step, Started, Moved, Created, Updated, Listed, RemoveRow, Cascade,
                        RolledBack, Return, Applied, Apply, Close, Report, Inv, Shaped
    <3> QED
      BY <2>1, <3>1
  <2> QED
    BY <2>2, <2>3
<1>6. rows[Id(d)] = Absent => rows'[Id(d)] = Absent
  BY StaysGone
<1>7. lock[Id(d)] = d => \A x \in items' : x.owner = Id(d) => x \in items
  <2>1. Applied(c) => items' = (items \ tx[c].gone) \cup tx[c].fresh
    BY DEF Applied, Apply
  <2> QED
    BY <2>1, NoneOnTheWay, Frame
<1> QED
  BY <1>1, <1>2, <1>3, <1>4, <1>5, <1>6, <1>7 DEF Inv, Emptied

\* Of the delete that takes the step.
LEMMA OwnDelete ==
    ASSUME Inv, NEW c \in Calls, Step(c), Does(c, "delete")'
    PROVE  /\ tx'[c].fresh = {} /\ \A i \in Ids : c \notin share'[i]
           /\ lock'[Id(c)'] = c => share'[Id(c)'] = {}
           /\ pc'[c] = "cascade" => lock'[Id(c)'] = c
           /\ pc'[c] = "commit" =>
                  \/ rows'[Id(c)'] = Absent
                  \/ lock'[Id(c)'] = c /\ \A x \in items' : x.owner = Id(c)' => x \in tx'[c].gone
           /\ pc'[c] = "done" /\ answer'[c] = "ok" => rows'[Id(c)'] = Absent
<1>1. CASE Started(c)
  <2>1. pc[c] = "idle" /\ c \notin Open
    BY <1>1 DEF Started, Open
  <2>2. tx'[c].fresh = {} /\ \A i \in Ids : c \notin share'[i] /\ lock'[i] # c
    BY <1>1, <2>1 DEF Started, Inv, Owned
  <2>3. pc'[c] \in AfterBegin
    BY <1>1, StartedRequest
  <2>4. Id(c)' \in Ids
    <3>1. call'[c] \in Request
      BY <1>1, RequestsAreRequests DEF Started, Inv, Shaped
    <3> QED
      BY <3>1 DEF Id, Request
  <2> QED
    BY <2>2, <2>3, <2>4 DEF AfterBegin
<1>2. CASE ~Started(c)
  <2>1. Does(c, "delete") /\ Id(c)' = Id(c) /\ Id(c) \in Ids
    BY <1>2, CallsStay, OpenHasId DEF Does, Id
  <2>2. tx[c].fresh = {} /\ \A i \in Ids : c \notin share[i]
    BY <2>1 DEF Inv, Emptied
  <2>3. CASE RemoveRow(c)
    <3>1. /\ UNCHANGED <<rows, items, share, tx, answer>>
          /\ share[Id(c)] \ {c} = {}
      BY <2>3 DEF RemoveRow, Runs, WaitsFor, Locally
    <3>2. rows[Id(c)] # Absent => lock'[Id(c)] = c
      BY <2>1, <2>3 DEF RemoveRow, LockRow, Inv, Shaped
    <3>3. pc'[c] = IF rows[Id(c)] = Absent THEN "commit" ELSE "cascade"
      BY <2>3 DEF RemoveRow, Goto, Inv, Shaped
    <3> QED
      BY <2>1, <2>2, <3>1, <3>2, <3>3
  <2>4. CASE Cascade(c)
    <3>1. lock[Id(c)] = c /\ share[Id(c)] = {}
      BY <2>1, <2>4 DEF Cascade, Runs, Inv, Emptied
    <3>2. /\ UNCHANGED <<items, lock, share>>
          /\ tx'[c].gone = {x \in items : x.owner = Id(c)} /\ tx'[c].fresh = tx[c].fresh
          /\ pc'[c] = "commit"
      BY <2>4 DEF Cascade, Runs, Locally, Goto, Inv, Shaped, NoTx
    <3> QED
      BY <2>1, <2>2, <3>1, <3>2
  <2>5. CASE RolledBack(c)
    <3>1. /\ \A i \in Ids : lock'[i] # c /\ c \notin share'[i]
          /\ tx'[c].fresh = {} /\ pc'[c] = "done"
      BY <2>5, NoneAssumption DEF RolledBack, Return, Close, Goto, Inv, Shaped, NoTx
    <3>2. answer'[c] # "ok"
      <4>1. pc[c] # "exists"
        BY <2>1 DEF Inv, Staged, Does
      <4> QED
        BY <2>5, <4>1 DEF RolledBack, Return, Inv, Shaped
    <3> QED
      BY <2>1, <3>1, <3>2
  <2>6. CASE Applied(c)
    <3>1. /\ \A i \in Ids : lock'[i] # c /\ c \notin share'[i]
          /\ tx'[c].fresh = {} /\ pc'[c] = "done"
      BY <2>1, <2>6, NoneAssumption
         DEF Applied, Apply, Close, Goto, Inv, Shaped, NoTx, Does
    <3>2. rows'[Id(c)] = Absent
      <4>1. pc[c] = "commit"
        BY <2>6 DEF Applied
      <4> QED
        BY <2>1, <2>6, <4>1, Commits DEF Inv, Emptied
    <3> QED
      BY <2>1, <3>1, <3>2
  <2>7. ~Moved(c) /\ ~Created(c) /\ ~Updated(c) /\ ~Listed(c) /\ ~Report(c)
    BY <2>1 DEF Moved, Created, Updated, Listed, Report, Inv, Staged, Does
  <2> QED
    BY <1>2, <2>3, <2>4, <2>5, <2>6, <2>7 DEF Step
<1> QED
  BY <1>1, <1>2

LEMMA StepEmptied ==
    ASSUME Inv, NEW c \in Calls, Step(c)
    PROVE  Emptied'
<1>1. ASSUME NEW d \in Calls, Does(d, "delete")', d # c
      PROVE  Does(d, "delete") /\ Id(d)' = Id(d)
  BY <1>1, Frame DEF Does, Id
<1> QED
  BY <1>1, StepNoRowNoLists, OthersDelete, OwnDelete DEF Emptied

LEMMA StepInv ==
    ASSUME Inv, NEW c \in Calls, Step(c)
    PROVE  Inv'
  BY StepShaped, StepStaged, StepOwned, StepNamed, StepRooted, StepRowed, StepEmptied DEF Inv

LEMMA InitInv == Init => Inv
<1> SUFFICES ASSUME Init PROVE Inv
  OBVIOUS
<1>1. Shaped
  BY DEF Init, Shaped, Stage, NoTx
<1>2. ASSUME NEW c \in Calls
      PROVE  Staged(c) /\ Owned(c) /\ Named(c) /\ call[c] = None /\ c \notin Open
  BY <1>2, NoneAssumption DEF Init, Staged, Owned, Named, NoTx, Open, Does
<1>3. ASSUME NEW i \in InitialIds
      PROVE  rows[i] \in Row
  <2>1. Assigns(NewRow) /\ DOMAIN NewRow = Cols
    BY NewRowType
  <2>2. Assigns(Columns(Written(Seed)))
    BY WrittenColumns DEF Columns, Assigns
  <2>3. rows[i] = Over(Columns(Written(Seed)), NewRow)
    BY IdsAssumption DEF Init
  <2> QED
    BY <2>1, <2>2, <2>3 DEF Over, Assigns, Row
<1>4. \A i \in Ids \ InitialIds : rows[i] = Absent
  BY DEF Init
<1>5. \A c \in Calls : tx[c].sets = <<>> /\ tx[c].fresh = {}
  BY DEF Init, NoTx
<1>6. Rooted
  BY <1>2, <1>4 DEF Rooted, Does
<1>7. Rowed
  <2>1. \A i \in Ids : rows[i] \in Row \cup {Absent}
    BY <1>3, <1>4
  <2>2. Assigns(<<>>)
    BY DEF Assigns
  <2>3. \A c \in Calls : Assigns(tx[c].sets)
    BY <1>5, <2>2
  <2>4. \A i \in Ids, c \in Calls : lock[i] # c
    BY NoneAssumption DEF Init
  <2> QED
    BY <1>2, <2>1, <2>3, <2>4 DEF Rowed, Open
<1>8. \A x \in items : x.owner \in InitialIds
  BY DEF Init
<1>9. Emptied
  BY <1>2, <1>3, <1>5, <1>8, AbsentAssumption DEF Emptied, Does
<1> QED
  BY <1>1, <1>2, <1>6, <1>7, <1>9 DEF Inv

LEMMA NextInv == Inv /\ [Next]_vars => Inv'
<1>1. ASSUME Inv, UNCHANGED vars PROVE Inv'
  BY <1>1 DEF vars, Inv, Shaped, Staged, Owned, Named, Rooted, Rowed, Emptied, Open, Does, Id,
              In, IsCreated
<1> QED
  BY <1>1, StepActs, StepInv

LEMMA Invariance == Spec => []Inv
  BY InitInv, NextInv, PTL DEF Spec
-------------------------------------------------------------------------------
\* The deferred Rollback covers every return: a call that is not running holds no
\* lock that another could wait for, and has no uncommitted list rows.
THEOREM NothingIsHeld == Spec => []ReturnedHoldsNothing
<1>1. Inv => ReturnedHoldsNothing
  BY DEF Inv, Owned, ReturnedHoldsNothing
<1> QED
  BY <1>1, Invariance, PTL

\* What Delete has answered for stays deleted, whatever saves of the row are still
\* under way with what they read before.
THEOREM DeletedStaysDeleted == Spec => []NoResurrection
<1>1. Inv => NoResurrection
  <2> SUFFICES ASSUME Inv, NEW c \in Calls, pc[c] = "done", answer[c] = "ok",
                      call[c].op = "delete"
               PROVE  rows[Id(c)] = Absent /\ \A x \in items : x.owner # Id(c)
    BY DEF NoResurrection
  <2>1. Does(c, "delete") /\ Id(c) \in Ids
    BY OpenHasId DEF Inv, Shaped, Does
  <2> QED
    BY <2>1 DEF Inv, Emptied
<1> QED
  BY <1>1, Invariance, PTL
-------------------------------------------------------------------------------
(* A report means a commit, an error a rollback.                            *)

\* A call has an effect from its commit on, and is reported only then.
Told(c) == /\ c \in DOMAIN effect => pc[c] \in {"report", "done"}
           /\ pc[c] = "report" => c \in DOMAIN effect
           /\ report[c] # None => c \in DOMAIN effect /\ pc[c] = "done" /\ answer[c] = "ok"
           /\ answer[c] \in {"notfound", "conflict"} \/ (answer[c] = "err" /\ ~LossyCommit)
                  => c \notin DOMAIN effect
Seen == \A x \in items : x.by # None => x.by \in DOMAIN effect

CommitInv == Inv /\ Seen /\ \A c \in Calls : Told(c)

LEMMA InitTold == Init => CommitInv
<1> SUFFICES ASSUME Init PROVE Seen /\ \A c \in Calls : Told(c)
  BY InitInv DEF CommitInv
<1>1. Seen
  BY DEF Init, Seen
<1>2. \A c \in Calls : Told(c)
  BY NoneAssumption DEF Init, Told
<1> QED
  BY <1>1, <1>2

LEMMA StepSeen ==
    ASSUME CommitInv, NEW c \in Calls, Step(c)
    PROVE  Seen'
<1>1. CASE Applied(c)
  <2>1. items' = (items \ tx[c].gone) \cup tx[c].fresh
    BY <1>1 DEF Applied, Apply
  <2>2. DOMAIN effect' = DOMAIN effect \cup {c}
    BY <1>1 DEF Applied, Apply, Over
  <2>3. \A x \in tx[c].fresh : x.by = c
    BY DEF CommitInv, Inv, Owned
  <2> QED
    BY <2>1, <2>2, <2>3 DEF CommitInv, Seen
<1>2. CASE ~Applied(c)
  <2>1. UNCHANGED <<items, effect>>
    BY <1>2 DEF Step, Started, Moved, Created, Updated, Listed, RemoveRow, Cascade, RolledBack,
                Return, Report, Locally
  <2> QED
    BY <2>1 DEF CommitInv, Seen
<1> QED
  BY <1>1, <1>2

LEMMA StepTold ==
    ASSUME CommitInv, NEW c \in Calls, Step(c), NEW d \in Calls
    PROVE  Told(d)'
<1> USE DEF CommitInv, Inv, Shaped, Told, Goto
<1>1. CASE Applied(c)
  <2>1. pc[c] = "commit" /\ DOMAIN effect' = DOMAIN effect \cup {c} /\ UNCHANGED report
    BY <1>1 DEF Applied, Apply, Over
  <2>2. report[c] = None /\ answer[c] = None
    BY <2>1, NoneAssumption DEF Staged
  <2>3. CASE d # c
    BY <1>1, <2>1, <2>3 DEF Applied
  <2>4. CASE d = c
    <3>1. CASE Goto(c, "report") /\ UNCHANGED answer
      BY <2>1, <2>2, <2>4, <3>1, NoneAssumption
    <3>2. CASE Goto(c, "done") /\ \E a \in AfterCommit : answer' = [answer EXCEPT ![c] = a]
      BY <2>1, <2>2, <2>4, <3>2 DEF AfterCommit
    <3> QED
      BY <1>1, <3>1, <3>2 DEF Applied
  <2> QED
    BY <2>3, <2>4
<1>2. CASE Report(c)
  BY <1>2 DEF Report
<1>3. CASE RolledBack(c)
  BY <1>3 DEF RolledBack, Return, Open
<1>4. CASE ~Applied(c) /\ ~Report(c) /\ ~RolledBack(c)
  <2>1. UNCHANGED <<answer, report, effect>>
    BY <1>4 DEF Step, Started, Moved, Created, Updated, Listed, RemoveRow, Cascade, Locally
  <2>2. /\ \A q \in Calls \ {c} : pc'[q] = pc[q]
        /\ pc[c] \notin {"report", "done"} /\ pc'[c] \notin {"report", "done"}
    BY <1>4 DEF Step, Started, AfterBegin, Moved, Created, Updated, Listed, AfterSave, RemoveRow,
                Cascade, Runs
  <2> QED
    BY <2>1, <2>2
<1> QED
  BY <1>1, <1>2, <1>3, <1>4

LEMMA CommitInvStays == CommitInv /\ [Next]_vars => CommitInv'
<1> SUFFICES ASSUME CommitInv, [Next]_vars PROVE CommitInv'
  OBVIOUS
<1>1. CASE UNCHANGED vars
  <2>1. Inv'
    BY NextInv DEF CommitInv
  <2> QED
    BY <1>1, <2>1 DEF vars, CommitInv, Seen, Told
<1>2. ASSUME NEW c \in Calls, Step(c) PROVE CommitInv'
  BY <1>2, StepInv, StepSeen, StepTold DEF CommitInv
<1> QED
  BY <1>1, <1>2, StepActs DEF CommitInv

\* store.go:45, "after a successful commit": what is reported has been committed, and a
\* call that returns an error has left nothing behind.
THEOREM ErrorsLeaveNothing == Spec => []OnlyCommitsShow
<1>1. CommitInv /\ [Next]_vars => CommitInv'
  BY CommitInvStays
<1>2. CommitInv => OnlyCommitsShow
  BY DEF CommitInv, Seen, Told, OnlyCommitsShow
<1> QED
  BY <1>1, <1>2, InitTold, PTL DEF Spec
-------------------------------------------------------------------------------
(* Type correctness.  Beyond Inv it takes what Save has computed from the  *)
(* body: the deferred fields it has still to write are fields of a body,   *)
(* and the one it is replacing is a list, sent as a list.                  *)

\* The step of a body that replaces a list.
Replaces(in, s) == s[1] \in Lists /\ Parses(s[1], in[s[1]]) /\ s[2] # Reread

\* What a transaction has read, has still to write and has written.
Typed(c) ==
    /\ DOMAIN tx[c].before \subseteq Fields
    /\ tx[c].unread \subseteq Lists
    /\ tx[c].snap \subseteq Item /\ tx[c].gone \subseteq Item /\ tx[c].fresh \subseteq Item
    /\ DOMAIN tx[c].echo \subseteq Lists
    /\ tx[c].todo # {} => In(c) \in Payloads /\ tx[c].todo \subseteq Steps(In(c))
    /\ pc[c] \in {"replace", "insert"} =>
           \A s \in tx[c].todo : Due(tx[c].todo, s) => Replaces(In(c), s)

Answers == {None, "ok", "notfound", "conflict", "err"}

TypeInv == /\ Inv
           /\ rows \in [Ids -> Row \cup {Absent}]
           /\ items \subseteq Item
           /\ answer \in [Calls -> Answers]
           /\ \A c \in Calls : Typed(c)
-------------------------------------------------------------------------------
LEMMA DeferredFields == \A in : Deferred(in) \subseteq Fields
  BY DEF Deferred, Fields, Cols

LEMMA AssignedFields == \A in : Assignments(in) \subseteq Fields
  BY DEF Assignments, Fields, Cols

\* A step is a field of the body and a key, of a list that is replaced one it
\* was sent under.
LEMMA StepsType ==
    ASSUME NEW in \in Payloads, NEW s \in Steps(in)
    PROVE  /\ s \in Fields \X (Parts \cup {Reread})
           /\ s[1] \in DOMAIN in
           /\ s[2] = Reread => s[1] \in Lists
           /\ Replaces(in, s) => s[2] \in Parts /\ s[2] \in Sent(s[1], in[s[1]])
<1>1. PICK f \in Deferred(in) : s \in StepsOf(f, in[f])
  BY DEF Steps
<1>2. f \in DOMAIN in /\ f \in Fields
  BY DeferredFields DEF Deferred
<1>3. CASE f \in Lists /\ Parses(f, in[f])
  <2>1. PICK key \in Sent(f, in[f]) \cup {Reread} : s = <<f, key>>
    BY <1>1, <1>3 DEF StepsOf
  <2>2. Sent(f, in[f]) \subseteq Parts
    BY <1>2, <1>3, PayloadAssumption DEF Sent, Parts, Parses, NoList
  <2> QED
    BY <1>2, <1>3, <2>1, <2>2 DEF Replaces
<1>4. CASE ~(f \in Lists /\ Parses(f, in[f]))
  <2>1. s = <<f, Whole>>
    BY <1>1, <1>4 DEF StepsOf
  <2> QED
    BY <1>2, <1>4, <2>1, KeyRankAssumption DEF Replaces, Parts
<1> QED
  BY <1>3, <1>4

\* The step that is due is one.
LEMMA OneDue ==
    ASSUME NEW S \in SUBSET (Fields \X (Parts \cup {Reread})),
           NEW s, NEW t, Due(S, s), Due(S, t)
    PROVE  s = t
<1>1. s \in Fields \X (Parts \cup {Reread}) /\ t \in Fields \X (Parts \cup {Reread})
  BY DEF Due
<1>2. /\ Rank[s[1]] < Rank[t[1]] \/ (s[1] = t[1] /\ KeyRank[s[2]] <= KeyRank[t[2]])
      /\ Rank[t[1]] < Rank[s[1]] \/ (t[1] = s[1] /\ KeyRank[t[2]] <= KeyRank[s[2]])
  BY DEF Due
<1>3. /\ Rank[s[1]] \in Nat /\ Rank[t[1]] \in Nat
      /\ KeyRank[s[2]] \in Nat /\ KeyRank[t[2]] \in Nat
  BY <1>1, RankAssumption, KeyRankAssumption
<1>4. s[1] = t[1] /\ KeyRank[s[2]] = KeyRank[t[2]]
  BY <1>2, <1>3
<1>5. s[2] = t[2]
  BY <1>1, <1>4, KeyRankAssumption
<1> QED
  BY <1>1, <1>4, <1>5

\* A list is written as triples of its key, a position and a value.
LEMMA PartRowsType ==
    ASSUME NEW l \in Lists, NEW key \in Parts, NEW s \in Seq(Values \cup {Bad})
    PROVE  PartRows(l, key, s) \subseteq Parts \X Nat \X Values
<1> DEFINE e == Elements(l, s)
<1>1. e \in Seq(Values \cup {Bad})
  <2>1. CASE l \in Resolves
    <3>1. e = [j \in DOMAIN s |-> Resolve[s[j]]]
      BY <2>1 DEF Elements
    <3>2. Len(s) \in Nat /\ DOMAIN s = 1..Len(s)
      OBVIOUS
    <3>3. \A j \in 1..Len(s) : s[j] \in Values \cup {Bad}
      OBVIOUS
    <3>4. \A j \in 1..Len(s) : Resolve[s[j]] \in Values \cup {Bad}
      BY <3>3, ListsAssumption
    <3>5. [j \in 1..Len(s) |-> Resolve[s[j]]] \in Seq(Values \cup {Bad})
      BY <3>2, <3>4
    <3> QED
      BY <3>1, <3>2, <3>5
  <2>2. CASE l \notin Resolves
    BY <2>2 DEF Elements
  <2> QED
    BY <2>1, <2>2
<1>2. PartRows(l, key, s) = {<<key, Position(l, e, j), e[j]>> : j \in Kept(l, e)}
  BY DEF PartRows
<1> HIDE DEF e
<1>3. ASSUME NEW j \in Kept(l, e)
      PROVE  e[j] \in Values /\ Position(l, e, j) \in Nat
  <2>1. e[j] \in Values
    BY <1>1, <1>3 DEF Kept
  <2>2. {h \in Kept(l, e) : h < j} \subseteq 1..Len(e) /\ Len(e) \in Nat
    BY <1>1 DEF Kept
  <2>3. IsFiniteSet(1..Len(e))
    BY <2>2, FS_Interval
  <2>4. IsFiniteSet({h \in Kept(l, e) : h < j})
    BY <2>2, <2>3, FS_Subset
  <2>5. Cardinality({h \in Kept(l, e) : h < j}) \in Nat
    BY <2>4, FS_CardinalityType
  <2> QED
    BY <2>1, <2>5 DEF Position
<1> QED
  BY <1>2, <1>3

\* What was sent under a key of a list that parses is a sequence.
LEMMA SentIsList ==
    ASSUME NEW in \in Payloads \cup {Seed}, NEW l \in Lists, l \in DOMAIN in, Parses(l, in[l]),
           NEW key \in Sent(l, in[l])
    PROVE  key \in Parts /\ ListAt(l, in[l], key) \in Seq(Values \cup {Bad})
<1>1. CASE l \in Keyed
  BY <1>1, PayloadAssumption DEF Sent, ListAt, Parts, Parses, NoList
<1>2. CASE l \notin Keyed
  BY <1>2, PayloadAssumption DEF Sent, ListAt, Parts, Parses, NoList
<1> QED
  BY <1>1, <1>2

LEMMA ListRowsType ==
    ASSUME NEW in \in Payloads \cup {Seed}, NEW l \in Lists, l \in DOMAIN in, Parses(l, in[l])
    PROVE  ListRows(l, in[l]) \subseteq Parts \X Nat \X Values
  BY SentIsList, PartRowsType DEF ListRows
-------------------------------------------------------------------------------
(* What each statement does to the types of its own transaction.            *)

LEMMA StartTypes ==
    ASSUME TypeInv, NEW c \in Calls, Start(c)
    PROVE  Typed(c)'
<1>1. PICK r \in Contract!Operations :
         /\ call' = [call EXCEPT ![c] = r]
         /\ tx' = [tx EXCEPT ![c].todo = IF r.op = "delete" THEN {} ELSE Steps(r.in)]
         /\ Goto(c, CASE r.op = "create" -> "hook"
                      [] r.op = "delete" -> "remove"
                      [] r.op = "update" -> IF Assignments(r.in) = {} /\ Deferred(r.in) = {}
                                            THEN "exists" ELSE "before")
  BY DEF Start
<1>2. tx'[c] = [tx[c] EXCEPT !.todo = IF r.op = "delete" THEN {} ELSE Steps(r.in)]
  BY <1>1 DEF TypeInv, Inv, Shaped
<1>3. /\ tx'[c].before = tx[c].before /\ tx'[c].unread = tx[c].unread
      /\ tx'[c].snap = tx[c].snap /\ tx'[c].gone = tx[c].gone /\ tx'[c].fresh = tx[c].fresh
      /\ tx'[c].todo = IF r.op = "delete" THEN {} ELSE Steps(r.in)
      /\ tx'[c].echo = tx[c].echo
  BY <1>2 DEF TypeInv, Inv, Shaped, NoTx
<1>4. pc'[c] \notin {"replace", "insert"}
  <2>1. Started(c)
    BY StartShape DEF TypeInv, Inv
  <2> QED
    BY <2>1 DEF Started, AfterBegin, TypeInv, Inv, Shaped, Goto
<1>5. tx'[c].todo # {} => In(c)' \in Payloads /\ tx'[c].todo \subseteq Steps(In(c)')
  BY <1>1, <1>3, RequestType DEF TypeInv, Inv, Shaped, In
<1> QED
  BY <1>3, <1>4, <1>5 DEF TypeInv, Typed

LEMMA ReadTypes ==
    ASSUME TypeInv, NEW c \in Calls,
           \/ ReadBefore(c) /\ rows[Id(c)] # Absent
           \/ ReadBeforeList(c)
    PROVE  Typed(c)'
<1>1. PICK b, u : /\ tx' = [tx EXCEPT ![c].before = b, ![c].unread = u]
                  /\ DOMAIN b \subseteq Fields /\ u \subseteq Lists
  <2>1. CASE ReadBefore(c) /\ rows[Id(c)] # Absent
    <3> DEFINE keys == Assignments(In(c)) \cup Deferred(In(c))
               b == [f \in keys \ Lists |-> rows[Id(c)][f]]
    <3>1. tx' = [tx EXCEPT ![c].before = b, ![c].unread = keys \cap Lists]
      BY <2>1 DEF ReadBefore
    <3>2. DOMAIN b \subseteq Fields
      BY DeferredFields, AssignedFields
    <3> QED
      BY <3>1, <3>2
  <2>2. CASE ReadBeforeList(c)
    <3>1. PICK l \in tx[c].unread :
             tx' = [tx EXCEPT ![c].before = Over([k \in {l} |-> ItemsOf(Id(c), l)], @),
                              ![c].unread = tx[c].unread \ {l}]
      BY <2>2 DEF ReadBeforeList
    <3> DEFINE b == Over([k \in {l} |-> ItemsOf(Id(c), l)], tx[c].before)
    <3>2. DOMAIN b \subseteq Fields
      BY DEF TypeInv, Typed, Over, Fields
    <3>3. tx' = [tx EXCEPT ![c].before = b, ![c].unread = tx[c].unread \ {l}]
      BY <3>1
    <3>4. tx[c].unread \ {l} \subseteq Lists
      BY DEF TypeInv, Typed
    <3> QED
      BY <3>2, <3>3, <3>4
  <2> QED
    BY <2>1, <2>2
<1>2. tx'[c] = [tx[c] EXCEPT !.before = b, !.unread = u]
  BY <1>1 DEF TypeInv, Inv, Shaped
<1>3. /\ tx'[c].before = b /\ tx'[c].unread = u /\ tx'[c].todo = tx[c].todo
      /\ tx'[c].snap = tx[c].snap /\ tx'[c].gone = tx[c].gone /\ tx'[c].fresh = tx[c].fresh
      /\ tx'[c].echo = tx[c].echo
  BY <1>2 DEF TypeInv, Inv, Shaped, NoTx
<1>4. UNCHANGED call /\ pc'[c] \notin {"replace", "insert"}
  BY DEF ReadBefore, ReadBeforeList, Locally, Goto, TypeInv, Inv, Shaped
<1> QED
  BY <1>1, <1>3, <1>4 DEF TypeInv, Typed, In

LEMMA ResolveTypes ==
    ASSUME TypeInv, NEW c \in Calls, ResolveDeferred(c)
    PROVE  Typed(c)'
<1>1. PICK f : tx' = [tx EXCEPT ![c].todo = tx[c].todo \ {f}]
  BY DEF ResolveDeferred
<1>2. tx'[c] = [tx[c] EXCEPT !.todo = tx[c].todo \ {f}]
  BY <1>1 DEF TypeInv, Inv, Shaped
<1>3. /\ tx'[c].before = tx[c].before /\ tx'[c].unread = tx[c].unread
      /\ tx'[c].todo = tx[c].todo \ {f}
      /\ tx'[c].snap = tx[c].snap /\ tx'[c].gone = tx[c].gone /\ tx'[c].fresh = tx[c].fresh
      /\ tx'[c].echo = tx[c].echo
  BY <1>2 DEF TypeInv, Inv, Shaped, NoTx
<1>4. UNCHANGED call /\ pc'[c] \notin {"replace", "insert"}
  BY DEF ResolveDeferred, AfterDeferred, Locally, Goto, TypeInv, Inv, Shaped
<1> QED
  BY <1>3, <1>4 DEF TypeInv, Typed, In

LEMMA ReplaceTypes ==
    ASSUME TypeInv, NEW c \in Calls, StartReplace(c) \/ FinishReplace(c)
    PROVE  Typed(c)'
<1>1. CASE StartReplace(c)
  <2>1. PICK s \in tx[c].todo :
           /\ Due(tx[c].todo, s) /\ Replaces(In(c), s)
           /\ tx' = [tx EXCEPT ![c].snap = ItemsAt(Id(c), s[1], s[2])]
    BY <1>1 DEF StartReplace, Replaces
  <2>2. tx'[c] = [tx[c] EXCEPT !.snap = ItemsAt(Id(c), s[1], s[2])]
    BY <2>1 DEF TypeInv, Inv, Shaped
  <2>3. /\ tx'[c].before = tx[c].before /\ tx'[c].unread = tx[c].unread
        /\ tx'[c].todo = tx[c].todo /\ tx'[c].snap = ItemsAt(Id(c), s[1], s[2])
        /\ tx'[c].gone = tx[c].gone /\ tx'[c].fresh = tx[c].fresh
        /\ tx'[c].echo = tx[c].echo
    BY <2>2 DEF TypeInv, Inv, Shaped, NoTx
  <2>4. tx[c].todo \in SUBSET (Fields \X (Parts \cup {Reread}))
    BY StepsType DEF TypeInv, Typed
  <2>5. \A t \in tx[c].todo : Due(tx[c].todo, t) => Replaces(In(c), t)
    BY <2>1, <2>4, OneDue DEF Replaces
  <2>6. ItemsAt(Id(c), s[1], s[2]) \subseteq Item
    BY DEF ItemsAt, ItemsOf, TypeInv
  <2>7. UNCHANGED call
    BY <1>1 DEF StartReplace, Locally
  <2> QED
    BY <2>3, <2>5, <2>6, <2>7 DEF TypeInv, Typed, In
<1>2. CASE FinishReplace(c)
  <2>1. tx'[c] = [tx[c] EXCEPT !.gone = @ \cup (tx[c].snap \cap items), !.snap = {}]
    BY <1>2 DEF FinishReplace, TypeInv, Inv, Shaped
  <2>2. /\ tx'[c].before = tx[c].before /\ tx'[c].unread = tx[c].unread
        /\ tx'[c].todo = tx[c].todo /\ tx'[c].snap = {}
        /\ tx'[c].gone = tx[c].gone \cup (tx[c].snap \cap items)
        /\ tx'[c].fresh = tx[c].fresh /\ tx'[c].echo = tx[c].echo
    BY <2>1 DEF TypeInv, Inv, Shaped, NoTx
  <2>3. UNCHANGED call /\ pc[c] = "replace"
    BY <1>2 DEF FinishReplace, Runs, Locally
  <2> QED
    BY <2>2, <2>3 DEF TypeInv, Typed, In
<1> QED
  BY <1>1, <1>2

LEMMA UpdateTypes ==
    ASSUME TypeInv, NEW c \in Calls, CreateHook(c) \/ UpdateRow(c) \/ UpdateBack(c)
    PROVE  Typed(c)'
<1>1. PICK v : tx' = [tx EXCEPT ![c].sets = v]
  BY DEF CreateHook, UpdateRow, UpdateBack, Update
<1>2. tx'[c] = [tx[c] EXCEPT !.sets = v]
  BY <1>1 DEF TypeInv, Inv, Shaped
<1>3. /\ tx'[c].before = tx[c].before /\ tx'[c].unread = tx[c].unread
      /\ tx'[c].todo = tx[c].todo /\ tx'[c].snap = tx[c].snap
      /\ tx'[c].gone = tx[c].gone /\ tx'[c].fresh = tx[c].fresh
      /\ tx'[c].echo = tx[c].echo
  BY <1>2 DEF TypeInv, Inv, Shaped, NoTx
<1>4. UNCHANGED call
  BY DEF CreateHook, UpdateRow, UpdateBack, Locally
<1>5. pc'[c] \notin {"replace", "insert"}
  BY DEF CreateHook, UpdateRow, UpdateBack, AfterDeferred, Goto, TypeInv, Inv, Shaped
<1> QED
  BY <1>3, <1>4, <1>5 DEF TypeInv, Typed, In

\* The transaction of a call that returns is empty but for what it has read.
LEMMA CloseTypes ==
    ASSUME TypeInv, NEW c \in Calls, Close(c), pc'[c] \in {"report", "done"}
    PROVE  Typed(c)'
<1>1. tx'[c] = [NoTx EXCEPT !.before = tx[c].before, !.echo = tx[c].echo]
  BY DEF Close, TypeInv, Inv, Shaped
<1>2. /\ tx'[c].before = tx[c].before /\ tx'[c].unread = {} /\ tx'[c].todo = {}
      /\ tx'[c].snap = {} /\ tx'[c].gone = {} /\ tx'[c].fresh = {}
      /\ tx'[c].echo = tx[c].echo
  BY <1>1 DEF NoTx
<1> QED
  BY <1>2 DEF TypeInv, Typed

LEMMA ReturnTypes ==
    ASSUME TypeInv, NEW c \in Calls, NEW a, Return(c, a)
    PROVE  Typed(c)'
<1>1. Close(c) /\ pc'[c] = "done"
  BY DEF Return, Goto, TypeInv, Inv, Shaped
<1> QED
  BY <1>1, CloseTypes

LEMMA InsertTypes ==
    ASSUME TypeInv, NEW c \in Calls, InsertList(c)
    PROVE  Typed(c)'
<1>1. PICK s \in tx[c].todo :
         LET l    == s[1]
             new  == [owner : {Id(c)}, cell : {l}, by : {c},
                      row : PartRows(l, s[2], ListAt(l, In(c)[l], s[2]))]
             todo == tx[c].todo \ {s}
         IN /\ Due(tx[c].todo, s)
            /\ IF new # {} /\ rows[Id(c)] = Absent /\ lock[Id(c)] # c
               THEN Return(c, "err")
               ELSE /\ tx' = [tx EXCEPT ![c].fresh = @ \cup new, ![c].todo = todo,
                                        ![c].echo = IF l \in Rels THEN Over([k \in {l} |-> new], @)
                                                    ELSE @]
                    /\ Goto(c, AfterDeferred(c, todo))
                    /\ UNCHANGED lock /\ Locally
  BY DEF InsertList
<1> DEFINE new  == [owner : {Id(c)}, cell : {s[1]}, by : {c},
                    row : PartRows(s[1], s[2], ListAt(s[1], In(c)[s[1]], s[2]))]
           todo == tx[c].todo \ {s}
           echo == IF s[1] \in Rels THEN Over([k \in {s[1]} |-> new], tx[c].echo) ELSE tx[c].echo
<1>2. CASE Return(c, "err")
  BY <1>2, ReturnTypes
<1>3. CASE ~Return(c, "err")
  <2>1. /\ tx' = [tx EXCEPT ![c].fresh = @ \cup new, ![c].todo = todo, ![c].echo = echo]
        /\ Goto(c, AfterDeferred(c, todo)) /\ UNCHANGED call
    BY <1>1, <1>3 DEF Locally
  <2>2. tx'[c] = [tx[c] EXCEPT !.fresh = @ \cup new, !.todo = todo, !.echo = echo]
    BY <2>1 DEF TypeInv, Inv, Shaped
  <2>3. /\ tx'[c].before = tx[c].before /\ tx'[c].unread = tx[c].unread
        /\ tx'[c].todo = todo /\ tx'[c].snap = tx[c].snap
        /\ tx'[c].gone = tx[c].gone /\ tx'[c].fresh = tx[c].fresh \cup new
        /\ tx'[c].echo = echo
    BY <2>2 DEF TypeInv, Inv, Shaped, NoTx
  <2>4. pc'[c] \notin {"replace", "insert"}
    BY <2>1 DEF AfterDeferred, Goto, TypeInv, Inv, Shaped
  <2>5. pc[c] = "insert" /\ s[1] \in Lists /\ Replaces(In(c), s)
    BY <1>1 DEF InsertList, Runs, TypeInv, Typed, Replaces
  <2>6. new \subseteq Item
    <3>1. In(c) \in Payloads /\ s \in Steps(In(c))
      BY DEF TypeInv, Typed
    <3>2. s[1] \in DOMAIN In(c) /\ s[2] \in Sent(s[1], In(c)[s[1]])
      BY <2>5, <3>1, StepsType
    <3>3. s[2] \in Parts /\ ListAt(s[1], In(c)[s[1]], s[2]) \in Seq(Values \cup {Bad})
      BY <2>5, <3>1, <3>2, SentIsList DEF Replaces
    <3>4. PartRows(s[1], s[2], ListAt(s[1], In(c)[s[1]], s[2])) \subseteq Parts \X Nat \X Values
      BY <2>5, <3>3, PartRowsType
    <3>5. Id(c) \in Ids
      BY <2>5, NoneAssumption DEF TypeInv, Inv, Shaped, Request, Id
    <3> QED
      BY <2>5, <3>4, <3>5 DEF Item
  <2>7. DOMAIN echo \subseteq Lists
    BY <2>5 DEF TypeInv, Typed, Over
  <2> HIDE DEF new, echo
  <2> QED
    BY <2>1, <2>3, <2>4, <2>6, <2>7 DEF TypeInv, Typed, In
<1> QED
  BY <1>2, <1>3

LEMMA ReadBackTypes ==
    ASSUME TypeInv, NEW c \in Calls, ReadBack(c)
    PROVE  Typed(c)'
<1>1. PICK s \in tx[c].todo :
         /\ s[2] = Reread
         /\ tx' = [tx EXCEPT ![c].echo = Over([k \in {s[1]} |-> SeenRows(c, s[1])], @),
                             ![c].todo = tx[c].todo \ {s}]
  BY DEF ReadBack
<1> DEFINE echo == Over([k \in {s[1]} |-> SeenRows(c, s[1])], tx[c].echo)
<1>2. s[1] \in Lists
  BY <1>1, StepsType DEF TypeInv, Typed
<1>3. DOMAIN echo \subseteq Lists
  BY <1>2 DEF TypeInv, Typed, Over
<1>4. tx' = [tx EXCEPT ![c].echo = echo, ![c].todo = tx[c].todo \ {s}]
  BY <1>1
<1> HIDE DEF echo
<1>5. tx'[c] = [tx[c] EXCEPT !.echo = echo, !.todo = tx[c].todo \ {s}]
  BY <1>4 DEF TypeInv, Inv, Shaped
<1>6. /\ tx'[c].before = tx[c].before /\ tx'[c].unread = tx[c].unread
      /\ tx'[c].todo = tx[c].todo \ {s} /\ tx'[c].echo = echo
      /\ tx'[c].snap = tx[c].snap /\ tx'[c].gone = tx[c].gone /\ tx'[c].fresh = tx[c].fresh
  BY <1>5 DEF TypeInv, Inv, Shaped, NoTx
<1>7. UNCHANGED call /\ pc'[c] \notin {"replace", "insert"}
  BY DEF ReadBack, AfterDeferred, Locally, Goto, TypeInv, Inv, Shaped
<1> QED
  BY <1>3, <1>6, <1>7 DEF TypeInv, Typed, In

LEMMA DeleteTypes ==
    ASSUME TypeInv, NEW c \in Calls, RemoveRow(c) \/ Cascade(c)
    PROVE  Typed(c)'
<1>1. UNCHANGED call /\ pc'[c] \notin {"replace", "insert"}
  BY DEF RemoveRow, Cascade, Locally, Goto, TypeInv, Inv, Shaped
<1>2. CASE RemoveRow(c)
  BY <1>1, <1>2 DEF RemoveRow, TypeInv, Typed, In
<1>3. CASE Cascade(c)
  <2>1. tx'[c] = [tx[c] EXCEPT !.gone = {x \in items : x.owner = Id(c)}]
    BY <1>3 DEF Cascade, TypeInv, Inv, Shaped
  <2>2. /\ tx'[c].before = tx[c].before /\ tx'[c].unread = tx[c].unread
        /\ tx'[c].todo = tx[c].todo /\ tx'[c].snap = tx[c].snap
        /\ tx'[c].gone = {x \in items : x.owner = Id(c)} /\ tx'[c].fresh = tx[c].fresh
        /\ tx'[c].echo = tx[c].echo
    BY <2>1 DEF TypeInv, Inv, Shaped, NoTx
  <2> QED
    BY <1>1, <2>2 DEF TypeInv, Typed, In
<1> QED
  BY <1>2, <1>3

LEMMA ReportTypes ==
    ASSUME TypeInv, NEW c \in Calls, Report(c)
    PROVE  Typed(c)'
<1>1. UNCHANGED <<call, tx>> /\ pc'[c] = "done"
  BY DEF Report, Goto, TypeInv, Inv, Shaped
<1> QED
  BY <1>1 DEF TypeInv, Typed, In
-------------------------------------------------------------------------------
(* The invariant.                                                           *)

Acts(c) == Start(c) \/ Statement(c) \/ Fail(c) \/ DeadlockVictim(c)

LEMMA OwnTypes ==
    ASSUME TypeInv, NEW c \in Calls, Acts(c)
    PROVE  Typed(c)'
<1>1. CASE Start(c)
  BY <1>1, StartTypes
<1>2. CASE \/ ReadBefore(c) /\ rows[Id(c)] # Absent
           \/ ReadBeforeList(c)
  BY <1>2, ReadTypes
<1>3. CASE ResolveDeferred(c)
  BY <1>3, ResolveTypes
<1>4. CASE StartReplace(c) \/ FinishReplace(c)
  BY <1>4, ReplaceTypes
<1>5. CASE CreateHook(c) \/ UpdateRow(c) \/ UpdateBack(c)
  BY <1>5, UpdateTypes
<1>6. CASE InsertList(c) \/ ReadBack(c)
  BY <1>6, InsertTypes, ReadBackTypes
<1>7. CASE RemoveRow(c) \/ Cascade(c)
  BY <1>7, DeleteTypes
<1>8. CASE Report(c)
  BY <1>8, ReportTypes
<1>9. CASE Commit(c) \/ CommitUnheard(c)
  <2>1. Close(c)
    BY <1>9 DEF Commit, CommitUnheard, Apply
  <2>2. pc'[c] \in {"report", "done"}
    BY <1>9 DEF Commit, CommitUnheard, Goto, TypeInv, Inv, Shaped
  <2> QED
    BY <2>1, <2>2, CloseTypes
<1>10. CASE \/ ReadBefore(c) /\ rows[Id(c)] = Absent
            \/ CheckExists(c) \/ RefuseRemove(c) \/ Fail(c) \/ DeadlockVictim(c)
  <2>1. \E a \in Answers : Return(c, a)
    BY <1>10 DEF ReadBefore, CheckExists, RefuseRemove, Fail, DeadlockVictim, Answers
  <2> QED
    BY <2>1, ReturnTypes
<1> QED
  BY <1>1, <1>2, <1>3, <1>4, <1>5, <1>6, <1>7, <1>8, <1>9, <1>10 DEF Acts, Statement

LEMMA StepTypes ==
    ASSUME TypeInv, NEW c \in Calls, Acts(c)
    PROVE  TypeInv'
<1>1. Step(c)
  BY Shapes DEF TypeInv, Inv, Acts
<1>2. Inv'
  BY <1>1, StepInv DEF TypeInv
<1>3. ASSUME NEW d \in Calls PROVE Typed(d)'
  <2>1. CASE d = c
    BY <2>1, OwnTypes
  <2>2. CASE d # c
    <3>1. pc'[d] = pc[d] /\ call'[d] = call[d] /\ tx'[d] = tx[d]
      BY <1>1, <2>2, Frame DEF TypeInv
    <3> QED
      BY <3>1 DEF TypeInv, Typed, In
  <2> QED
    BY <2>1, <2>2
<1>4. rows' \in [Ids -> Row \cup {Absent}]
  <2>1. CASE Applied(c)
    <3>1. rows' = [i \in Ids |-> rows'[i]]
      BY <2>1 DEF Applied, Apply
    <3> QED
      BY <1>2, <3>1 DEF Inv, Rowed
  <2>2. CASE UNCHANGED rows
    BY <2>2 DEF TypeInv
  <2> QED
    BY <1>1, <2>1, <2>2, Frame DEF TypeInv
<1>5. items' \subseteq Item
  <2>1. CASE Applied(c)
    <3>1. items' = (items \ tx[c].gone) \cup tx[c].fresh
      BY <2>1 DEF Applied, Apply
    <3> QED
      BY <3>1 DEF TypeInv, Typed
  <2>2. CASE UNCHANGED items
    BY <2>2 DEF TypeInv
  <2> QED
    BY <1>1, <2>1, <2>2, Frame DEF TypeInv
<1>6. answer' \in [Calls -> Answers]
  <2>1. UNCHANGED answer \/ \E a \in Answers : answer' = [answer EXCEPT ![c] = a]
    <3>1. CASE RolledBack(c)
      BY <3>1 DEF RolledBack, Return, Answers
    <3>2. CASE Applied(c)
      BY <3>2 DEF Applied, AfterCommit, Answers
    <3>3. CASE ~RolledBack(c) /\ ~Applied(c)
      BY <1>1, <3>3 DEF Step, Started, Moved, Created, Updated, Listed, RemoveRow, Cascade,
                        Report, Locally, Answers
    <3> QED
      BY <3>1, <3>2, <3>3
  <2> QED
    BY <2>1 DEF TypeInv
<1> QED
  BY <1>2, <1>3, <1>4, <1>5, <1>6 DEF TypeInv

LEMMA InitTypes == Init => TypeInv
<1> SUFFICES ASSUME Init PROVE TypeInv
  OBVIOUS
<1>1. Inv
  BY InitInv
<1>2. rows \in [Ids -> Row \cup {Absent}]
  <2>1. rows = [i \in Ids |-> rows[i]]
    BY DEF Init
  <2> QED
    BY <1>1, <2>1 DEF Inv, Rowed
<1>3. items \subseteq Item
  <2>1. ASSUME NEW x \in items PROVE x \in Item
    <3>1. PICK i \in InitialIds, l \in Lists \cap DOMAIN Written(Seed) :
             x \in {[owner |-> i, cell |-> l, row |-> r, by |-> None] : r \in Written(Seed)[l]}
      BY DEF Init
    <3>2. PICK r \in Written(Seed)[l] :
             x = [owner |-> i, cell |-> l, row |-> r, by |-> None]
      BY <3>1
    <3>3. /\ l \in DOMAIN Seed /\ Parses(l, Seed[l])
          /\ Written(Seed)[l] = ListRows(l, Seed[l])
      BY DEF Written
    <3>4. r \in Parts \X Nat \X Values
      BY <3>2, <3>3, ListRowsType
    <3> QED
      BY <3>2, <3>4, IdsAssumption DEF Item
  <2> QED
    BY <2>1
<1>4. answer \in [Calls -> Answers]
  BY DEF Init, Answers
<1>5. ASSUME NEW c \in Calls PROVE Typed(c)
  BY DEF Init, NoTx, Typed
<1> QED
  BY <1>1, <1>2, <1>3, <1>4, <1>5 DEF TypeInv

\* Whatever the bodies hold and however the transactions overlap, what is stored, what a
\* call has read and what it has still to write keep their types: no list row without a
\* position and a value, no deferred field that is none of the entity's.
THEOREM TypeCorrect == Spec => []TypeOK
<1>1. ASSUME TypeInv, [Next]_vars PROVE TypeInv'
  <2>1. CASE UNCHANGED vars
    <3>1. Inv'
      BY <1>1, NextInv DEF TypeInv
    <3> QED
      BY <1>1, <2>1, <3>1 DEF vars, TypeInv, Typed, In
  <2>2. ASSUME NEW c \in Calls, Acts(c) PROVE TypeInv'
    BY <1>1, <2>2, StepTypes
  <2> QED
    BY <1>1, <2>1, <2>2 DEF Next, Finished, Acts
<1>2. TypeInv => TypeOK
  <2> SUFFICES ASSUME TypeInv PROVE TypeOK
    OBVIOUS
  <2>1. ASSUME NEW c \in Calls PROVE tx[c].todo \subseteq Fields \X (Parts \cup {Reread})
    BY StepsType DEF TypeInv, Typed
  <2> QED
    BY <2>1 DEF TypeInv, Typed, Inv, Shaped, TypeOK, Answers
<1> QED
  BY <1>1, <1>2, InitTypes, PTL DEF Spec
===============================================================================
