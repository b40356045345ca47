---------------------------- MODULE EntityContract ----------------------------
(***************************************************************************)
(* What the engine asks of a storage behind an Entity (types.go): each     *)
(* Save or Delete takes effect at one instant, wholly or not at all; "no   *)
(* row" is told apart from success; a call that reports an error has left  *)
(* no trace.                                                               *)
(*                                                                         *)
(* The store of examples/memory is this specification: a map of rows under *)
(* one mutex.  erjet.Store is meant to implement it with a transaction of  *)
(* many statements (ErjetStore.tla).                                       *)
(***************************************************************************)
CONSTANTS Calls,        \* calls of the entity's hooks, one operation each
          Ids,          \* row ids
          InitialIds,   \* the rows that exist at the start
          Payloads,     \* bodies a Save may carry
          Seed,         \* the body the initial rows were written with
          NoBody,       \* the body of a call that carries none
          BlankRow,     \* a row none of whose fields has been given a value
          Absent,       \* no row
          None,         \* no call yet, no answer yet
          Put(_, _)     \* Put(in, row): the row once the body is written over it

VARIABLES rows,         \* the rows, by id
          call,         \* the operation of each call
          answer        \* what each call returned

vars == <<rows, call, answer>>

Create(i, in) == [op |-> "create", id |-> i, in |-> in]
Update(i, in) == [op |-> "update", id |-> i, in |-> in]
Delete(i)     == [op |-> "delete", id |-> i, in |-> NoBody]

Creates == {c \in Calls : call[c] # None /\ call[c].op = "create"}

\* The ids handed out so far: the counter of the memory store, and uuids in
\* Postgres, never name a second row.
Used == InitialIds \cup {call[c].id : c \in Creates}

\* The engine calls Save or Delete of a row only after a Load has found it
\* (handler.go); it may have been deleted since.
Known == InitialIds \cup {i \in Ids : rows[i] # Absent}
                    \cup {call[c].id : c \in {d \in Creates : answer[d] = "ok"}}

Operations == {Update(i, in) : i \in Known, in \in Payloads}
              \cup {Delete(i) : i \in Known}
              \cup {Create(i, in) : i \in Ids \ Used, in \in Payloads}

Init == /\ rows = [i \in Ids |-> IF i \in InitialIds
                                 THEN Put(Seed, BlankRow) ELSE Absent]
        /\ call = [c \in Calls |-> None]
        /\ answer = [c \in Calls |-> None]

Invoke(c) == /\ call[c] = None
             /\ \E r \in Operations : call' = [call EXCEPT ![c] = r]
             /\ UNCHANGED <<rows, answer>>

Pending(c, op) == answer[c] = None /\ call[c] # None /\ call[c].op = op

Answer(c, a) == answer' = [answer EXCEPT ![c] = a] /\ UNCHANGED call

\* The whole of a Save that creates: the row and every field the body writes.
SaveCreate(c) ==
    /\ Pending(c, "create")
    /\ rows' = [rows EXCEPT ![call[c].id] = Put(call[c].in, BlankRow)]
    /\ Answer(c, "ok")

\* The whole of a Save that updates: the fields the body writes and no other.
SaveUpdate(c) ==
    /\ Pending(c, "update")
    /\ rows[call[c].id] # Absent
    /\ rows' = [rows EXCEPT ![call[c].id] = Put(call[c].in, @)]
    /\ Answer(c, "ok")

\* ErrNotFound: only while there is no row, and nothing is written.
SaveNotFound(c) ==
    /\ Pending(c, "update")
    /\ rows[call[c].id] = Absent
    /\ Answer(c, "notfound")
    /\ UNCHANGED rows

\* Deleting a row that is not there is not an error.
Remove(c) == /\ Pending(c, "delete")
             /\ rows' = [rows EXCEPT ![call[c].id] = Absent]
             /\ Answer(c, "ok")

\* An error of the storage, a body refused by Save's own validation, a delete
\* refused because the row is still referenced: nothing was written.
Refusals(op) == {"err", IF op = "delete" THEN "conflict" ELSE "ferr"}
Refuse(c) == /\ answer[c] = None /\ call[c] # None
             /\ \E a \in Refusals(call[c].op) : Answer(c, a)
             /\ UNCHANGED rows

Next == \E c \in Calls : \/ Invoke(c)
                         \/ SaveCreate(c)
                         \/ SaveUpdate(c)
                         \/ SaveNotFound(c)
                         \/ Remove(c)
                         \/ Refuse(c)

Spec == Init /\ [][Next]_vars
===============================================================================
