------------------------------ MODULE KeyedTable ------------------------------
(***************************************************************************)
(* KeyedStrings (adapter/erjet/satellite.go): fields that map keys to      *)
(* texts (translations by locale), kept as the rows of side tables, one    *)
(* per parent and key, with a column for each field of the table.          *)
(*                                                                         *)
(* Store.Save writes all the fields of a table that a body carries         *)
(* together (writeKeyedGroups), table by table, key by key in sorted       *)
(* order: first a statement for each field that is cleared, then one       *)
(* upsert of those that are set.  Then it reads back each field.  One      *)
(* action is one statement.  PostgreSQL at READ COMMITTED is external:     *)
(* tx[c].writes are a save's uncommitted rows, held[r] is the save that    *)
(* has written row r.                                                      *)
(***************************************************************************)
EXTENDS Naturals, FiniteSets, Overriding

CONSTANTS Calls,        \* saves, each of one parent
          Parents,      \* the owning rows, which exist throughout
          Keys,         \* every key, the empty one included
          EmptyKey,     \* the key "": it can be written and is never read
          KeyRank,      \* the sort order of the keys
          Tables,       \* the side tables
          Cells,        \* the KeyedStrings fields, a column each
          TableOf,      \* the table of this column
          CellRank,     \* position of a field in the declaration
          Clears,       \* their ClearPolicy: "null", "empty" or "deleteRow"
          NotNull,      \* the columns that are NOT NULL and have no default
          Texts,        \* texts other than the empty one
          Empty, Null,  \* what else a column holds
          Other,        \* a member of a map that is neither a text nor null
          Bad,          \* a field that is no map
          Bodies,       \* what the fields may be sent
          InitialRows,  \* the side tables at the start
          LocksParent,  \* has the save written its main row first?
          MaxOpen,      \* bound: saves in progress at a time
          Absent, None

Places     == Tables \X Parents \X Keys
CellsOf(t) == {f \in Cells : TableOf[f] = t}
RowsOf(t)  == [CellsOf(t) -> Texts \cup {Empty, Null}]
Patch      == UNION {[S -> Texts \cup {Empty, Null, Other}] : S \in SUBSET Keys}

\* What the table of r holds at r: no row, or one whose columns that are NOT NULL
\* are not.
Fits(r, row) == \/ row = Absent
                \/ row \in RowsOf(r[1]) /\ \A f \in NotNull \cap CellsOf(r[1]) : row[f] # Null

ASSUME SentinelAssumption == /\ \A t \in Tables : Absent \notin RowsOf(t)
                             /\ None \notin Calls \cup {"ok", "err", "refused"}
                             /\ Bad \notin Patch
ASSUME TextsAssumption == /\ Empty \notin Texts /\ Null \notin Texts /\ Other \notin Texts
                          /\ Empty # Null
ASSUME TablesAssumption == TableOf \in [Cells -> Tables]
ASSUME InitialRowsAssumption ==
    /\ DOMAIN InitialRows = Places
    /\ \A r \in Places : Fits(r, InitialRows[r])

\* Two keys have two ranks, two fields two positions.
ASSUME RankAssumption ==
    /\ KeyRank \in [Keys -> Nat]
    /\ \A k, l \in Keys : KeyRank[k] = KeyRank[l] => k = l
    /\ CellRank \in [Cells -> Nat]
    /\ \A f, g \in Cells : CellRank[f] = CellRank[g] => f = g

\* ClearDeleteRow "fits only when the side table holds exactly this field", and
\* ClearSet is for the columns that cannot be NULL.
ASSUME ClearsAssumption ==
    /\ Clears \in [Cells -> {"null", "empty", "deleteRow"}]
    /\ \A f \in Cells : Clears[f] = "deleteRow" => CellsOf(TableOf[f]) = {f}
    /\ NotNull \subseteq {f \in Cells : Clears[f] # "null"}

ASSUME BodiesAssumption == \A in \in Bodies : /\ DOMAIN in \subseteq Cells
                                              /\ \A f \in DOMAIN in : in[f] \in Patch \cup {Bad}

VARIABLES rows,         \* the committed side tables
          held,         \* by row: the save that has written it
          pc, call, tx, answer

vars == <<rows, held, pc, call, tx, answer>>
-------------------------------------------------------------------------------
\* The fields of a body that are written, and those of one table.
Written(in)  == {f \in DOMAIN in : in[f] # Bad}
Group(in, t) == Written(in) \cap CellsOf(t)

\* The fields that say something of the key s[2] in the table s[1], and what
\* they say: null, "" and what is no text all clear.
Saying(in, s)  == {f \in Group(in, s[1]) : s[2] \in DOMAIN in[f]}
ToSet(in, s)   == {f \in Saying(in, s) : in[f][s[2]] \in Texts}
ToClear(in, s) == Saying(in, s) \ ToSet(in, s)
Steps(in)      == {s \in Tables \X Keys : Saying(in, s) # {}}

\* The tables come in the order of the first field of each that was sent, the
\* keys of a table sorted.
Precedes(in, s, t) ==
    IF s[1] = t[1] THEN KeyRank[s[2]] < KeyRank[t[2]]
    ELSE \E f \in Group(in, s[1]) : \A g \in Group(in, t[1]) : CellRank[f] < CellRank[g]

In(c)     == call[c].in
Parent(c) == call[c].parent
Place(c)  == <<tx[c].at[1], Parent(c), tx[c].at[2]>>
View(c)   == Over(tx[c].writes, rows)
Open      == {c \in Calls : pc[c] \notin {"idle", "done"}}
Goto(c, l) == pc' = [pc EXCEPT ![c] = l]

\* read: the texts of a parent by key; an empty value is as good as no row.
Read(view, p, f) ==
    LET row(k) == view[<<TableOf[f], p, k>>]
        keys   == {k \in Keys \ {EmptyKey} : row(k) # Absent /\ row(k)[f] \in Texts}
    IN [k \in keys |-> row(k)[f]]

\* What a save waits for: the writer of the row.  A row that nobody has
\* committed is not there for the UPDATE or DELETE of a clearing, which then has
\* nothing to wait for; the INSERT of an upsert waits for it.
WaitsFor(c) ==
    IF pc[c] = "upsert" \/ (pc[c] = "clear" /\ tx[c].clears # {} /\ rows[Place(c)] # Absent)
    THEN {held[Place(c)]} \ {None, c} ELSE {}
Runs(c, l) == pc[c] = l /\ WaitsFor(c) = {}
-------------------------------------------------------------------------------
NoTx == [todo |-> {}, at |-> None, clears |-> {}, writes |-> <<>>, unread |-> {}, echo |-> <<>>]

Init == /\ rows = InitialRows
        /\ held = [r \in Places |-> None]
        /\ pc = [c \in Calls |-> "idle"]
        /\ call = [c \in Calls |-> None]
        /\ tx = [c \in Calls |-> NoTx]
        /\ answer = [c \in Calls |-> None]

\* The end of the transaction.
Return(c, a) == /\ answer' = [answer EXCEPT ![c] = a]
                /\ held' = [r \in Places |-> IF held[r] = c THEN None ELSE held[r]]
                /\ tx' = [tx EXCEPT ![c] = NoTx]
                /\ Goto(c, "done")
                /\ UNCHANGED call

Abort(c, a) == Return(c, a) /\ UNCHANGED rows

\* Where a save goes with these keys left to write and fields to read back.
Onward(todo, unread) == IF todo # {} THEN "key" ELSE IF unread # {} THEN "echo" ELSE "commit"

\* A save that has written its main row keeps the others of this row waiting.
Start(c) ==
    /\ pc[c] = "idle" /\ Cardinality(Open) < MaxOpen
    /\ \E p \in Parents, in \in Bodies :
         /\ LocksParent => \A d \in Open : Parent(d) # p
         /\ call' = [call EXCEPT ![c] = [parent |-> p, in |-> in]]
         /\ tx' = [tx EXCEPT ![c].todo = Steps(in), ![c].unread = Written(in)]
         /\ Goto(c, Onward(Steps(in), Written(in)))
    /\ UNCHANGED <<rows, held, answer>>

Take(c, s) ==
    /\ pc[c] = "key"
    /\ tx' = [tx EXCEPT ![c].todo = @ \ {s}, ![c].at = s, ![c].clears = ToClear(In(c), s)]
    /\ Goto(c, "clear")
    /\ UNCHANGED <<rows, held, call, answer>>

\* Fault: the keys come in the order of a Go map.
TakeAnyKey(c) ==
    \E s \in tx[c].todo :
        /\ \A t \in tx[c].todo : t[1] # s[1] => Precedes(In(c), s, t)
        /\ Take(c, s)

\* Fault: the tables do.
TakeAnyTable(c) ==
    \E s \in tx[c].todo :
        /\ \A t \in tx[c].todo \ {s} : t[1] = s[1] => Precedes(In(c), s, t)
        /\ Take(c, s)

\* The loop of writeMany turns to its next key, or that of writeKeyedGroups to
\* its next table.
TakeKey(c) ==
    \E s \in tx[c].todo :
        /\ \A t \in tx[c].todo \ {s} : Precedes(In(c), s, t)
        /\ Take(c, s)

AfterKey(c) == Onward(tx[c].todo, tx[c].unread)

\* Fault: clearing a field removes the row.
ClearedRow(row, f) == Absent

\* Fault: clearing is always with NULL.
ClearedNull(row, f) == [row EXCEPT ![f] = Null]

\* What the clearing of a field makes of a row.
Cleared(row, f) ==
    CASE Clears[f] = "deleteRow" -> Absent
      [] Clears[f] = "empty"     -> [row EXCEPT ![f] = Empty]
      [] Clears[f] = "null"      -> [row EXCEPT ![f] = Null]

\* clearSQL: the UPDATE or DELETE of one field that is cleared; to touch no row
\* is a normal outcome.
Clear(c) ==
    /\ Runs(c, "clear") /\ tx[c].clears # {}
    /\ \E f \in tx[c].clears :
         LET old  == View(c)[Place(c)]
             left == [tx EXCEPT ![c].clears = @ \ {f}]
         IN IF old = Absent THEN tx' = left /\ UNCHANGED held
            ELSE /\ tx' = [left EXCEPT ![c].writes =
                              Over([r \in {Place(c)} |-> Cleared(old, f)], @)]
                 /\ held' = [held EXCEPT ![Place(c)] = c]
    /\ UNCHANGED <<rows, pc, call, answer>>

\* All of this key that is to be cleared is.
ClearsDone(c) ==
    /\ pc[c] = "clear" /\ tx[c].clears = {}
    /\ Goto(c, IF ToSet(In(c), tx[c].at) # {} THEN "upsert" ELSE AfterKey(c))
    /\ UNCHANGED <<rows, held, call, tx, answer>>

\* Fault: a statement for each field.
InsertsEach(fs) == {{f} : f \in fs}

\* The columns of the INSERTs for the fields that are set: one has them all.
Inserts(fs) == {fs}

\* External: the row proposed for INSERT is checked for NOT NULL before any
\* conflict with a row that is there.
Admitted(t, fs) == \A cols \in Inserts(fs) : NotNull \cap CellsOf(t) \subseteq cols

\* upsertManySQL: one INSERT ... ON CONFLICT DO UPDATE of all fields that are set.
Upsert(c) ==
    /\ Runs(c, "upsert") /\ Admitted(tx[c].at[1], ToSet(In(c), tx[c].at))
    /\ LET old == View(c)[Place(c)]
           new == [f \in ToSet(In(c), tx[c].at) |-> In(c)[f][tx[c].at[2]]]
           row == Over(new, IF old = Absent THEN [f \in CellsOf(tx[c].at[1]) |-> Null] ELSE old)
       IN tx' = [tx EXCEPT ![c].writes = Over([r \in {Place(c)} |-> row], @)]
    /\ held' = [held EXCEPT ![Place(c)] = c]
    /\ Goto(c, AfterKey(c))
    /\ UNCHANGED <<rows, call, answer>>

\* The database does not admit the row, and the save fails.
Refuse(c) == pc[c] = "upsert" /\ ~Admitted(tx[c].at[1], ToSet(In(c), tx[c].at)) /\ Abort(c, "refused")

EchoAs(c, f, v) ==
    LET unread == tx[c].unread \ {f}
    IN /\ pc[c] = "echo"
       /\ \A g \in unread : CellRank[f] < CellRank[g]
       /\ tx' = [tx EXCEPT ![c].unread = unread, ![c].echo = Over([g \in {f} |-> v], @)]
       /\ Goto(c, Onward({}, unread))
       /\ UNCHANGED <<rows, held, call, answer>>

\* Fault: what was sent is reported as what the fields hold.
EchoPatch(c) ==
    \E f \in tx[c].unread :
        EchoAs(c, f, [k \in {l \in Keys : f \in ToSet(In(c), <<TableOf[f], l>>)} |-> In(c)[f][k]])

\* Store.Save reads back, for the journal, what each field now holds.
Echo(c) == \E f \in tx[c].unread : EchoAs(c, f, Read(View(c), Parent(c), f))

Commit(c) == pc[c] = "commit" /\ rows' = View(c) /\ Return(c, "ok")

\* Any statement may fail, and all is rolled back.
Fail(c) == c \in Open /\ Abort(c, "err")

\* External: the saves that all wait for each other.
Stuck(S) == S # {} /\ \A c \in S : WaitsFor(c) \cap S # {}

Statement(c) == \/ TakeKey(c)
                \/ Clear(c)
                \/ ClearsDone(c)
                \/ Upsert(c)
                \/ Refuse(c)
                \/ Echo(c)
                \/ Commit(c)

\* Every save of this instance has returned.
Finished == (\A c \in Calls : pc[c] = "done") /\ UNCHANGED vars

Next == \/ \E c \in Calls : Start(c) \/ Statement(c) \/ Fail(c)
        \/ Finished

Spec == Init /\ [][Next]_vars
-------------------------------------------------------------------------------
(* Properties.                                                              *)

Stage == {"idle", "key", "clear", "upsert", "echo", "commit", "done"}

\* The types, of the committed rows and of those about to be.
TypeOK ==
    /\ held \in [Places -> Calls \cup {None}]
    /\ pc \in [Calls -> Stage]
    /\ call \in [Calls -> [parent : Parents, in : Bodies] \cup {None}]
    /\ answer \in [Calls -> {None, "ok", "err", "refused"}]
    /\ DOMAIN rows = Places /\ \A r \in Places : Fits(r, rows[r])
    /\ \A c \in Calls : /\ DOMAIN tx[c] = DOMAIN NoTx
                        /\ tx[c].todo \subseteq Tables \X Keys
                        /\ tx[c].clears \subseteq Cells /\ tx[c].unread \subseteq Cells
                        /\ DOMAIN tx[c].writes \subseteq Places
                        /\ \A r \in DOMAIN tx[c].writes : Fits(r, tx[c].writes[r])

\* What a field is to hold after a save: the texts it was sent over those it
\* had, without those that were cleared.
Saved(in, f, old) ==
    IF f \notin Written(in) THEN old
    ELSE LET said == DOMAIN in[f] \ {EmptyKey}
             kept == (DOMAIN old \ said) \cup {k \in said : in[f][k] \in Texts}
         IN [k \in kept |-> IF k \in said THEN in[f][k] ELSE old[k]]

\* satellite.go:216, "not sent means do not touch", and :322, "last one wins":
\* a save that commits leaves in every field the texts it was sent, has removed
\* those it cleared, and has left alone other keys, other fields and other
\* parents.
PatchIsSaved ==
    [][\A c \in Calls : pc[c] = "commit" /\ answer'[c] = "ok" =>
           \A p \in Parents, f \in Cells :
               Read(rows', p, f) = IF p = Parent(c) THEN Saved(In(c), f, Read(rows, p, f))
                                   ELSE Read(rows, p, f)]_vars

\* satellite.go:233-241: one upsert with every column that is written passes the
\* NOT NULL check; a form that fills every such field of every key it fills is
\* never refused.
FullFormsAreSaved ==
    \A c \in Calls : answer[c] = "refused" =>
        \E s \in Steps(In(c)) :
            ToSet(In(c), s) # {} /\ ~(NotNull \cap CellsOf(s[1]) \subseteq ToSet(In(c), s))

\* satellite.go:243-246: a field is cleared with an UPDATE of its own, "so there
\* is nothing to merge"; a form that sends every NOT NULL field of every key,
\* filled or cleared, is not refused either.
SentFormsAreSaved ==
    \A c \in Calls : answer[c] = "refused" =>
        \E s \in Steps(In(c)) : ~(NotNull \cap CellsOf(s[1]) \subseteq Saying(In(c), s))

\* The fields of a table are declared side by side.  If they are not, two saves
\* may meet the first field of two tables in different orders.
SideBySide(t, u) == \A f \in CellsOf(t), g \in CellsOf(u) : CellRank[f] < CellRank[g]
Together == \A t, u \in Tables : t # u => SideBySide(t, u) \/ SideBySide(u, t)

\* Saves never wait for each other in a circle: all of them take the tables and
\* keys in the same order, whichever fields they were sent.
NoneStuck == Together => \A S \in SUBSET Open : ~Stuck(S)

\* A save waits for one that is at a later key of the same parent, or in a later
\* table, if that one waits too: that is why there is no circle.
Earlier(s, t) == IF s[1] = t[1] THEN KeyRank[s[2]] < KeyRank[t[2]] ELSE SideBySide(s[1], t[1])
WaitsAscend ==
    Together => \A c, d \in Calls : d \in WaitsFor(c) /\ WaitsFor(d) # {} =>
                    Parent(c) = Parent(d) /\ Earlier(tx[c].at, tx[d].at)

\* satellite.go:96 and :121: what the journal is told is, once for each field that
\* was written with others or alone, all that the commit leaves in it, the keys
\* that were not sent included.
EchoIsCommitted ==
    [][\A c \in Calls : pc[c] = "commit" /\ answer'[c] = "ok"
           => tx[c].echo = [f \in Written(In(c)) |-> Read(rows', Parent(c), f)]]_vars
===============================================================================
