--------------------------- MODULE ChildTable_proofs ---------------------------
(***************************************************************************)
(* Theorems about ChildRows and KeyedChildRows, for any number of saves,   *)
(* parents, partitions and rows, and whatever ids are sent.                *)
(*                                                                         *)
(* The first part holds whether or not the saves of a parent wait for each *)
(* other.  An id that is kept was seen in the parent's own scope, an id    *)
(* that is issued is new, and neither a row nor an id ever changes its     *)
(* home; so all a save deletes or writes is at home where the save is.     *)
(*                                                                         *)
(* The second part is about saves that write the main row first.  What one *)
(* of them has read of its lists stays true until it commits (Saves), and  *)
(* each partition it has been through is as it was sent (Lists).           *)
(***************************************************************************)
EXTENDS ChildTable, FiniteSetTheorems, TLAPS

\* Where the state of every call is.
Shaped ==
    /\ DOMAIN rows = Ids /\ DOMAIN home = Ids
    /\ pc \in [Calls -> Stage]
    /\ DOMAIN call = Calls /\ DOMAIN tx = Calls
    /\ \A c \in Calls : DOMAIN tx[c] = DOMAIN NoTx

\* A row, committed or not, is at home where it says.
Homed(h, i, r) == r # Absent =>
    /\ {"parent", "key"} \subseteq DOMAIN r
    /\ h[i] = <<r.parent, r.key>> /\ h[i] # None

AllHomed == \A i \in Ids : Homed(home, i, rows[i])

\* The home of what a call works on.
Here(c) == <<Parent(c), tx[c].key>>

\* What a call has yet to do is a partition it was sent; all that it deletes,
\* keeps or has written is at home there.
Busy == {"delete", "deleting", "upsert"}
Local(c) ==
    /\ c \in Open => Parent(c) \in Parents /\ In(c) \in Patches
    /\ c \notin Open => tx[c] = NoTx
    /\ tx[c].todo \subseteq Partitions(In(c))
    /\ pc[c] \in Busy =>
         /\ tx[c].key \in Partitions(In(c))
         /\ DOMAIN tx[c].ids = DOMAIN List(c)
         /\ \A n \in DOMAIN tx[c].ids : tx[c].ids[n] # NoId =>
                tx[c].ids[n] \in Ids /\ home[tx[c].ids[n]] = Here(c)
    /\ pc[c] = "deleting" => \A i \in tx[c].snap : i \in Ids /\ home[i] = Here(c)
    /\ \A i \in DOMAIN tx[c].writes :
         /\ i \in Ids /\ Homed(home, i, tx[c].writes[i])
         /\ home[i] \in {Parent(c)} \X Partitions(In(c))

Inv == Shaped /\ AllHomed /\ \A c \in Calls : Local(c)

\* An id has one home for ever.
HomesStay == \A i \in Ids : home[i] # None => home'[i] = home[i]

\* The call c moves, or starts, and the others do not.
Moves(c) == /\ HomesStay
            /\ \A d \in Calls \ {c} : pc'[d] = pc[d] /\ call'[d] = call[d] /\ tx'[d] = tx[d]
-------------------------------------------------------------------------------
LEMMA PartitionsAreKeys ==
    ASSUME NEW in \in Patches
    PROVE  Partitions(in) \subseteq Keys
  BY PatchAssumption DEF Partitions

LEMMA HereIsAHome ==
    ASSUME NEW c \in Calls, Local(c), pc[c] \in Busy
    PROVE  Here(c) # None /\ Here(c) \in {Parent(c)} \X Partitions(In(c))
<1>1. c \in Open
  BY DEF Open, Busy
<1>2. Parent(c) \in Parents /\ tx[c].key \in Keys
  BY <1>1, PartitionsAreKeys DEF Local
<1> QED
  BY <1>2, NoHomeAssumption DEF Local, Here

\* What a call sees is at home.
LEMMA ViewIsHomed ==
    ASSUME Inv, NEW c \in Calls, NEW i \in Ids
    PROVE  Homed(home, i, View(c)[i])
  BY DEF Inv, Shaped, AllHomed, Local, View, Over

LEMMA ScopeIsHomed ==
    ASSUME Inv, NEW c \in Calls, NEW k, k # EmptyKey,
           NEW i \in Scope(View(c), Parent(c), k)
    PROVE  i \in Ids /\ home[i] = <<Parent(c), k>> /\ home[i] # None
  BY ViewIsHomed DEF Scope, Homed

LEMMA StaysHomed ==
    ASSUME HomesStay, NEW i \in Ids, NEW r, Homed(home, i, r)
    PROVE  Homed(home', i, r)
  BY DEF HomesStay, Homed

LEMMA OthersAsBefore ==
    ASSUME Inv, NEW c \in Calls, Moves(c), NEW d \in Calls \ {c}
    PROVE  Local(d)'
<1>1. pc'[d] = pc[d] /\ call'[d] = call[d] /\ tx'[d] = tx[d]
  BY DEF Moves
<1>2. Parent(d)' = Parent(d) /\ In(d)' = In(d) /\ Here(d)' = Here(d)
      /\ List(d)' = List(d) /\ (d \in Open <=> (d \in Open)')
  BY <1>1 DEF Parent, In, Here, List, Open
<1>3. Local(d)
  BY DEF Inv
<1>4. ASSUME NEW i \in DOMAIN tx'[d].writes
      PROVE  /\ i \in Ids /\ Homed(home', i, tx[d].writes[i])
             /\ home'[i] \in {Parent(d)} \X Partitions(In(d))
  <2>1. i \in Ids /\ Homed(home, i, tx[d].writes[i])
        /\ home[i] \in {Parent(d)} \X Partitions(In(d))
    BY <1>1, <1>3, <1>4 DEF Local
  <2>2. d \in Open
    BY <1>1, <1>3, <1>4 DEF Local, NoTx
  <2>3. home[i] # None
    BY <1>3, <2>1, <2>2, PartitionsAreKeys, NoHomeAssumption DEF Local
  <2>4. home'[i] = home[i]
    BY <2>1, <2>3 DEF Moves, HomesStay
  <2> QED
    BY <1>1, <2>1, <2>4 DEF Homed
<1>5. ASSUME pc[d] \in Busy, NEW i \in Ids, home[i] = Here(d)
      PROVE  home'[i] = Here(d)
  BY <1>3, <1>5, HereIsAHome DEF Moves, HomesStay
<1> QED
  BY <1>1, <1>2, <1>3, <1>4, <1>5 DEF Local, Busy

LEMMA Combined ==
    ASSUME Inv, NEW c \in Calls, Moves(c), Shaped', Local(c)', rows' = rows \/ AllHomed'
    PROVE  Inv'
<1>1. AllHomed'
  BY StaysHomed DEF Inv, AllHomed, Moves
<1> QED
  BY <1>1, OthersAsBefore DEF Inv
-------------------------------------------------------------------------------
(* The actions, one by one.                                                 *)

LEMMA StartKeeps ==
    ASSUME Inv, NEW c \in Calls, Start(c)
    PROVE  Inv'
<1>1. PICK p \in Parents, in \in Patches :
        /\ call' = [call EXCEPT ![c] = [parent |-> p, in |-> in]]
        /\ tx' = [tx EXCEPT ![c].todo = Partitions(in)]
        /\ Goto(c, IF Partitions(in) = {} THEN "echo" ELSE "own")
  BY DEF Start
<1>2. pc[c] = "idle" /\ tx[c] = NoTx
  BY DEF Start, Inv, Local, Open
<1>3. tx'[c] = [NoTx EXCEPT !.todo = Partitions(in)]
  BY <1>1, <1>2 DEF Inv, Shaped
<1>4. call'[c] = [parent |-> p, in |-> in] /\ pc'[c] \in {"echo", "own"}
  BY <1>1 DEF Inv, Shaped, Goto
<1>5. Moves(c)
  BY <1>1 DEF Start, Goto, Inv, Shaped, Moves, HomesStay
<1>6. Shaped'
  BY <1>1, <1>3 DEF Start, Goto, Inv, Shaped, Stage, NoTx
<1>7. Local(c)'
  BY <1>3, <1>4 DEF Local, Open, Busy, Parent, In, NoTx
<1> QED
  BY <1>5, <1>6, <1>7, Combined DEF Start

LEMMA ResolvedAreOwnedOrUnused ==
    ASSUME NEW list, NEW owned, NEW ids \in Resolved(list, owned)
    PROVE  /\ DOMAIN ids = DOMAIN list
           /\ \A n \in DOMAIN ids : ids[n] # NoId => ids[n] \in owned \/ ids[n] \in Unused
<1> DEFINE new == {n \in DOMAIN list : IsElement(list, n) /\ ~Owns(list, owned, n)}
<1>1. PICK issued \in Issued(new) :
        ids = [n \in DOMAIN list |-> IF n \in new THEN issued[n]
                                     ELSE IF IsElement(list, n) THEN list[n].id ELSE NoId]
  BY DEF Resolved
<1>2. \A n \in new : issued[n] # NoId => issued[n] \in Unused
  BY DEF Issued, Injection
<1>3. \A n \in DOMAIN list : IsElement(list, n) /\ n \notin new => list[n].id \in owned
  BY DEF Owns
<1> QED
  BY <1>1, <1>2, <1>3

LEMMA ReadOwnedKeeps ==
    ASSUME Inv, NEW c \in Calls, ReadOwned(c)
    PROVE  Inv' /\ HomesStay
<1>0. PICK k \in tx[c].todo : \E ids \in Resolved(In(c)[k], Scope(View(c), Parent(c), k)) :
        /\ tx' = [tx EXCEPT ![c].todo = @ \ {k}, ![c].key = k, ![c].ids = ids, ![c].at = 0]
        /\ home' = [i \in Ids |-> IF i \in Range(ids) /\ home[i] = None
                                  THEN <<Parent(c), k>> ELSE home[i]]
  BY DEF ReadOwned
<1>1. PICK ids \in Resolved(In(c)[k], Scope(View(c), Parent(c), k)) :
        /\ tx' = [tx EXCEPT ![c].todo = @ \ {k}, ![c].key = k, ![c].ids = ids, ![c].at = 0]
        /\ home' = [i \in Ids |-> IF i \in Range(ids) /\ home[i] = None
                                  THEN <<Parent(c), k>> ELSE home[i]]
  BY <1>0
<1>2. tx'[c] = [tx[c] EXCEPT !.todo = @ \ {k}, !.key = k, !.ids = ids, !.at = 0]
  BY <1>1 DEF Inv, Shaped
<1>3. /\ c \in Open /\ k \in Partitions(In(c)) /\ k # EmptyKey
      /\ Parent(c)' = Parent(c) /\ In(c)' = In(c) /\ pc'[c] = "delete"
  BY DEF ReadOwned, Inv, Local, Shaped, Open, Partitions, Goto, Parent, In
<1>4. HomesStay
  BY <1>1 DEF HomesStay
<1>5. Moves(c)
  BY <1>1, <1>4 DEF ReadOwned, Goto, Inv, Shaped, Moves
<1>6. Shaped'
  BY <1>1, <1>2 DEF ReadOwned, Goto, Inv, Shaped, Stage, NoTx
<1>7. /\ DOMAIN ids = DOMAIN In(c)[k]
      /\ \A n \in DOMAIN ids : ids[n] # NoId =>
             ids[n] \in Ids /\ home'[ids[n]] = <<Parent(c), k>>
  <2> DEFINE owned == Scope(View(c), Parent(c), k)
  <2>1. /\ DOMAIN ids = DOMAIN In(c)[k]
        /\ \A n \in DOMAIN ids : ids[n] # NoId => ids[n] \in owned \/ ids[n] \in Unused
    BY ResolvedAreOwnedOrUnused
  <2>2. ASSUME NEW n \in DOMAIN ids, ids[n] # NoId
        PROVE  ids[n] \in Ids /\ home'[ids[n]] = <<Parent(c), k>>
    <3>1. ids[n] \in Range(ids)
      BY DEF Range
    <3>2. CASE ids[n] \in owned
      BY <1>1, <1>3, <3>1, <3>2, ScopeIsHomed
    <3>3. CASE ids[n] \in Unused
      BY <1>1, <3>1, <3>3 DEF Unused
    <3> QED
      BY <2>1, <2>2, <3>2, <3>3
  <2> QED
    BY <2>1, <2>2
<1>8. /\ tx'[c].todo = tx[c].todo \ {k} /\ tx'[c].key = k /\ tx'[c].ids = ids
      /\ tx'[c].writes = tx[c].writes
  BY <1>2 DEF Inv, Shaped, NoTx
<1>9. ASSUME NEW i \in DOMAIN tx[c].writes
      PROVE  /\ i \in Ids /\ Homed(home', i, tx[c].writes[i])
             /\ home'[i] \in {Parent(c)} \X Partitions(In(c))
  <2>1. i \in Ids /\ Homed(home, i, tx[c].writes[i]) /\ home[i] \in {Parent(c)} \X Partitions(In(c))
    BY DEF Inv, Local
  <2>2. home[i] # None
    BY <1>3, <2>1, PartitionsAreKeys, NoHomeAssumption DEF Inv, Local
  <2> QED
    BY <1>4, <1>8, <2>1, <2>2 DEF HomesStay, Homed
<1>10. Local(c)'
  <2>1. (c \in Open)' /\ Parent(c)' \in Parents /\ In(c)' \in Patches
    BY <1>3 DEF Open, Inv, Local
  <2>2. tx'[c].todo \subseteq Partitions(In(c)')
    BY <1>3, <1>8 DEF Inv, Local
  <2>3. DOMAIN tx'[c].ids = DOMAIN List(c)' /\ tx'[c].key \in Partitions(In(c)')
    BY <1>3, <1>7, <1>8 DEF List, In
  <2>4. \A n \in DOMAIN tx'[c].ids : tx'[c].ids[n] # NoId =>
            tx'[c].ids[n] \in Ids /\ home'[tx'[c].ids[n]] = Here(c)'
    BY <1>3, <1>7, <1>8 DEF Here
  <2>5. \A i \in DOMAIN tx'[c].writes :
         /\ i \in Ids /\ Homed(home', i, tx[c].writes[i])
         /\ home'[i] \in {Parent(c)'} \X Partitions(In(c)')
    BY <1>3, <1>8, <1>9
  <2> QED
    BY <1>3, <1>8, <2>1, <2>2, <2>3, <2>4, <2>5 DEF Local, Homed
<1> QED
  BY <1>4, <1>5, <1>6, <1>10, Combined DEF ReadOwned

LEMMA StartDeleteKeeps ==
    ASSUME Inv, NEW c \in Calls, StartDelete(c)
    PROVE  Inv' /\ HomesStay
<1> DEFINE snap == Scope(View(c), Parent(c), tx[c].key) \ Range(tx[c].ids)
<1>1. tx'[c] = [tx[c] EXCEPT !.snap = snap]
  BY DEF StartDelete, Inv, Shaped
<1>2. /\ pc[c] = "delete" /\ pc'[c] = "deleting" /\ call'[c] = call[c]
      /\ Parent(c)' = Parent(c) /\ In(c)' = In(c) /\ tx[c].key \in Partitions(In(c))
  BY DEF StartDelete, Inv, Shaped, Goto, Parent, In, Local, Busy
<1>3. Moves(c) /\ HomesStay /\ home' = home
  BY DEF StartDelete, Goto, Inv, Shaped, Moves, HomesStay
<1>4. Shaped'
  BY <1>1 DEF StartDelete, Goto, Inv, Shaped, Stage, NoTx
<1>5. /\ tx'[c].todo = tx[c].todo /\ tx'[c].key = tx[c].key /\ tx'[c].ids = tx[c].ids
      /\ tx'[c].writes = tx[c].writes /\ tx'[c].snap = snap
  BY <1>1 DEF Inv, Shaped, NoTx
<1>6. \A i \in snap : i \in Ids /\ home[i] = Here(c)
  BY <1>2, ScopeIsHomed DEF Partitions, Here
<1>7. Local(c)'
  BY <1>2, <1>3, <1>5, <1>6 DEF Inv, Local, Open, Busy, Here, Homed, List, In
<1> QED
  BY <1>3, <1>4, <1>7, Combined DEF StartDelete

LEMMA FinishDeleteKeeps ==
    ASSUME Inv, NEW c \in Calls, FinishDelete(c)
    PROVE  Inv' /\ HomesStay
<1> DEFINE S == {i \in tx[c].snap : View(c)[i] # Absent}
           W == Over([i \in S |-> Absent], tx[c].writes)
<1>1. tx'[c] = [tx[c] EXCEPT !.writes = W, !.snap = {}]
  BY DEF FinishDelete, Inv, Shaped
<1>2. /\ pc[c] = "deleting" /\ pc'[c] \in {"upsert", "own", "echo"} /\ call'[c] = call[c]
      /\ Parent(c)' = Parent(c) /\ In(c)' = In(c) /\ home' = home
  BY DEF FinishDelete, Runs, GoOn, Inv, Shaped, Goto, Parent, In
<1>3. Moves(c) /\ HomesStay
  BY DEF FinishDelete, GoOn, Goto, Inv, Shaped, Moves, HomesStay
<1>4. Shaped'
  BY <1>1 DEF FinishDelete, GoOn, Goto, Inv, Shaped, Stage, NoTx
<1>5. /\ tx'[c].todo = tx[c].todo /\ tx'[c].key = tx[c].key /\ tx'[c].ids = tx[c].ids
      /\ tx'[c].writes = W
  BY <1>1 DEF Inv, Shaped, NoTx
<1>6. ASSUME NEW i \in DOMAIN W
      PROVE  i \in Ids /\ Homed(home, i, W[i]) /\ home[i] \in {Parent(c)} \X Partitions(In(c))
  <2>1. CASE i \in S
    <3>1. i \in Ids /\ home[i] = Here(c)
      BY <1>2, <2>1 DEF Inv, Local
    <3>2. W[i] = Absent
      BY <2>1 DEF Over
    <3> QED
      BY <1>2, <3>1, <3>2, HereIsAHome DEF Inv, Homed, Busy
  <2>2. CASE i \notin S
    BY <2>2 DEF Over, Inv, Local
  <2> QED
    BY <2>1, <2>2
<1>7. Local(c)'
  BY <1>2, <1>5, <1>6 DEF Inv, Local, Open, Busy, Here, Homed, List, In
<1> QED
  BY <1>3, <1>4, <1>7, Combined DEF FinishDelete

LEMMA UpsertKeeps ==
    ASSUME Inv, NEW c \in Calls, Upsert(c)
    PROVE  Inv' /\ HomesStay
<1>1. PICK n \in NextElement(c) :
        \E i \in IF tx[c].ids[n] = NoId THEN Unused ELSE {tx[c].ids[n]} :
          LET row == Upserted(View(c), i, Parent(c), tx[c].key, Position(List(c), n), List(c)[n])
          IN /\ tx' = [tx EXCEPT ![c].writes = Over([j \in {i} |-> row], @), ![c].at = n]
             /\ home' = [home EXCEPT ![i] = IF @ = None THEN <<Parent(c), tx[c].key>> ELSE @]
             /\ GoOn(c, Following(c) \ {n})
  BY DEF Upsert
<1>2. PICK i \in IF tx[c].ids[n] = NoId THEN Unused ELSE {tx[c].ids[n]} :
          LET row == Upserted(View(c), i, Parent(c), tx[c].key, Position(List(c), n), List(c)[n])
          IN /\ tx' = [tx EXCEPT ![c].writes = Over([j \in {i} |-> row], @), ![c].at = n]
             /\ home' = [home EXCEPT ![i] = IF @ = None THEN <<Parent(c), tx[c].key>> ELSE @]
             /\ GoOn(c, Following(c) \ {n})
  BY <1>1
<1> DEFINE row == Upserted(View(c), i, Parent(c), tx[c].key, Position(List(c), n), List(c)[n])
           W == Over([j \in {i} |-> row], tx[c].writes)
<1>3. tx'[c] = [tx[c] EXCEPT !.writes = W, !.at = n]
  BY <1>2 DEF Inv, Shaped
<1>4. /\ pc[c] = "upsert" /\ pc'[c] \in {"upsert", "own", "echo"} /\ call'[c] = call[c]
      /\ Parent(c)' = Parent(c) /\ In(c)' = In(c)
  BY <1>2 DEF Upsert, Runs, GoOn, Inv, Shaped, Goto, Parent, In
<1>5. n \in DOMAIN tx[c].ids
  BY <1>4 DEF NextElement, Following, Inv, Local, Busy
<1>6. i \in Ids /\ home'[i] = Here(c) /\ (home[i] = None \/ home[i] = Here(c))
  <2>1. CASE tx[c].ids[n] = NoId
    BY <1>2, <2>1 DEF Unused, Inv, Shaped, Here
  <2>2. CASE tx[c].ids[n] # NoId
    <3>1. i = tx[c].ids[n] /\ i \in Ids /\ home[i] = Here(c)
      BY <1>2, <1>4, <1>5, <2>2 DEF Inv, Local, Busy
    <3> QED
      BY <1>2, <3>1 DEF Inv, Shaped, Here
  <2> QED
    BY <2>1, <2>2
<1>7. HomesStay
  BY <1>2, <1>6 DEF HomesStay, Inv, Shaped
<1>8. Moves(c)
  BY <1>2, <1>7 DEF Upsert, GoOn, Goto, Inv, Shaped, Moves
<1>9. Shaped'
  BY <1>2, <1>3 DEF Upsert, GoOn, Goto, Inv, Shaped, Stage, NoTx
<1>10. /\ tx'[c].todo = tx[c].todo /\ tx'[c].key = tx[c].key /\ tx'[c].ids = tx[c].ids
       /\ tx'[c].writes = W
  BY <1>3 DEF Inv, Shaped, NoTx
<1>11. Here(c) # None /\ Here(c) \in {Parent(c)} \X Partitions(In(c))
  BY <1>4, HereIsAHome DEF Inv, Busy
<1>12. {"parent", "key"} \subseteq DOMAIN row /\ <<row.parent, row.key>> = Here(c)
  <2>1. CASE View(c)[i] = Absent
    BY <2>1 DEF Upserted, Here
  <2>2. CASE View(c)[i] # Absent
    <3>1. Homed(home, i, View(c)[i])
      BY <1>6, ViewIsHomed
    <3>2. /\ {"parent", "key"} \subseteq DOMAIN View(c)[i]
          /\ Here(c) = <<View(c)[i].parent, View(c)[i].key>>
      BY <1>6, <2>2, <3>1 DEF Homed
    <3>3. PICK p, s : row = [View(c)[i] EXCEPT !.pos = p, !.cells = s]
      BY <2>2 DEF Upserted
    <3>4. DOMAIN row = DOMAIN View(c)[i]
          /\ row.parent = View(c)[i].parent /\ row.key = View(c)[i].key
      BY <3>2, <3>3
    <3> QED
      BY <3>2, <3>4
  <2> QED
    BY <2>1, <2>2
<1>13. ASSUME NEW j \in DOMAIN W
       PROVE  j \in Ids /\ Homed(home', j, W[j]) /\ home'[j] \in {Parent(c)} \X Partitions(In(c))
  <2>1. CASE j = i
    <3>1. W[i] = row
      BY DEF Over
    <3> QED
      BY <1>6, <1>10, <1>11, <1>12, <2>1, <3>1 DEF Homed
  <2>2. CASE j # i
    <3>1. /\ j \in Ids /\ Homed(home, j, tx[c].writes[j]) /\ W[j] = tx[c].writes[j]
          /\ home[j] \in {Parent(c)} \X Partitions(In(c))
      BY <2>2 DEF Over, Inv, Local
    <3>2. home'[j] = home[j]
      BY <1>2, <2>2, <3>1 DEF Inv, Shaped
    <3> QED
      BY <1>10, <3>1, <3>2 DEF Homed
  <2> QED
    BY <2>1, <2>2
<1>14. ASSUME NEW m \in DOMAIN tx[c].ids, tx[c].ids[m] # NoId
       PROVE  tx[c].ids[m] \in Ids /\ home'[tx[c].ids[m]] = Here(c)
  BY <1>4, <1>7, <1>11, <1>14 DEF Inv, Local, Busy, HomesStay
<1>15. Local(c)'
  <2>1. (c \in Open)' /\ c \in Open /\ Here(c)' = Here(c) /\ List(c)' = List(c)
    BY <1>4, <1>10 DEF Open, Here, List, In
  <2>2. ~ pc'[c] = "deleting"
    BY <1>4
  <2> QED
    BY <1>4, <1>10, <1>13, <1>14, <2>1, <2>2 DEF Inv, Local, Busy
<1> QED
  BY <1>7, <1>8, <1>9, <1>15, Combined DEF Upsert

LEMMA EchoKeeps ==
    ASSUME Inv, NEW c \in Calls, Echo(c)
    PROVE  Inv' /\ HomesStay
<1>1. tx'[c] = [tx[c] EXCEPT !.echo = Read(View(c), Parent(c))]
  BY DEF Echo, Inv, Shaped
<1>2. /\ pc[c] = "echo" /\ pc'[c] = "commit" /\ call'[c] = call[c]
      /\ Parent(c)' = Parent(c) /\ In(c)' = In(c)
  BY DEF Echo, Inv, Shaped, Goto, Parent, In
<1>3. Moves(c) /\ HomesStay /\ home' = home
  BY DEF Echo, Goto, Inv, Shaped, Moves, HomesStay
<1>4. Shaped'
  BY <1>1 DEF Echo, Goto, Inv, Shaped, Stage, NoTx
<1>5. tx'[c].todo = tx[c].todo /\ tx'[c].writes = tx[c].writes
  BY <1>1 DEF Inv, Shaped, NoTx
<1>6. Local(c)'
  BY <1>2, <1>3, <1>5 DEF Inv, Local, Open, Busy, Homed
<1> QED
  BY <1>3, <1>4, <1>6, Combined DEF Echo

\* However a transaction ends, it leaves nothing of the call's behind.
LEMMA ReturnKeeps ==
    ASSUME Inv, NEW c \in Calls, NEW a, Return(c, a), rows' = rows \/ rows' = View(c)
    PROVE  Inv' /\ HomesStay
<1>1. tx'[c] = NoTx /\ pc'[c] = "done" /\ home' = home
  BY DEF Return, Goto, Inv, Shaped
<1>2. Moves(c) /\ HomesStay
  BY DEF Return, Goto, Inv, Shaped, Moves, HomesStay
<1>3. Shaped'
  <2>1. DOMAIN View(c) = Ids
    BY DEF View, Over, Inv, Shaped, Local
  <2> QED
    BY <1>1, <2>1 DEF Return, Goto, Inv, Shaped, Stage
<1>4. Local(c)'
  BY <1>1 DEF Local, Open, Busy, NoTx
<1>5. rows' = View(c) => AllHomed'
  BY <1>1, ViewIsHomed DEF AllHomed
<1> QED
  BY <1>2, <1>3, <1>4, <1>5, Combined

LEMMA InitHomed == Init => Inv
<1> SUFFICES ASSUME Init PROVE Inv
  OBVIOUS
<1>1. Shaped
  BY InitialRowsAssumption DEF Init, Shaped, Stage
<1>2. AllHomed
  <2> SUFFICES ASSUME NEW i \in Ids, rows[i] # Absent
               PROVE  Homed(home, i, rows[i])
    BY DEF AllHomed, Homed
  <2>1. rows[i] \in Row
    BY InitialRowsAssumption DEF Init
  <2>2. home[i] = <<rows[i].parent, rows[i].key>>
    BY DEF Init
  <2> QED
    BY <2>1, <2>2, NoHomeAssumption DEF Homed, Row
<1>3. \A c \in Calls : Local(c)
  BY DEF Init, Local, Open, Busy, NoTx
<1> QED
  BY <1>1, <1>2, <1>3 DEF Inv

LEMMA NextHomed ==
    ASSUME Inv, [Next]_vars
    PROVE  Inv' /\ HomesStay
<1>1. CASE UNCHANGED vars
  BY <1>1 DEF vars, Inv, Shaped, AllHomed, Homed, Local, Open, Parent, In, List, Here, HomesStay
<1>2. CASE Finished
  BY <1>1, <1>2 DEF Finished
<1>3. ASSUME NEW c \in Calls, Start(c) \/ Statement(c) \/ Fail(c) \/ DeadlockVictim(c)
      PROVE  Inv' /\ HomesStay
  <2>1. CASE Start(c)
    BY <2>1, StartKeeps DEF Start, HomesStay
  <2>2. CASE ReadOwned(c)
    BY <2>2, ReadOwnedKeeps
  <2>3. CASE StartDelete(c)
    BY <2>3, StartDeleteKeeps
  <2>4. CASE FinishDelete(c)
    BY <2>4, FinishDeleteKeeps
  <2>5. CASE Upsert(c)
    BY <2>5, UpsertKeeps
  <2>6. CASE Echo(c)
    BY <2>6, EchoKeeps
  <2>7. CASE Commit(c)
    BY <2>7, ReturnKeeps DEF Commit
  <2>8. CASE Fail(c) \/ DeadlockVictim(c)
    BY <2>8, ReturnKeeps DEF Fail, DeadlockVictim
  <2> QED
    BY <1>3, <2>1, <2>2, <2>3, <2>4, <2>5, <2>6, <2>7, <2>8 DEF Statement
<1> QED
  BY <1>1, <1>2, <1>3 DEF Next

LEMMA AlwaysHomed == Spec => []Inv
  BY InitHomed, NextHomed, PTL DEF Spec
-------------------------------------------------------------------------------
\* child.go:409: whatever ids are sent, and however the saves overlap, a row
\* stays with the parent and in the partition it was made for.
THEOREM RowsStay == Spec => []RowsStayHome
<1>1. Inv => RowsStayHome
  BY DEF Inv, AllHomed, Homed, RowsStayHome
<1> QED
  BY <1>1, AlwaysHomed, PTL

\* child.go:733-734: "own" is what this parent has in this partition, so a save
\* changes no row outside the partitions it was sent.
THEOREM SavesStayHome == Spec => OthersUntouched
<1>1. ASSUME Inv, [Next]_vars, NEW c \in Calls, pc[c] = "commit", pc'[c] = "done",
             NEW i \in Ids, rows'[i] # rows[i]
      PROVE  home[i] \in {Parent(c)} \X Partitions(In(c))
  <2>1. PICK d \in Calls : Start(d) \/ Statement(d) \/ Fail(d) \/ DeadlockVictim(d)
    BY <1>1 DEF Next, Finished, vars
  <2>2. d = c
    <3>1. \E l : pc' = [pc EXCEPT ![d] = l]
      <4>1. CASE Start(d) \/ ReadOwned(d) \/ StartDelete(d) \/ Echo(d)
        BY <4>1 DEF Start, ReadOwned, StartDelete, Echo, Goto
      <4>2. CASE FinishDelete(d) \/ Upsert(d)
        BY <4>2 DEF FinishDelete, Upsert, GoOn, Goto
      <4>3. CASE Commit(d) \/ Fail(d) \/ DeadlockVictim(d)
        BY <4>3 DEF Commit, Fail, DeadlockVictim, Return, Goto
      <4> QED
        BY <2>1, <4>1, <4>2, <4>3 DEF Statement
    <3> QED
      BY <1>1, <3>1 DEF Inv, Shaped
  <2>3. rows' = View(c)
    BY <1>1, <2>1, <2>2 DEF Start, Statement, ReadOwned, StartDelete, FinishDelete, Upsert,
                            Echo, Commit, Fail, DeadlockVictim
  <2>4. i \in DOMAIN tx[c].writes
    BY <1>1, <2>3 DEF View, Over, Inv, Shaped
  <2> QED
    BY <1>1, <2>4 DEF Inv, Local
<1>2. Inv /\ [Next]_vars =>
        [\A c \in Calls : pc[c] = "commit" /\ pc'[c] = "done" =>
             \A i \in Ids : rows'[i] # rows[i] =>
                 home[i] \in {Parent(c)} \X Partitions(In(c))]_vars
  BY <1>1
<1> QED
  BY <1>2, AlwaysHomed, PTL DEF Spec, OthersUntouched
-------------------------------------------------------------------------------
(* The types.  Of what is about to be written, that it is a row: an element   *)
(* that is written has parsed, and its position is a number.                  *)

SharedTyped ==
    /\ rows \in [Ids -> Row \cup {Absent}]
    /\ home \in [Ids -> (Parents \X Keys) \cup {None}]
    /\ held \in [Ids -> Calls \cup {None}]

WritesTyped(w) == DOMAIN w \subseteq Ids /\ Range(w) \subseteq Row \cup {Absent}

TxTyped(t) ==
    /\ DOMAIN t = DOMAIN NoTx
    /\ t.todo \subseteq Keys /\ t.snap \subseteq Ids
    /\ t.key \in Keys \cup {None} /\ t.at \in Nat
    /\ Range(t.ids) \subseteq Ids \cup {NoId}
    /\ WritesTyped(t.writes)

\* A step of one call that keeps the types of what it touches.
TypedStep(c) ==
    /\ hasNewID' = hasNewID
    /\ SharedTyped'
    /\ \E l \in Stage : pc' = [pc EXCEPT ![c] = l]
    /\ call' = call \/ \E r \in [parent : Parents, in : Patches] : call' = [call EXCEPT ![c] = r]
    /\ \E t : TxTyped(t) /\ tx' = [tx EXCEPT ![c] = t]
    /\ answer' = answer \/ \E a \in {"ok", "err"} : answer' = [answer EXCEPT ![c] = a]

LEMMA TypedStepKeeps ==
    ASSUME Inv, TypeOK, NEW c \in Calls, TypedStep(c)
    PROVE  TypeOK'
<1>1. \A d \in Calls : TxTyped(tx'[d])
  BY DEF TypedStep, TypeOK, TxTyped, WritesTyped, Inv, Shaped
<1>2. pc' \in [Calls -> Stage] /\ call' \in [Calls -> [parent : Parents, in : Patches] \cup {None}]
      /\ answer' \in [Calls -> {None, "ok", "err"}]
  BY DEF TypedStep, TypeOK
<1> QED
  BY <1>1, <1>2 DEF TypedStep, SharedTyped, TypeOK, TxTyped, WritesTyped

LEMMA NoTxTyped == TxTyped(NoTx)
  BY DEF TxTyped, WritesTyped, NoTx, Range

LEMMA WritesStayTyped ==
    ASSUME NEW new, NEW old, WritesTyped(old),
           DOMAIN new \subseteq Ids, \A i \in DOMAIN new : new[i] \in Row \cup {Absent}
    PROVE  WritesTyped(Over(new, old))
<1>1. \A i \in DOMAIN old : old[i] \in Row \cup {Absent}
  BY DEF WritesTyped, Range
<1>2. DOMAIN Over(new, old) = DOMAIN new \cup DOMAIN old
      /\ \A i \in DOMAIN Over(new, old) : Over(new, old)[i] \in Row \cup {Absent}
  BY <1>1 DEF Over
<1>3. DOMAIN Over(new, old) \subseteq Ids
  BY <1>2 DEF WritesTyped
<1> QED
  BY <1>2, <1>3 DEF WritesTyped, Range

LEMMA ScopeTyped == \A view, p, k : Scope(view, p, k) \subseteq Ids
  BY DEF Scope

LEMMA ViewTyped ==
    ASSUME TypeOK, NEW c \in Calls
    PROVE  View(c) \in [Ids -> Row \cup {Absent}]
<1> DEFINE w == tx[c].writes
<1>1. DOMAIN w \subseteq Ids /\ \A i \in DOMAIN w : w[i] \in Row \cup {Absent}
  BY DEF TypeOK, Range
<1>2. rows \in [Ids -> Row \cup {Absent}]
  BY DEF TypeOK
<1> QED
  BY <1>1, <1>2 DEF View, Over

\* What a list holds, at the indexes of its elements.
LEMMA ElementTyped ==
    ASSUME NEW in \in Patches, NEW k \in Partitions(in), NEW n, IsElement(in[k], n)
    PROVE  /\ n \in Nat
           /\ DOMAIN in[k][n].set \subseteq Cells
           /\ \A f \in Sent(in[k][n]) : in[k][n].set[f] \in Values \cup {Null}
<1> DEFINE Sets == UNION {[S -> Values \cup {Null, Bad}] : S \in SUBSET Cells}
           Elements == [id : Ids \cup {NoId}, set : Sets]
<1>1. in[k] \in Seq(Elements \cup {Bad})
  BY PatchAssumption DEF Partitions
<1>2. n \in Nat /\ in[k][n] \in Elements
  BY <1>1 DEF IsElement
<1>3. in[k][n].set \in Sets
  BY <1>2
<1>4. PICK S \in SUBSET Cells : in[k][n].set \in [S -> Values \cup {Null, Bad}]
  BY <1>3
<1> QED
  BY <1>2, <1>4 DEF Sent

LEMMA PositionTyped ==
    ASSUME NEW list, NEW n \in Nat
    PROVE  Position(list, n) \in Nat
<1> DEFINE P == {m \in 1..n : IsElement(list, m)}
<1>1. IsFiniteSet(1..n)
  BY FS_Interval
<1>2. IsFiniteSet(P)
  BY <1>1, FS_Subset
<1> QED
  BY <1>2, FS_CardinalityType DEF Position

LEMMA UpsertedTyped ==
    ASSUME NEW view \in [Ids -> Row \cup {Absent}], NEW i \in Ids, NEW p \in Parents,
           NEW k \in Keys, NEW pos \in Nat, NEW e,
           DOMAIN e.set \subseteq Cells, \A f \in Sent(e) : e.set[f] \in Values \cup {Null}
    PROVE  Upserted(view, i, p, k, pos, e) \in Row
<1> DEFINE set == [f \in Sent(e) |-> e.set[f]]
<1>1. Sent(e) \subseteq Cells
  BY DEF Sent
<1>2. ASSUME NEW old \in [Cells -> Values \cup {Null}]
      PROVE  Over(set, old) \in [Cells -> Values \cup {Null}]
  BY <1>1, <1>2 DEF Over
<1>3. CASE view[i] = Absent
  <2>1. [f \in Cells |-> Null] \in [Cells -> Values \cup {Null}]
    OBVIOUS
  <2>2. Upserted(view, i, p, k, pos, e) =
          [parent |-> p, key |-> k, pos |-> pos, cells |-> Over(set, [f \in Cells |-> Null])]
    BY <1>3 DEF Upserted
  <2>3. Over(set, [f \in Cells |-> Null]) \in [Cells -> Values \cup {Null}]
    BY <1>2, <2>1
  <2> QED
    BY <2>2, <2>3 DEF Row
<1>4. CASE view[i] # Absent
  <2>1. view[i] \in Row
    BY <1>4
  <2>2. view[i].cells \in [Cells -> Values \cup {Null}]
    BY <2>1 DEF Row
  <2>3. Over(set, view[i].cells) \in [Cells -> Values \cup {Null}]
    BY <1>2, <2>2
  <2>4. Upserted(view, i, p, k, pos, e) =
          [view[i] EXCEPT !.pos = pos, !.cells = Over(set, view[i].cells)]
    BY <1>4 DEF Upserted
  <2> QED
    BY <2>1, <2>3, <2>4 DEF Row
<1> QED
  BY <1>3, <1>4
-------------------------------------------------------------------------------
LEMMA StartTyped ==
    ASSUME Inv, TypeOK, NEW c \in Calls, Start(c)
    PROVE  TypedStep(c)
<1>1. PICK p \in Parents, in \in Patches :
        /\ call' = [call EXCEPT ![c] = [parent |-> p, in |-> in]]
        /\ tx' = [tx EXCEPT ![c].todo = Partitions(in)]
        /\ Goto(c, IF Partitions(in) = {} THEN "echo" ELSE "own")
  BY DEF Start
<1> DEFINE t == [tx[c] EXCEPT !.todo = Partitions(in)]
<1>2. TxTyped(t)
  BY PartitionsAreKeys DEF TypeOK, TxTyped, WritesTyped, NoTx
<1>3. tx' = [tx EXCEPT ![c] = t]
  BY <1>1
<1>4. [parent |-> p, in |-> in] \in [parent : Parents, in : Patches]
  OBVIOUS
<1>5. SharedTyped'
  BY DEF Start, SharedTyped, TypeOK
<1> QED
  BY <1>1, <1>2, <1>3, <1>4, <1>5 DEF TypedStep, Start, Goto, Stage

LEMMA ReadOwnedTyped ==
    ASSUME Inv, TypeOK, NEW c \in Calls, ReadOwned(c)
    PROVE  TypedStep(c)
<1>0. PICK k \in tx[c].todo : \E ids \in Resolved(In(c)[k], Scope(View(c), Parent(c), k)) :
        /\ tx' = [tx EXCEPT ![c].todo = @ \ {k}, ![c].key = k, ![c].ids = ids, ![c].at = 0]
        /\ home' = [i \in Ids |-> IF i \in Range(ids) /\ home[i] = None
                                  THEN <<Parent(c), k>> ELSE home[i]]
  BY DEF ReadOwned
<1>1. PICK ids \in Resolved(In(c)[k], Scope(View(c), Parent(c), k)) :
        /\ tx' = [tx EXCEPT ![c].todo = @ \ {k}, ![c].key = k, ![c].ids = ids, ![c].at = 0]
        /\ home' = [i \in Ids |-> IF i \in Range(ids) /\ home[i] = None
                                  THEN <<Parent(c), k>> ELSE home[i]]
  BY <1>0
<1> DEFINE t == [tx[c] EXCEPT !.todo = @ \ {k}, !.key = k, !.ids = ids, !.at = 0]
<1>2. Range(ids) \subseteq Ids \cup {NoId}
  BY ResolvedAreOwnedOrUnused, ScopeTyped DEF Range, Unused
<1>3. k \in Keys /\ Parent(c) \in Parents
  BY DEF ReadOwned, TypeOK, Inv, Local, Open
<1>4. TxTyped(t)
  BY <1>2, <1>3 DEF TypeOK, TxTyped, WritesTyped, NoTx
<1>5. tx' = [tx EXCEPT ![c] = t]
  BY <1>1
<1>6. SharedTyped'
  <2>1. <<Parent(c), k>> \in Parents \X Keys
    BY <1>3
  <2>2. home' \in [Ids -> (Parents \X Keys) \cup {None}]
    BY <1>1, <2>1 DEF TypeOK
  <2> QED
    BY <2>2 DEF ReadOwned, SharedTyped, TypeOK
<1> QED
  BY <1>4, <1>5, <1>6 DEF TypedStep, ReadOwned, Goto, Stage

LEMMA StartDeleteTyped ==
    ASSUME Inv, TypeOK, NEW c \in Calls, StartDelete(c)
    PROVE  TypedStep(c)
<1> DEFINE S == Scope(View(c), Parent(c), tx[c].key) \ Range(tx[c].ids)
           t == [tx[c] EXCEPT !.snap = S]
<1>1. S \subseteq Ids
  BY ScopeTyped
<1> HIDE DEF S
<1>2. TxTyped(t)
  BY <1>1 DEF TypeOK, TxTyped, WritesTyped, NoTx
<1>3. tx' = [tx EXCEPT ![c] = t]
  BY DEF StartDelete, S
<1> QED
  BY <1>2, <1>3 DEF TypedStep, StartDelete, Goto, Stage, SharedTyped, TypeOK

LEMMA FinishDeleteTyped ==
    ASSUME Inv, TypeOK, NEW c \in Calls, FinishDelete(c)
    PROVE  TypedStep(c)
<1> DEFINE S == {i \in tx[c].snap : View(c)[i] # Absent}
           W == Over([i \in S |-> Absent], tx[c].writes)
           t == [tx[c] EXCEPT !.writes = W, !.snap = {}]
<1>1. WritesTyped(W)
  <2> DEFINE w == [i \in S |-> Absent]
  <2>1. WritesTyped(tx[c].writes) /\ S \subseteq Ids
    BY DEF TypeOK, WritesTyped
  <2>2. DOMAIN w \subseteq Ids /\ \A i \in DOMAIN w : w[i] \in Row \cup {Absent}
    BY <2>1
  <2> HIDE DEF w
  <2>3. WritesTyped(Over(w, tx[c].writes))
    BY <2>1, <2>2, WritesStayTyped
  <2> QED
    BY <2>3 DEF w
<1>2. tx' = [tx EXCEPT ![c] = t] /\ held' = [i \in Ids |-> IF i \in S THEN c ELSE held[i]]
  BY DEF FinishDelete
<1> HIDE DEF W, S
<1>3. TxTyped(t)
  BY <1>1 DEF TypeOK, TxTyped, WritesTyped, NoTx
<1>4. SharedTyped'
  BY <1>2 DEF FinishDelete, SharedTyped, TypeOK
<1> QED
  BY <1>2, <1>3, <1>4 DEF TypedStep, FinishDelete, GoOn, Goto, Stage

LEMMA UpsertTyped ==
    ASSUME Inv, TypeOK, NEW c \in Calls, Upsert(c)
    PROVE  TypedStep(c)
<1> DEFINE Result(n, i) == Upserted(View(c), i, Parent(c), tx[c].key, Position(List(c), n), List(c)[n])
           W(n, i) == Over([j \in {i} |-> Result(n, i)], tx[c].writes)
<1>1. PICK n \in NextElement(c) :
        \E i \in IF tx[c].ids[n] = NoId THEN Unused ELSE {tx[c].ids[n]} :
           /\ tx' = [tx EXCEPT ![c].writes = W(n, i), ![c].at = n]
           /\ home' = [home EXCEPT ![i] = IF @ = None THEN <<Parent(c), tx[c].key>> ELSE @]
           /\ held' = [held EXCEPT ![i] = c]
           /\ GoOn(c, Following(c) \ {n})
  BY DEF Upsert
<1>2. PICK i \in IF tx[c].ids[n] = NoId THEN Unused ELSE {tx[c].ids[n]} :
           /\ tx' = [tx EXCEPT ![c].writes = W(n, i), ![c].at = n]
           /\ home' = [home EXCEPT ![i] = IF @ = None THEN <<Parent(c), tx[c].key>> ELSE @]
           /\ held' = [held EXCEPT ![i] = c]
           /\ GoOn(c, Following(c) \ {n})
  BY <1>1
<1>3. /\ pc[c] = "upsert" /\ c \in Open /\ IsElement(List(c), n)
      /\ n \in DOMAIN List(c) /\ Parent(c) \in Parents /\ In(c) \in Patches
      /\ tx[c].key \in Partitions(In(c)) /\ DOMAIN tx[c].ids = DOMAIN List(c)
  BY DEF Upsert, Runs, Open, NextElement, Following, Inv, Local, Busy
<1>4. tx[c].key \in Keys
  BY <1>3, PartitionsAreKeys
<1>5. i \in Ids
  <2>1. CASE tx[c].ids[n] = NoId
    BY <2>1 DEF Unused
  <2>2. CASE tx[c].ids[n] # NoId
    BY <1>3, <2>2 DEF Inv, Local, Busy
  <2> QED
    BY <2>1, <2>2
<1>6. /\ n \in Nat /\ DOMAIN List(c)[n].set \subseteq Cells
      /\ \A f \in Sent(List(c)[n]) : List(c)[n].set[f] \in Values \cup {Null}
  BY <1>3, ElementTyped DEF List
<1>7. Position(List(c), n) \in Nat
  BY <1>6, PositionTyped
<1>8. Result(n, i) \in Row
  BY <1>3, <1>4, <1>5, <1>6, <1>7, ViewTyped, UpsertedTyped
<1> HIDE DEF Result
<1>9. WritesTyped(W(n, i))
  <2> DEFINE w == [j \in {i} |-> Result(n, i)]
  <2>1. WritesTyped(tx[c].writes)
    BY DEF TypeOK, WritesTyped
  <2>2. DOMAIN w \subseteq Ids /\ \A j \in DOMAIN w : w[j] \in Row \cup {Absent}
    BY <1>5, <1>8
  <2> HIDE DEF w
  <2>3. WritesTyped(Over(w, tx[c].writes))
    BY <2>1, <2>2, WritesStayTyped
  <2> QED
    BY <2>3 DEF w
<1> HIDE DEF W
<1> DEFINE t == [tx[c] EXCEPT !.writes = W(n, i), !.at = n]
<1>10. TxTyped(t)
  BY <1>6, <1>9 DEF TypeOK, TxTyped, WritesTyped, NoTx
<1>11. tx' = [tx EXCEPT ![c] = t]
  BY <1>2
<1>12. SharedTyped'
  <2>1. <<Parent(c), tx[c].key>> \in Parents \X Keys
    BY <1>3, <1>4
  <2>2. home' \in [Ids -> (Parents \X Keys) \cup {None}]
    BY <1>2, <2>1 DEF TypeOK
  <2> QED
    BY <1>2, <2>2 DEF Upsert, SharedTyped, TypeOK
<1> QED
  BY <1>2, <1>10, <1>11, <1>12 DEF TypedStep, Upsert, GoOn, Goto, Stage

LEMMA EchoTyped ==
    ASSUME Inv, TypeOK, NEW c \in Calls, Echo(c)
    PROVE  TypedStep(c)
<1> DEFINE t == [tx[c] EXCEPT !.echo = Read(View(c), Parent(c))]
<1>1. TxTyped(t)
  BY DEF TypeOK, TxTyped, WritesTyped, NoTx
<1>2. tx' = [tx EXCEPT ![c] = t]
  BY DEF Echo
<1> QED
  BY <1>1, <1>2 DEF TypedStep, Echo, Goto, Stage, SharedTyped, TypeOK

LEMMA ReturnTyped ==
    ASSUME Inv, TypeOK, NEW c \in Calls, NEW a \in {"ok", "err"}, Return(c, a),
           rows' = rows \/ rows' = View(c)
    PROVE  TypedStep(c)
<1>1. SharedTyped'
  BY ViewTyped DEF Return, SharedTyped, TypeOK
<1>2. tx' = [tx EXCEPT ![c] = NoTx]
  BY DEF Return
<1> QED
  BY <1>1, <1>2, NoTxTyped DEF TypedStep, Return, Goto, Stage

LEMMA InitTyped == Init => TypeOK
<1> SUFFICES ASSUME Init PROVE TypeOK
  OBVIOUS
<1>1. \A c \in Calls : TxTyped(tx[c])
  BY NoTxTyped DEF Init
<1>2. home \in [Ids -> (Parents \X Keys) \cup {None}]
  <2>1. \A i \in Ids : rows[i] # Absent => rows[i] \in Row
    BY InitialRowsAssumption DEF Init
  <2>2. \A i \in Ids : rows[i] # Absent => <<rows[i].parent, rows[i].key>> \in Parents \X Keys
    BY <2>1 DEF Row
  <2> QED
    BY <2>2 DEF Init
<1> QED
  BY <1>1, <1>2, InitialRowsAssumption DEF Init, TypeOK, TxTyped, WritesTyped, Stage

LEMMA StepTyped ==
    ASSUME Inv, TypeOK, NEW c \in Calls,
           Start(c) \/ Statement(c) \/ Fail(c) \/ DeadlockVictim(c)
    PROVE  TypedStep(c)
<1>1. CASE Commit(c)
  BY <1>1, ReturnTyped DEF Commit
<1>2. CASE Fail(c) \/ DeadlockVictim(c)
  BY <1>2, ReturnTyped DEF Fail, DeadlockVictim
<1> QED
  BY <1>1, <1>2, StartTyped, ReadOwnedTyped, StartDeleteTyped, FinishDeleteTyped,
     UpsertTyped, EchoTyped DEF Statement

LEMMA NextTyped ==
    ASSUME Inv, TypeOK, [Next]_vars
    PROVE  TypeOK'
<1>1. CASE UNCHANGED vars
  BY <1>1 DEF vars, TypeOK
<1>2. CASE Finished
  BY <1>1, <1>2 DEF Finished
<1> QED
  BY <1>1, <1>2, StepTyped, TypedStepKeeps DEF Next

\* child.go:672-690, :790-826: whatever ids and elements are sent, and however the
\* saves overlap, ids, positions and cells keep their types in every row, in the
\* table and about to be written.
THEOREM TypeCorrect == Spec => []TypeOK
  BY InitTyped, AlwaysHomed, NextTyped, PTL DEF Spec
-------------------------------------------------------------------------------
(* What a save leaves and reports, where it has the lock of its main row.     *)
(* Open saves then have parents of their own, so that what one of them has    *)
(* read of its lists stays true until it commits.                             *)

Apart == \A c, d \in Open : c # d => Parent(c) # Parent(d)

\* What a call has written is in the partitions it has turned to.
Reached(c) == \A i \in DOMAIN tx[c].writes :
                  home[i] \in {Parent(c)} \X (Partitions(In(c)) \ tx[c].todo)

\* The list that is being written: what is the parent's own keeps its id, and no
\* two elements have the same.
IdsKept(c) ==
    LET list == List(c)
        ids  == tx[c].ids
    IN /\ tx[c].key \notin tx[c].todo
       /\ \A n \in DOMAIN list :
            Owns(list, Scope(rows, Parent(c), tx[c].key), n) => ids[n] = list[n].id
       /\ \A m, n \in DOMAIN ids : ids[m] = ids[n] /\ ids[n] # NoId => m = n

\* What is the parent's own is there, and differs in what was sent alone.
Spares(view, list, n) ==
    /\ view[list[n].id] # Absent
    /\ \A f \in Cells \ Sent(list[n]) : view[list[n].id].cells[f] = rows[list[n].id].cells[f]
OwnSpared(c) ==
    \A k \in Partitions(In(c)) : \A n \in DOMAIN In(c)[k] :
        Owns(In(c)[k], Scope(rows, Parent(c), k), n) => Spares(View(c), In(c)[k], n)

Saving(c) ==
    /\ c \in Open => answer[c] = None /\ Reached(c) /\ OwnSpared(c)
    /\ pc[c] = "idle" => answer[c] = None
    /\ pc[c] \in Busy => IdsKept(c)
    /\ pc[c] = "deleting" => tx[c].snap \cap Range(tx[c].ids) = {}
    /\ pc[c] = "commit" => tx[c].echo = Read(View(c), Parent(c))

Saves == Inv /\ TypeOK /\ Apart /\ \A c \in Calls : Saving(c)

\* The step of another call: it changes no row of this one's parent.
Foreign(c) == \A i \in Ids : rows'[i] # rows[i] =>
                 home[i] \in Parents \X Keys /\ home[i][1] # Parent(c)
Aside(c) == /\ Foreign(c) /\ HomesStay
            /\ pc'[c] = pc[c] /\ call'[c] = call[c] /\ tx'[c] = tx[c] /\ answer'[c] = answer[c]

LEMMA SameView ==
    ASSUME Inv, Inv', NEW c \in Calls, tx'[c] = tx[c], NEW i \in Ids, rows'[i] = rows[i]
    PROVE  View(c)'[i] = View(c)[i]
<1>1. DOMAIN rows = Ids /\ DOMAIN rows' = Ids
  BY DEF Inv, Shaped
<1> QED
  BY <1>1 DEF View, Over

LEMMA HomeStays ==
    ASSUME Inv, Inv', NEW c \in Calls, Aside(c), NEW i \in Ids, NEW k \in Keys,
           home[i] = <<Parent(c), k>>, home[i] # None
    PROVE  rows'[i] = rows[i] /\ View(c)'[i] = View(c)[i]
<1>1. rows'[i] = rows[i]
  BY DEF Aside, Foreign
<1>2. tx'[c] = tx[c]
  BY DEF Aside
<1> QED
  BY <1>1, <1>2, SameView

LEMMA OwnScopeStays ==
    ASSUME Inv, Inv', NEW c \in Calls, c \in Open, Aside(c), NEW k \in Keys
    PROVE  /\ Scope(rows, Parent(c), k)' = Scope(rows, Parent(c), k)
           /\ Scope(View(c), Parent(c), k)' = Scope(View(c), Parent(c), k)
<1>1. Parent(c)' = Parent(c) /\ k # EmptyKey /\ <<Parent(c), k>> # None
  BY SentinelAssumption, NoHomeAssumption DEF Aside, Parent, Inv, Local
<1>2. ASSUME NEW i \in Ids, home[i] = <<Parent(c), k>>
      PROVE  rows'[i] = rows[i] /\ View(c)'[i] = View(c)[i]
  BY <1>1, <1>2, HomeStays
<1>3. ASSUME NEW i \in Ids, home'[i] = <<Parent(c), k>>, home[i] # home'[i]
      PROVE  /\ rows'[i] = rows[i] /\ View(c)'[i] = View(c)[i]
             /\ rows[i] = Absent /\ View(c)[i] = Absent
  <2>1. home[i] = None
    BY <1>3 DEF Aside, HomesStay
  <2>2. rows'[i] = rows[i]
    BY <2>1, NoHomeAssumption DEF Aside, Foreign
  <2>3. rows[i] = Absent /\ View(c)[i] = Absent
    BY <2>1, ViewIsHomed DEF Inv, AllHomed, Homed
  <2>4. tx'[c] = tx[c]
    BY DEF Aside
  <2> QED
    BY <2>2, <2>3, <2>4, SameView
<1>4. \A i \in Ids : /\ rows[i] # Absent => home[i] = <<rows[i].parent, rows[i].key>>
                     /\ View(c)[i] # Absent => home[i] = <<View(c)[i].parent, View(c)[i].key>>
  BY ViewIsHomed DEF Inv, AllHomed, Homed
<1>5. \A i \in Ids : /\ rows'[i] # Absent => home'[i] = <<rows'[i].parent, rows'[i].key>>
                     /\ View(c)'[i] # Absent => home'[i] = <<View(c)'[i].parent, View(c)'[i].key>>
  <2>1. \A i \in Ids : Homed(home', i, rows'[i])
    BY DEF Inv, AllHomed
  <2>2. \A i \in Ids : Homed(home', i, View(c)'[i])
    <3>1. \A i \in DOMAIN tx'[c].writes : Homed(home', i, tx'[c].writes[i])
      BY DEF Inv, Local
    <3>2. DOMAIN rows' = Ids
      BY DEF Inv, Shaped
    <3> QED
      BY <2>1, <3>1, <3>2 DEF View, Over
  <2> QED
    BY <2>1, <2>2 DEF Homed
<1>6. \A i \in Ids : /\ i \in Scope(rows, Parent(c), k) <=>
                          rows[i] # Absent /\ home[i] = <<Parent(c), k>>
                     /\ i \in Scope(View(c), Parent(c), k) <=>
                          View(c)[i] # Absent /\ home[i] = <<Parent(c), k>>
  BY <1>1, <1>4 DEF Scope
<1>7. \A i \in Ids : /\ i \in Scope(rows', Parent(c), k) <=>
                          rows'[i] # Absent /\ home'[i] = <<Parent(c), k>>
                     /\ i \in Scope(View(c)', Parent(c), k) <=>
                          View(c)'[i] # Absent /\ home'[i] = <<Parent(c), k>>
  BY <1>1, <1>5 DEF Scope
<1>8. \A i \in Ids : home[i] = <<Parent(c), k>> => home'[i] = home[i]
  BY <1>1 DEF Aside, HomesStay
<1>9. /\ Scope(rows', Parent(c), k) = Scope(rows, Parent(c), k)
      /\ Scope(View(c)', Parent(c), k) = Scope(View(c), Parent(c), k)
  <2>1. ASSUME NEW i \in Ids
        PROVE  /\ i \in Scope(rows', Parent(c), k) <=> i \in Scope(rows, Parent(c), k)
               /\ i \in Scope(View(c)', Parent(c), k) <=> i \in Scope(View(c), Parent(c), k)
    <3>1. CASE home[i] = <<Parent(c), k>>
      BY <1>2, <1>6, <1>7, <1>8, <3>1
    <3>2. CASE home[i] # <<Parent(c), k>>
      BY <1>3, <1>6, <1>7, <3>2
    <3> QED
      BY <3>1, <3>2
  <2>2. /\ Scope(rows', Parent(c), k) \subseteq Ids /\ Scope(rows, Parent(c), k) \subseteq Ids
        /\ Scope(View(c)', Parent(c), k) \subseteq Ids /\ Scope(View(c), Parent(c), k) \subseteq Ids
    BY ScopeTyped
  <2> QED
    BY <2>1, <2>2
<1> QED
  BY <1>1, <1>9

\* What one call has read of its lists is not disturbed by the others.
LEMMA OthersSaving ==
    ASSUME Saves, Inv', NEW c \in Calls, Aside(c)
    PROVE  Saving(c)'
<1>1. /\ pc'[c] = pc[c] /\ call'[c] = call[c] /\ tx'[c] = tx[c] /\ answer'[c] = answer[c]
      /\ Parent(c)' = Parent(c) /\ In(c)' = In(c) /\ List(c)' = List(c)
      /\ (c \in Open)' <=> c \in Open
  BY DEF Aside, Parent, In, List, Open
<1>2. Saving(c) /\ Inv
  BY DEF Saves
<1>3. CASE c \notin Open
  BY <1>1, <1>2, <1>3 DEF Saving, Open, Busy
<1>4. CASE c \in Open
  <2>1. \A k \in Partitions(In(c)) : k \in Keys
    BY <1>2, <1>4, PartitionsAreKeys DEF Inv, Local
  <2>2. ASSUME NEW k \in Keys
        PROVE  /\ Scope(rows, Parent(c), k)' = Scope(rows, Parent(c), k)
               /\ Scope(View(c), Parent(c), k)' = Scope(View(c), Parent(c), k)
    BY <1>2, <1>4, <2>2, OwnScopeStays
  <2>3. ASSUME NEW k \in Keys, NEW i \in Ids, home[i] = <<Parent(c), k>>
        PROVE  rows'[i] = rows[i] /\ View(c)'[i] = View(c)[i]
    <3>1. <<Parent(c), k>> # None
      BY <1>2, <1>4, NoHomeAssumption DEF Inv, Local
    <3> QED
      BY <1>2, <2>3, <3>1, HomeStays
  <2>4. Reached(c)'
    <3>1. ASSUME NEW i \in DOMAIN tx[c].writes
          PROVE  home'[i] = home[i]
      <4>1. i \in Ids /\ home[i] \in {Parent(c)} \X Partitions(In(c))
        BY <1>2 DEF Inv, Local
      <4>2. home[i] # None
        BY <1>2, <1>4, <2>1, <4>1, NoHomeAssumption DEF Inv, Local
      <4> QED
        BY <4>1, <4>2 DEF Aside, HomesStay
    <3>2. \A i \in DOMAIN tx[c].writes :
              home[i] \in {Parent(c)} \X (Partitions(In(c)) \ tx[c].todo)
      BY <1>2, <1>4 DEF Saving, Reached
    <3> QED
      BY <1>1, <3>1, <3>2 DEF Reached
  <2>5. OwnSpared(c)'
    <3>1. ASSUME NEW k \in Partitions(In(c)), NEW n \in DOMAIN In(c)[k],
                 Owns(In(c)[k], Scope(rows, Parent(c), k)', n)
          PROVE  Spares(View(c), In(c)[k], n)'
      <4>1. k \in Keys /\ k # EmptyKey
        BY <2>1 DEF Partitions
      <4>2. Owns(In(c)[k], Scope(rows, Parent(c), k), n)
        BY <2>2, <3>1, <4>1
      <4>3. Spares(View(c), In(c)[k], n)
        BY <1>2, <1>4, <4>2 DEF Saving, OwnSpared
      <4> DEFINE i == In(c)[k][n].id
      <4>4. i \in Ids /\ rows[i] # Absent /\ rows[i].parent = Parent(c) /\ rows[i].key = k
        BY <4>1, <4>2 DEF Owns, Scope
      <4>5. home[i] = <<Parent(c), k>>
        BY <1>2, <4>4 DEF Inv, AllHomed, Homed
      <4>6. rows'[i] = rows[i] /\ View(c)'[i] = View(c)[i]
        BY <2>3, <4>1, <4>4, <4>5
      <4> QED
        BY <1>1, <4>3, <4>6 DEF Spares
    <3> QED
      BY <1>1, <3>1 DEF OwnSpared
  <2>6. pc[c] \in Busy => IdsKept(c)'
    <3>1. SUFFICES ASSUME pc[c] \in Busy PROVE IdsKept(c)'
      OBVIOUS
    <3>2. tx[c].key \in Keys /\ IdsKept(c)
      BY <1>2, <2>1, <3>1 DEF Inv, Local, Saving
    <3>3. Scope(rows', Parent(c), tx[c].key) = Scope(rows, Parent(c), tx[c].key)
      BY <1>1, <2>2, <3>2
    <3> QED
      BY <1>1, <3>2, <3>3 DEF IdsKept
  <2>7. pc[c] = "commit" => tx'[c].echo = Read(View(c), Parent(c))'
    <3>1. ASSUME NEW k \in Keys
          PROVE  {<<View(c)'[i].pos, i, View(c)'[i].cells>> : i \in Scope(View(c), Parent(c), k)'}
                   = {<<View(c)[i].pos, i, View(c)[i].cells>> : i \in Scope(View(c), Parent(c), k)}
      <4>1. \A i \in Scope(View(c), Parent(c), k) : View(c)'[i] = View(c)[i]
        BY <1>2, <2>3, ScopeIsHomed, SentinelAssumption
      <4>2. Scope(View(c), Parent(c), k)' = Scope(View(c), Parent(c), k)
        BY <2>2
      <4> QED
        BY <4>1, <4>2
    <3>2. Read(View(c), Parent(c))' = Read(View(c), Parent(c))
      BY <1>1, <3>1 DEF Read
    <3> QED
      BY <1>1, <1>2, <3>2 DEF Saving
  <2> QED
    BY <1>1, <1>2, <1>4, <2>4, <2>5, <2>6, <2>7 DEF Saving, Open
<1> QED
  BY <1>3, <1>4

LEMMA StartSaving ==
    ASSUME Patches \subseteq Locking, Saves, Inv', NEW c \in Calls, Start(c)
    PROVE  Saving(c)' /\ Apart'
<1>1. PICK p \in Parents, in \in Patches :
        /\ \A d \in Open : Parent(d) # p \/ In(d) \notin Locking
        /\ call' = [call EXCEPT ![c] = [parent |-> p, in |-> in]]
        /\ tx' = [tx EXCEPT ![c].todo = Partitions(in)]
        /\ Goto(c, IF Partitions(in) = {} THEN "echo" ELSE "own")
  BY DEF Start
<1>2. pc[c] = "idle" /\ tx[c] = NoTx /\ rows' = rows /\ answer' = answer
  BY DEF Start, Saves, Inv, Local, Open
<1>3. tx'[c] = [NoTx EXCEPT !.todo = Partitions(in)]
  BY <1>1, <1>2 DEF Saves, Inv, Shaped
<1>4. tx'[c].writes = <<>>
  BY <1>3 DEF NoTx
<1>5. Parent(c)' = p /\ pc'[c] \in {"echo", "own"} /\ answer'[c] = None
  BY <1>1, <1>2 DEF Saves, Saving, Inv, Shaped, Goto, Parent
<1>6. \A i \in Ids : View(c)'[i] = rows[i]
  BY <1>2, <1>4 DEF View, Over, Saves, Inv, Shaped
<1>7. OwnSpared(c)'
  <2>1. ASSUME NEW k \in Partitions(In(c))', NEW n \in DOMAIN In(c)'[k],
               Owns(In(c)'[k], Scope(rows, Parent(c), k)', n)
        PROVE  Spares(View(c), In(c)[k], n)'
    <3>1. In(c)'[k][n].id \in Ids /\ rows'[In(c)'[k][n].id] # Absent
      BY <2>1 DEF Owns, Scope
    <3> QED
      BY <1>2, <1>6, <3>1 DEF Spares
  <2> QED
    BY <2>1 DEF OwnSpared
<1>8. Saving(c)'
  BY <1>4, <1>5, <1>7 DEF Saving, Reached, Busy
<1>9. Apart'
  <2>1. \A d \in Open : In(d) \in Patches
    BY DEF Saves, Inv, Local, Open
  <2>2. \A d \in Open : Parent(d) # p
    BY <1>1, <2>1
  <2>3. \A d \in Calls \ {c} : ((d \in Open)' <=> d \in Open) /\ Parent(d)' = Parent(d)
    BY <1>1 DEF Saves, Inv, Shaped, Goto, Open, Parent
  <2> QED
    BY <1>5, <2>2, <2>3 DEF Saves, Apart, Open
<1> QED
  BY <1>8, <1>9

\* The ids of a list: the parent's own stay, the others are new.
LEMMA ResolvedAreDistinct ==
    ASSUME NEW list, NEW owned, NEW ids \in Resolved(list, owned),
           DOMAIN list \subseteq Nat \ {0}, owned \cap Unused = {}, NoId \notin owned
    PROVE  /\ \A n \in DOMAIN list : Owns(list, owned, n) => ids[n] = list[n].id
           /\ \A m, n \in DOMAIN ids : ids[m] = ids[n] /\ ids[n] # NoId => m = n
           /\ \A n \in DOMAIN ids : ids[n] \in owned => Owns(list, owned, n)
<1> DEFINE new == {n \in DOMAIN list : IsElement(list, n) /\ ~Owns(list, owned, n)}
<1>1. PICK issued \in Issued(new) :
        ids = [n \in DOMAIN list |-> IF n \in new THEN issued[n]
                                     ELSE IF IsElement(list, n) THEN list[n].id ELSE NoId]
  BY DEF Resolved
<1>2. DOMAIN issued = new
      /\ \A m, n \in new : issued[n] # NoId => /\ issued[n] \in Unused
                                               /\ issued[m] = issued[n] => m = n
  BY DEF Issued, Injection, IsInjective
<1>3. \A n \in DOMAIN list : Owns(list, owned, n) => ids[n] = list[n].id /\ ids[n] \in owned
  BY <1>1 DEF Owns
<1>4. \A n \in DOMAIN list : \/ Owns(list, owned, n)
                             \/ n \in new /\ ids[n] = issued[n]
                             \/ ids[n] = NoId
  BY <1>1 DEF Owns
<1>5. ASSUME NEW m \in DOMAIN list, NEW n \in DOMAIN list,
             Owns(list, owned, m), Owns(list, owned, n), ids[m] = ids[n]
      PROVE  m = n
  <2>1. list[m].id = list[n].id /\ IsElement(list, m) /\ IsElement(list, n)
    BY <1>3, <1>5 DEF Owns
  <2>2. m \notin 1..(n - 1) /\ n \notin 1..(m - 1)
    BY <1>5, <2>1 DEF Owns
  <2>3. m \in Nat \ {0} /\ n \in Nat \ {0}
    OBVIOUS
  <2> QED
    BY <2>2, <2>3
<1>6. ASSUME NEW m \in DOMAIN list, NEW n \in DOMAIN list, ids[m] = ids[n], ids[n] # NoId
      PROVE  m = n
  <2>1. CASE Owns(list, owned, m) /\ Owns(list, owned, n)
    BY <1>5, <1>6, <2>1
  <2>2. CASE Owns(list, owned, m) /\ ~Owns(list, owned, n)
    BY <1>2, <1>3, <1>4, <1>6, <2>2
  <2>3. CASE ~Owns(list, owned, m) /\ Owns(list, owned, n)
    BY <1>2, <1>3, <1>4, <1>6, <2>3
  <2>4. CASE ~Owns(list, owned, m) /\ ~Owns(list, owned, n)
    BY <1>2, <1>4, <1>6, <2>4
  <2> QED
    BY <2>1, <2>2, <2>3, <2>4
<1>7. DOMAIN ids = DOMAIN list
  BY <1>1
<1>8. \A n \in DOMAIN list : ids[n] \in owned => Owns(list, owned, n)
  BY <1>2, <1>4
<1> QED
  BY <1>3, <1>6, <1>7, <1>8

\* An element of the parent's own is at home in its list.
LEMMA OwnIsHome ==
    ASSUME Inv, NEW c \in Calls, c \in Open, NEW k \in Partitions(In(c)), NEW list, NEW n,
           Owns(list, Scope(rows, Parent(c), k), n)
    PROVE  /\ list[n].id \in Ids /\ rows[list[n].id] # Absent
           /\ home[list[n].id] = <<Parent(c), k>> /\ home[list[n].id] # None
<1>1. k \in Keys /\ k # EmptyKey
  BY PartitionsAreKeys DEF Inv, Local, Partitions
<1>2. list[n].id \in Ids /\ rows[list[n].id] # Absent
      /\ rows[list[n].id].parent = Parent(c) /\ rows[list[n].id].key = k
  BY <1>1 DEF Owns, Scope
<1> QED
  BY <1>2 DEF Inv, AllHomed, Homed

\* Of the partitions it has not turned to, a call sees what is committed.
LEMMA UnreachedIsCommitted ==
    ASSUME Saves, NEW c \in Calls, c \in Open, NEW k \in tx[c].todo
    PROVE  Scope(View(c), Parent(c), k) = Scope(rows, Parent(c), k)
<1>1. k \in Keys /\ k # EmptyKey
  BY PartitionsAreKeys DEF Saves, Inv, Local, Partitions
<1>2. ASSUME NEW i \in Ids
      PROVE  i \in Scope(View(c), Parent(c), k) <=> i \in Scope(rows, Parent(c), k)
  <2>1. CASE i \in DOMAIN tx[c].writes
    <3>1. home[i] # <<Parent(c), k>>
      BY <2>1 DEF Saves, Saving, Reached
    <3>2. Homed(home, i, rows[i]) /\ Homed(home, i, View(c)[i])
      BY ViewIsHomed DEF Saves, Inv, AllHomed
    <3> QED
      BY <1>1, <3>1, <3>2 DEF Scope, Homed
  <2>2. CASE i \notin DOMAIN tx[c].writes
    <3>1. View(c)[i] = rows[i]
      BY <2>2 DEF View, Over, Saves, Inv, Shaped
    <3> QED
      BY <3>1 DEF Scope
  <2> QED
    BY <2>1, <2>2
<1>3. Scope(View(c), Parent(c), k) \subseteq Ids /\ Scope(rows, Parent(c), k) \subseteq Ids
  BY ScopeTyped
<1> QED
  BY <1>2, <1>3

\* A step that writes nothing.
LEMMA SparedStays ==
    ASSUME Saves, NEW c \in Calls, c \in Open, rows' = rows, View(c)' = View(c),
           Parent(c)' = Parent(c), In(c)' = In(c)
    PROVE  OwnSpared(c)'
  BY DEF Saves, Saving, OwnSpared, Spares

\* What reading the ids of a partition leaves.
ReadsOwned(c, k, ids) ==
    /\ tx'[c].todo = tx[c].todo \ {k} /\ tx'[c].key = k /\ tx'[c].ids = ids
    /\ tx'[c].writes = tx[c].writes /\ tx'[c].at = 0

LEMMA ReadOwnedReads ==
    ASSUME Inv, NEW c \in Calls, ReadOwned(c)
    PROVE  \E k \in tx[c].todo : \E ids \in Resolved(In(c)[k], Scope(View(c), Parent(c), k)) :
               ReadsOwned(c, k, ids)
<1>1. PICK k \in tx[c].todo : \E ids \in Resolved(In(c)[k], Scope(View(c), Parent(c), k)) :
        /\ tx' = [tx EXCEPT ![c].todo = @ \ {k}, ![c].key = k, ![c].ids = ids, ![c].at = 0]
        /\ home' = [i \in Ids |-> IF i \in Range(ids) /\ home[i] = None
                                  THEN <<Parent(c), k>> ELSE home[i]]
  BY DEF ReadOwned
<1>2. PICK ids \in Resolved(In(c)[k], Scope(View(c), Parent(c), k)) :
        /\ tx' = [tx EXCEPT ![c].todo = @ \ {k}, ![c].key = k, ![c].ids = ids, ![c].at = 0]
        /\ home' = [i \in Ids |-> IF i \in Range(ids) /\ home[i] = None
                                  THEN <<Parent(c), k>> ELSE home[i]]
  BY <1>1
<1>3. tx'[c] = [tx[c] EXCEPT !.todo = @ \ {k}, !.key = k, !.ids = ids, !.at = 0]
  BY <1>2 DEF Inv, Shaped
<1> QED
  BY <1>3 DEF Inv, Shaped, NoTx, ReadsOwned

LEMMA ReadOwnedSaving ==
    ASSUME Saves, HomesStay, NEW c \in Calls, ReadOwned(c)
    PROVE  Saving(c)'
<1>1. PICK k \in tx[c].todo : \E ids \in Resolved(In(c)[k], Scope(View(c), Parent(c), k)) :
            ReadsOwned(c, k, ids)
  BY ReadOwnedReads DEF Saves
<1>2. PICK ids \in Resolved(In(c)[k], Scope(View(c), Parent(c), k)) : ReadsOwned(c, k, ids)
  BY <1>1
<1>3. /\ c \in Open /\ pc'[c] = "delete" /\ rows' = rows /\ answer' = answer
      /\ Parent(c)' = Parent(c) /\ In(c)' = In(c) /\ List(c)' = In(c)[k]
  BY <1>2 DEF ReadsOwned, ReadOwned, Saves, Inv, Shaped, Open, Goto, Parent, In, List
<1>4. k \in Partitions(In(c)) /\ k \in Keys /\ k # EmptyKey /\ In(c) \in Patches
  BY <1>3, PartitionsAreKeys DEF Saves, Inv, Local, Partitions
<1>5. Scope(View(c), Parent(c), k) = Scope(rows, Parent(c), k)
  BY <1>3, UnreachedIsCommitted
<1>6. DOMAIN In(c)[k] \subseteq Nat \ {0}
  <2>1. In(c)[k] # Bad
    BY <1>4 DEF Partitions
  <2>2. \E E : In(c)[k] \in Seq(E)
    BY <1>4, <2>1, PatchAssumption DEF Partitions
  <2> QED
    BY <2>2
<1>7. Scope(View(c), Parent(c), k) \cap Unused = {} /\ NoId \notin Scope(View(c), Parent(c), k)
  BY <1>4, ScopeIsHomed, SentinelAssumption DEF Saves, Unused
<1>8. /\ \A n \in DOMAIN In(c)[k] : Owns(In(c)[k], Scope(rows, Parent(c), k), n) => ids[n] = In(c)[k][n].id
      /\ \A m, n \in DOMAIN ids : ids[m] = ids[n] /\ ids[n] # NoId => m = n
  BY <1>5, <1>6, <1>7, ResolvedAreDistinct
<1>9. IdsKept(c)'
  BY <1>2, <1>3, <1>8 DEF ReadsOwned, IdsKept
<1>10. Reached(c)'
  <2>1. ASSUME NEW i \in DOMAIN tx[c].writes
        PROVE  home'[i] \in {Parent(c)} \X (Partitions(In(c)) \ (tx[c].todo \ {k}))
    <3>1. i \in Ids /\ home[i] \in {Parent(c)} \X (Partitions(In(c)) \ tx[c].todo)
      BY <1>3 DEF Saves, Saving, Reached, Inv, Local
    <3>2. home[i] # None
      BY <1>3, <1>4, <3>1, PartitionsAreKeys, NoHomeAssumption DEF Saves, Inv, Local
    <3>3. home'[i] = home[i]
      BY <3>1, <3>2 DEF HomesStay
    <3> QED
      BY <3>1, <3>3
  <2> QED
    BY <1>2, <1>3, <2>1 DEF ReadsOwned, Reached
<1>11. OwnSpared(c)'
  <2>1. View(c)' = View(c)
    BY <1>2, <1>3 DEF ReadsOwned, View
  <2> QED
    BY <1>3, <2>1, SparedStays
<1> QED
  BY <1>3, <1>9, <1>10, <1>11 DEF Saving, Saves, Open

LEMMA StartDeleteSaving ==
    ASSUME Saves, NEW c \in Calls, StartDelete(c)
    PROVE  Saving(c)'
<1> DEFINE S == Scope(View(c), Parent(c), tx[c].key) \ Range(tx[c].ids)
<1>1. /\ tx'[c].todo = tx[c].todo /\ tx'[c].key = tx[c].key /\ tx'[c].ids = tx[c].ids
      /\ tx'[c].writes = tx[c].writes /\ tx'[c].snap = S
  BY DEF StartDelete, Saves, Inv, Shaped, NoTx
<1>2. /\ c \in Open /\ pc[c] = "delete" /\ pc'[c] = "deleting" /\ rows' = rows /\ home' = home
      /\ answer' = answer /\ call' = call /\ Parent(c)' = Parent(c) /\ In(c)' = In(c)
  BY DEF StartDelete, Saves, Inv, Shaped, Open, Goto, Parent, In
<1>3. List(c)' = List(c) /\ View(c)' = View(c)
  BY <1>1, <1>2 DEF List, View
<1>4. IdsKept(c)' /\ Reached(c)'
  BY <1>1, <1>2, <1>3 DEF Saves, Saving, IdsKept, Reached, Busy
<1>5. OwnSpared(c)'
  BY <1>2, <1>3, SparedStays
<1>6. tx'[c].snap \cap Range(tx'[c].ids) = {}
  BY <1>1
<1> QED
  BY <1>2, <1>4, <1>5, <1>6 DEF Saving, Saves, Open

LEMMA FinishDeleteSaving ==
    ASSUME Saves, NEW c \in Calls, FinishDelete(c)
    PROVE  Saving(c)'
<1> DEFINE S == {i \in tx[c].snap : View(c)[i] # Absent}
           W == Over([i \in S |-> Absent], tx[c].writes)
<1>1. /\ tx'[c].todo = tx[c].todo /\ tx'[c].key = tx[c].key /\ tx'[c].ids = tx[c].ids
      /\ tx'[c].writes = W
  BY DEF FinishDelete, Saves, Inv, Shaped, NoTx
<1>2. /\ c \in Open /\ pc[c] = "deleting" /\ pc'[c] \in {"upsert", "own", "echo"}
      /\ rows' = rows /\ home' = home /\ answer' = answer
      /\ Parent(c)' = Parent(c) /\ In(c)' = In(c)
  BY DEF FinishDelete, Runs, GoOn, Saves, Inv, Shaped, Open, Goto, Parent, In
<1>3. List(c)' = List(c)
  BY <1>1, <1>2 DEF List
<1>4. /\ IdsKept(c) /\ Reached(c) /\ OwnSpared(c) /\ answer[c] = None
      /\ tx[c].key \in Partitions(In(c)) /\ DOMAIN tx[c].ids = DOMAIN List(c)
      /\ tx[c].snap \cap Range(tx[c].ids) = {}
      /\ \A i \in tx[c].snap : i \in Ids /\ home[i] = <<Parent(c), tx[c].key>>
  BY <1>2 DEF Saves, Saving, Inv, Local, Busy, Here
<1>5. IdsKept(c)'
  BY <1>1, <1>2, <1>3, <1>4 DEF IdsKept
<1>6. Reached(c)'
  <2>1. \A i \in S : home[i] \in {Parent(c)} \X (Partitions(In(c)) \ tx[c].todo)
    BY <1>4 DEF IdsKept
  <2>2. DOMAIN W = S \cup DOMAIN tx[c].writes
    BY DEF Over
  <2> HIDE DEF S, W
  <2> QED
    BY <1>1, <1>2, <1>4, <2>1, <2>2 DEF Reached
<1>7. OwnSpared(c)'
  <2>1. ASSUME NEW k \in Partitions(In(c)), NEW n \in DOMAIN In(c)[k],
               Owns(In(c)[k], Scope(rows, Parent(c), k), n)
        PROVE  View(c)'[In(c)[k][n].id] = View(c)[In(c)[k][n].id]
    <3> DEFINE i == In(c)[k][n].id
    <3>1. i \in Ids /\ home[i] = <<Parent(c), k>>
      BY <1>2, <2>1, OwnIsHome DEF Saves
    <3>2. i \notin S
      <4>1. SUFFICES ASSUME i \in tx[c].snap PROVE FALSE
        OBVIOUS
      <4>2. k = tx[c].key
        BY <1>4, <3>1, <4>1
      <4>3. tx[c].ids[n] = i /\ n \in DOMAIN tx[c].ids
        BY <1>4, <2>1, <4>2 DEF IdsKept, List
      <4> QED
        BY <1>4, <4>1, <4>3 DEF Range
    <3> HIDE DEF i, S
    <3>3. View(c)'[i] = View(c)[i]
      BY <1>1, <1>2, <3>1, <3>2 DEF View, Over, Saves, Inv, Shaped
    <3> QED
      BY <3>3 DEF i
  <2>2. ASSUME NEW k \in Partitions(In(c)), NEW n \in DOMAIN In(c)[k],
               Owns(In(c)[k], Scope(rows, Parent(c), k), n)
        PROVE  Spares(View(c)', In(c)[k], n)
    <3>1. Spares(View(c), In(c)[k], n)
      BY <1>4, <2>2 DEF OwnSpared
    <3>2. View(c)'[In(c)[k][n].id] = View(c)[In(c)[k][n].id]
      BY <2>1, <2>2
    <3> QED
      BY <3>1, <3>2 DEF Spares
  <2> QED
    BY <1>2, <2>2 DEF OwnSpared, Spares
<1> QED
  BY <1>2, <1>4, <1>5, <1>6, <1>7 DEF Saving, Open

LEMMA EchoSaving ==
    ASSUME Saves, NEW c \in Calls, Echo(c)
    PROVE  Saving(c)'
<1>1. /\ tx'[c].todo = tx[c].todo /\ tx'[c].writes = tx[c].writes
      /\ tx'[c].echo = Read(View(c), Parent(c))
  BY DEF Echo, Saves, Inv, Shaped, NoTx
<1>2. /\ c \in Open /\ pc'[c] = "commit" /\ rows' = rows /\ home' = home /\ answer' = answer
      /\ Parent(c)' = Parent(c) /\ In(c)' = In(c)
  BY DEF Echo, Saves, Inv, Shaped, Open, Goto, Parent, In
<1>3. View(c)' = View(c)
  BY <1>1, <1>2 DEF View
<1>4. Reached(c)'
  BY <1>1, <1>2 DEF Saves, Saving, Reached
<1>5. OwnSpared(c)'
  BY <1>2, <1>3, SparedStays
<1>6. tx'[c].echo = Read(View(c), Parent(c))'
  BY <1>1, <1>2, <1>3 DEF Read
<1> QED
  BY <1>2, <1>4, <1>5, <1>6 DEF Saving, Saves, Open, Busy

LEMMA ReturnSaving ==
    ASSUME Saves, NEW c \in Calls, NEW a, Return(c, a)
    PROVE  Saving(c)'
  BY DEF Return, Goto, Saves, Inv, Shaped, Saving, Open, Busy

\* An element is written over what its row held.
LEMMA UpsertedSpares ==
    ASSUME NEW view \in [Ids -> Row \cup {Absent}], NEW i \in Ids, view[i] # Absent,
           NEW p, NEW k, NEW pos, NEW e, NEW f \in Cells \ Sent(e)
    PROVE  Upserted(view, i, p, k, pos, e).cells[f] = view[i].cells[f]
<1> DEFINE set == [g \in Sent(e) |-> e.set[g]]
           cells == Over(set, view[i].cells)
<1>1. view[i] \in Row
  OBVIOUS
<1>2. DOMAIN view[i].cells = Cells
  BY <1>1 DEF Row
<1>3. cells[f] = view[i].cells[f]
  BY <1>2 DEF Over
<1>4. Upserted(view, i, p, k, pos, e) = [view[i] EXCEPT !.pos = pos, !.cells = cells]
  BY DEF Upserted
<1> HIDE DEF cells
<1>5. Upserted(view, i, p, k, pos, e).cells = cells
  BY <1>1, <1>4 DEF Row
<1> QED
  BY <1>3, <1>5

\* What writing an element changes: row i of element n.
UpsertWrites(c, n, i) ==
    /\ n \in NextElement(c) /\ i \in Ids
    /\ \/ home[i] = None /\ tx[c].ids[n] = NoId
       \/ home[i] = Here(c) /\ tx[c].ids[n] = i /\ i # NoId
    /\ home'[i] = Here(c)
    /\ tx'[c].todo = tx[c].todo /\ tx'[c].key = tx[c].key /\ tx'[c].ids = tx[c].ids /\ tx'[c].at = n
    /\ DOMAIN tx'[c].writes = {i} \cup DOMAIN tx[c].writes
    /\ View(c)'[i] = Upserted(View(c), i, Parent(c), tx[c].key, Position(List(c), n), List(c)[n])
    /\ View(c)'[i] \in Row
    /\ \A j \in Ids \ {i} : View(c)'[j] = View(c)[j]
    /\ pc'[c] = IF Following(c) \ {n} # {} THEN "upsert" ELSE IF tx[c].todo # {} THEN "own" ELSE "echo"

LEMMA UpsertWritesOne ==
    ASSUME Saves, NEW c \in Calls, Upsert(c)
    PROVE  \E n \in NextElement(c) : \E i \in Ids : UpsertWrites(c, n, i)
<1> DEFINE Result(n, i) == Upserted(View(c), i, Parent(c), tx[c].key, Position(List(c), n), List(c)[n])
           W(n, i) == Over([j \in {i} |-> Result(n, i)], tx[c].writes)
<1>1. PICK n \in NextElement(c) :
        \E i \in IF tx[c].ids[n] = NoId THEN Unused ELSE {tx[c].ids[n]} :
           /\ tx' = [tx EXCEPT ![c].writes = W(n, i), ![c].at = n]
           /\ home' = [home EXCEPT ![i] = IF @ = None THEN <<Parent(c), tx[c].key>> ELSE @]
           /\ GoOn(c, Following(c) \ {n})
  BY DEF Upsert
<1>2. PICK i \in IF tx[c].ids[n] = NoId THEN Unused ELSE {tx[c].ids[n]} :
           /\ tx' = [tx EXCEPT ![c].writes = W(n, i), ![c].at = n]
           /\ home' = [home EXCEPT ![i] = IF @ = None THEN <<Parent(c), tx[c].key>> ELSE @]
           /\ GoOn(c, Following(c) \ {n})
  BY <1>1
<1>3. /\ tx'[c].todo = tx[c].todo /\ tx'[c].key = tx[c].key /\ tx'[c].ids = tx[c].ids
      /\ tx'[c].writes = W(n, i) /\ tx'[c].at = n
  BY <1>2 DEF Saves, Inv, Shaped, NoTx
<1>4. /\ c \in Open /\ pc[c] = "upsert" /\ pc'[c] \in {"upsert", "own", "echo"}
      /\ rows' = rows /\ answer' = answer /\ Parent(c)' = Parent(c) /\ In(c)' = In(c)
  BY <1>2 DEF Upsert, Runs, GoOn, Saves, Inv, Shaped, Open, Goto, Parent, In
<1>5. List(c)' = List(c)
  BY <1>3, <1>4 DEF List
<1>6. /\ IdsKept(c) /\ Reached(c) /\ OwnSpared(c) /\ answer[c] = None
      /\ tx[c].key \in Partitions(In(c)) /\ DOMAIN tx[c].ids = DOMAIN List(c)
      /\ n \in DOMAIN List(c) /\ IsElement(List(c), n) /\ In(c) \in Patches /\ Parent(c) \in Parents
  BY <1>4 DEF Saves, Saving, Inv, Local, Busy, NextElement, Following
<1>7. /\ i \in Ids
      /\ \/ home[i] = None /\ tx[c].ids[n] = NoId
         \/ home[i] = <<Parent(c), tx[c].key>> /\ tx[c].ids[n] = i /\ i # NoId
  <2>1. CASE tx[c].ids[n] = NoId
    BY <1>2, <2>1 DEF Unused
  <2>2. CASE tx[c].ids[n] # NoId
    BY <1>4, <1>6, <2>2 DEF Saves, Inv, Local, Busy, Here
  <2> QED
    BY <2>1, <2>2
<1>8. home'[i] = <<Parent(c), tx[c].key>>
  BY <1>2, <1>6, <1>7, HereIsAHome DEF Saves, Inv, Shaped
<1>9. DOMAIN W(n, i) = {i} \cup DOMAIN tx[c].writes
  BY DEF Over
<1>10. Result(n, i) \in Row
  <2>1. /\ n \in Nat /\ DOMAIN List(c)[n].set \subseteq Cells
        /\ \A f \in Sent(List(c)[n]) : List(c)[n].set[f] \in Values \cup {Null}
    BY <1>6, ElementTyped DEF List
  <2>2. Position(List(c), n) \in Nat /\ tx[c].key \in Keys
    BY <1>6, <2>1, PositionTyped, PartitionsAreKeys
  <2>3. View(c) \in [Ids -> Row \cup {Absent}]
    BY ViewTyped DEF Saves
  <2> QED
    BY <1>6, <1>7, <2>1, <2>2, <2>3, UpsertedTyped
<1>11. /\ View(c)'[i] = Result(n, i)
       /\ \A j \in Ids \ {i} : View(c)'[j] = View(c)[j]
  <2> HIDE DEF Result
  <2>1. W(n, i)[i] = Result(n, i) /\ \A j \in DOMAIN tx[c].writes \ {i} : W(n, i)[j] = tx[c].writes[j]
    BY DEF Over
  <2> HIDE DEF W
  <2> QED
    BY <1>3, <1>4, <1>9, <2>1 DEF View, Over, Saves, Inv, Shaped
<1>12. pc'[c] = IF Following(c) \ {n} # {} THEN "upsert" ELSE IF tx[c].todo # {} THEN "own" ELSE "echo"
  BY <1>2 DEF GoOn, Goto, Saves, Inv, Shaped
<1> HIDE DEF W, Result
<1>13. UpsertWrites(c, n, i)
  <2>1. DOMAIN tx'[c].writes = {i} \cup DOMAIN tx[c].writes
    BY <1>3, <1>9
  <2>2. View(c)'[i] = Upserted(View(c), i, Parent(c), tx[c].key, Position(List(c), n), List(c)[n])
    BY <1>11 DEF Result
  <2> QED
    BY <1>1, <1>3, <1>7, <1>8, <1>10, <1>11, <1>12, <2>1, <2>2 DEF UpsertWrites, Here
<1> QED
  BY <1>1, <1>7, <1>13

LEMMA UpsertSaving ==
    ASSUME Saves, HomesStay, NEW c \in Calls, Upsert(c)
    PROVE  Saving(c)'
<1>1. PICK n \in NextElement(c), i \in Ids : UpsertWrites(c, n, i)
  BY UpsertWritesOne
<1>2. /\ tx'[c].todo = tx[c].todo /\ tx'[c].key = tx[c].key /\ tx'[c].ids = tx[c].ids
      /\ DOMAIN tx'[c].writes = {i} \cup DOMAIN tx[c].writes
      /\ \A j \in Ids \ {i} : View(c)'[j] = View(c)[j]
      /\ View(c)'[i] \in Row
  BY <1>1 DEF UpsertWrites
<1>3. home'[i] = <<Parent(c), tx[c].key>>
  BY <1>1 DEF UpsertWrites, Here
<1>4. \/ home[i] = None /\ tx[c].ids[n] = NoId
      \/ home[i] = <<Parent(c), tx[c].key>> /\ tx[c].ids[n] = i /\ i # NoId
  BY <1>1 DEF UpsertWrites, Here
<1>5. View(c)'[i] = Upserted(View(c), i, Parent(c), tx[c].key, Position(List(c), n), List(c)[n])
  BY <1>1 DEF UpsertWrites
<1>6. /\ c \in Open /\ pc[c] = "upsert" /\ pc'[c] \in {"upsert", "own", "echo"}
      /\ rows' = rows /\ answer' = answer /\ Parent(c)' = Parent(c) /\ In(c)' = In(c)
  BY DEF Upsert, Runs, GoOn, Saves, Inv, Shaped, Open, Goto, Parent, In
<1>7. List(c)' = List(c)
  BY <1>2, <1>6 DEF List
<1>8. /\ IdsKept(c) /\ Reached(c) /\ OwnSpared(c) /\ answer[c] = None
      /\ tx[c].key \in Partitions(In(c)) /\ DOMAIN tx[c].ids = DOMAIN List(c)
      /\ n \in DOMAIN List(c)
  BY <1>6 DEF Saves, Saving, Inv, Local, Busy, NextElement, Following
<1>9. IdsKept(c)'
  BY <1>2, <1>6, <1>7, <1>8 DEF IdsKept
<1>10. Reached(c)'
  <2>1. ASSUME NEW j \in DOMAIN tx'[c].writes
        PROVE  home'[j] \in {Parent(c)} \X (Partitions(In(c)) \ tx[c].todo)
    <3>1. CASE j = i
      BY <1>3, <1>8, <3>1 DEF IdsKept
    <3>2. CASE j # i
      <4>1. /\ j \in Ids /\ home[j] \in {Parent(c)} \X (Partitions(In(c)) \ tx[c].todo)
        BY <1>2, <1>8, <2>1, <3>2 DEF Reached, Saves, Inv, Local
      <4>2. home[j] # None
        BY <1>6, <4>1, PartitionsAreKeys, NoHomeAssumption DEF Saves, Inv, Local
      <4> QED
        BY <4>1, <4>2 DEF HomesStay
    <3> QED
      BY <3>1, <3>2
  <2> QED
    BY <1>2, <1>6, <2>1 DEF Reached
<1>11. ASSUME NEW k \in Partitions(In(c)), NEW m \in DOMAIN In(c)[k],
             Owns(In(c)[k], Scope(rows, Parent(c), k), m)
      PROVE  Spares(View(c)', In(c)[k], m)
  <2> DEFINE j == In(c)[k][m].id
  <2>1. j \in Ids /\ home[j] = <<Parent(c), k>> /\ home[j] # None
    BY <1>6, <1>11, OwnIsHome DEF Saves
  <2>2. Spares(View(c), In(c)[k], m)
    BY <1>8, <1>11 DEF OwnSpared
  <2>3. CASE j # i
    BY <1>2, <2>1, <2>2, <2>3 DEF Spares
  <2>4. CASE j = i
    <3>1. k = tx[c].key /\ tx[c].ids[n] = i /\ i # NoId
      BY <1>4, <2>1, <2>4
    <3>2. tx[c].ids[m] = i /\ m \in DOMAIN tx[c].ids
      BY <1>8, <1>11, <2>4, <3>1 DEF IdsKept, List
    <3>3. m = n
      BY <1>8, <3>1, <3>2 DEF IdsKept
    <3>4. View(c)[i] # Absent /\ \A f \in Cells \ Sent(List(c)[n]) : View(c)[i].cells[f] = rows[i].cells[f]
      BY <2>2, <2>4, <3>1, <3>3 DEF Spares, List
    <3>5. View(c) \in [Ids -> Row \cup {Absent}]
      BY ViewTyped DEF Saves
    <3>6. \A f \in Cells \ Sent(List(c)[n]) : View(c)'[i].cells[f] = View(c)[i].cells[f]
      BY <1>5, <3>4, <3>5, UpsertedSpares
    <3>7. View(c)'[i] # Absent
      BY <1>2, SentinelAssumption
    <3> QED
      BY <2>4, <3>1, <3>3, <3>4, <3>6, <3>7 DEF Spares, List
  <2> QED
    BY <2>3, <2>4
<1>12. OwnSpared(c)'
  BY <1>6, <1>11 DEF OwnSpared, Spares
<1> QED
  BY <1>6, <1>8, <1>9, <1>10, <1>12 DEF Saving, Open
-------------------------------------------------------------------------------
\* All steps of a call but its first.
Step(c) == Statement(c) \/ Fail(c) \/ DeadlockVictim(c)

LEMMA StepSaving ==
    ASSUME Saves, HomesStay, NEW c \in Calls, Step(c)
    PROVE  Saving(c)'
<1>1. CASE Commit(c) \/ Fail(c) \/ DeadlockVictim(c)
  BY <1>1, ReturnSaving DEF Commit, Fail, DeadlockVictim
<1> QED
  BY <1>1, ReadOwnedSaving, StartDeleteSaving, FinishDeleteSaving, UpsertSaving, EchoSaving
     DEF Step, Statement

\* Rows change by a commit, which is the end of a call.
LEMMA StepRows ==
    ASSUME Inv, NEW c \in Calls, Step(c)
    PROVE  /\ c \in Open /\ call' = call
           /\ rows' = rows \/ (rows' = View(c) /\ ~(c \in Open)')
<1>1. CASE ReadOwned(c) \/ StartDelete(c) \/ Echo(c)
  BY <1>1 DEF ReadOwned, StartDelete, Echo, Open
<1>2. CASE FinishDelete(c) \/ Upsert(c)
  BY <1>2 DEF FinishDelete, Upsert, Runs, Open
<1>3. CASE Commit(c)
  BY <1>3 DEF Commit, Return, Goto, Open, Inv, Shaped
<1>4. CASE Fail(c) \/ DeadlockVictim(c)
  BY <1>4 DEF Fail, DeadlockVictim, Return, Open
<1> QED
  BY <1>1, <1>2, <1>3, <1>4 DEF Step, Statement

LEMMA StepApart ==
    ASSUME Saves, NEW c \in Calls, Step(c), TypedStep(c)
    PROVE  Apart'
<1>1. c \in Open /\ call' = call
  BY StepRows DEF Saves
<1>2. \A d \in Calls : (d \in Open)' => d \in Open
  BY <1>1 DEF TypedStep, Open, Saves, Inv, Shaped
<1> QED
  BY <1>1, <1>2 DEF Saves, Apart, Parent, Open

\* The rows a step changes are those of the call that makes it.
LEMMA OthersAside ==
    ASSUME Saves, HomesStay, NEW c \in Calls, TypedStep(c),
           Start(c) \/ Step(c), NEW d \in Open \ {c}
    PROVE  Aside(d)
<1>1. pc'[d] = pc[d] /\ call'[d] = call[d] /\ tx'[d] = tx[d] /\ answer'[d] = answer[d]
  BY DEF TypedStep, TypeOK, Saves, Inv, Shaped, Open
<1>2. ASSUME NEW i \in Ids, rows'[i] # rows[i]
      PROVE  home[i] \in Parents \X Keys /\ home[i][1] # Parent(d)
  <2>1. c \in Open /\ rows' = View(c)
    BY <1>2, StepRows DEF Start, Saves
  <2>2. i \in DOMAIN tx[c].writes
    BY <1>2, <2>1 DEF View, Over, Saves, Inv, Shaped
  <2>3. home[i] \in {Parent(c)} \X Partitions(In(c)) /\ Parent(c) \in Parents /\ In(c) \in Patches
    BY <2>1, <2>2 DEF Saves, Inv, Local
  <2>4. Parent(c) # Parent(d)
    BY <2>1 DEF Saves, Apart
  <2> QED
    BY <2>3, <2>4, PartitionsAreKeys
<1> QED
  BY <1>1, <1>2 DEF Aside, Foreign

LEMMA InitSaves == Init => Saves
<1> SUFFICES ASSUME Init PROVE Saves
  OBVIOUS
<1>1. Inv /\ TypeOK
  BY InitHomed, InitTyped
<1>2. \A c \in Calls : pc[c] = "idle" /\ answer[c] = None
  BY DEF Init
<1> QED
  BY <1>1, <1>2 DEF Saves, Apart, Saving, Open, Busy

LEMMA NextSaves ==
    ASSUME Patches \subseteq Locking, Saves, [Next]_vars
    PROVE  Saves'
<1>1. Inv' /\ TypeOK' /\ HomesStay
  BY NextHomed, NextTyped DEF Saves
<1>2. CASE UNCHANGED vars
  <2>1. ASSUME NEW c \in Calls
        PROVE  Saving(c)'
    <3>1. rows' = rows /\ home' = home /\ pc' = pc /\ call' = call /\ tx' = tx /\ answer' = answer
      BY <1>2 DEF vars
    <3>2. /\ Parent(c)' = Parent(c) /\ In(c)' = In(c) /\ List(c)' = List(c)
          /\ View(c)' = View(c) /\ Open' = Open
      BY <3>1 DEF Parent, In, List, View, Open
    <3>3. (OwnSpared(c)' <=> OwnSpared(c)) /\ (Reached(c)' <=> Reached(c))
          /\ (IdsKept(c)' <=> IdsKept(c))
      BY <3>1, <3>2 DEF OwnSpared, Spares, Reached, IdsKept
    <3> QED
      BY <3>1, <3>2, <3>3 DEF Saves, Saving
  <2>2. Apart'
    BY <1>2 DEF vars, Saves, Apart, Open, Parent
  <2> QED
    BY <1>1, <2>1, <2>2 DEF Saves
<1>3. ASSUME NEW c \in Calls, Start(c) \/ Step(c)
      PROVE  Saves'
  <2>1. TypedStep(c)
    BY <1>3, StepTyped DEF Saves, Step
  <2>2. Saving(c)' /\ Apart'
    BY <1>1, <1>3, <2>1, StartSaving, StepSaving, StepApart
  <2>3. ASSUME NEW d \in Calls \ {c}
        PROVE  Saving(d)'
    <3>1. CASE d \in Open
      BY <1>1, <1>3, <2>1, <3>1, OthersAside, OthersSaving
    <3>2. CASE d \notin Open
      <4>1. pc'[d] = pc[d] /\ answer'[d] = answer[d]
        BY <2>1 DEF TypedStep, TypeOK, Saves, Inv, Shaped
      <4> QED
        BY <3>2, <4>1 DEF Saves, Saving, Open, Busy
    <3> QED
      BY <3>1, <3>2
  <2> QED
    BY <1>1, <2>2, <2>3 DEF Saves
<1> QED
  BY <1>2, <1>3 DEF Next, Finished, Step

LEMMA AlwaysSaves ==
    ASSUME Patches \subseteq Locking
    PROVE  Spec => []Saves
<1>1. Saves /\ [Next]_vars => Saves'
  BY NextSaves
<1> QED
  BY <1>1, InitSaves, PTL DEF Spec

\* What answers ok is the commit of this call.
LEMMA Committing ==
    ASSUME Saves, [Next]_vars, NEW c \in Calls, CommitsAlone(c)
    PROVE  c \in Open /\ rows' = View(c)
<1>1. c \in Open /\ answer[c] = None /\ answer'[c] = "ok" /\ None # "ok"
  BY SentinelAssumption DEF CommitsAlone, Open, Saves, Saving
<1>2. PICK d \in Calls : Start(d) \/ Step(d)
  BY <1>1 DEF Next, Finished, vars, Step
<1>3. TypedStep(d)
  BY <1>2, StepTyped DEF Saves, Step
<1>4. d = c
  BY <1>1, <1>3 DEF TypedStep, Saves, TypeOK
<1>5. Commit(c)
  <2>1. ~Fail(c) /\ ~DeadlockVictim(c)
    BY <1>1 DEF Fail, DeadlockVictim, Return, Saves, TypeOK
  <2> QED
    BY <1>2, <1>4, <2>1 DEF CommitsAlone, Start, Step, Statement, ReadOwned, StartDelete,
                            FinishDelete, Upsert, Echo, Runs
<1> QED
  BY <1>1, <1>5 DEF Commit

\* child.go:690-693: where saves of the field write the main row first, what is
\* reported of the field is what the commit leaves in it.
THEOREM EchoRight ==
    ASSUME Patches \subseteq Locking
    PROVE  Spec => EchoIsCommitted
<1>1. ASSUME Saves, [Next]_vars, NEW c \in Calls, CommitsAlone(c)
      PROVE  Read(rows', Parent(c)) = tx[c].echo
  BY <1>1, Committing DEF Saves, Saving, CommitsAlone
<1>2. Saves /\ [Next]_vars =>
        [\A c \in Calls : CommitsAlone(c) => Read(rows', Parent(c)) = tx[c].echo]_vars
  BY <1>1
<1> QED
  BY <1>2, AlwaysSaves, PTL DEF Spec, EchoIsCommitted

\* child.go:811: there too, an element that is the parent's own is still there after
\* a save that was sent it, with everything in it that was not sent.
THEOREM UnsentStays ==
    ASSUME Patches \subseteq Locking
    PROVE  Spec => UnsentIsUntouched
<1> DEFINE Kept(c, k, n) ==
        Owns(In(c)[k], Scope(rows, Parent(c), k), n) =>
            /\ rows'[In(c)[k][n].id] # Absent
            /\ \A f \in Cells \ Sent(In(c)[k][n]) :
                   rows'[In(c)[k][n].id].cells[f] = rows[In(c)[k][n].id].cells[f]
<1>1. ASSUME Saves, [Next]_vars, NEW c \in Calls, CommitsAlone(c),
             NEW k \in Partitions(In(c)), NEW n \in DOMAIN In(c)[k]
      PROVE  Kept(c, k, n)
  <2>1. c \in Open /\ rows' = View(c)
    BY <1>1, Committing
  <2> QED
    BY <1>1, <2>1 DEF Saves, Saving, OwnSpared, Spares
<1>2. Saves /\ [Next]_vars =>
        [\A c \in Calls : CommitsAlone(c) =>
             \A k \in Partitions(In(c)) : \A n \in DOMAIN In(c)[k] : Kept(c, k, n)]_vars
  BY <1>1
<1> QED
  BY <1>2, AlwaysSaves, PTL DEF Spec, UnsentIsUntouched
-------------------------------------------------------------------------------
(* What a list is when its save commits.  place says which row each element   *)
(* has: of the elements up to at while the list is written, of all at the end. *)

Elements(list) == {n \in DOMAIN list : IsElement(list, n)}

\* Row i holds what was sent as element n.
Holds(view, list, n, i) == /\ view[i].pos = Position(list, n)
                           /\ \A f \in Sent(list[n]) : view[i].cells[f] = list[n].set[f]

OwnRow(place, view, list) ==
    /\ \A m, n \in DOMAIN place : place[m] = place[n] => m = n
    /\ \A n \in DOMAIN place : Holds(view, list, n, place[n])

\* The list is as it was sent: scope is the rows of its elements.
Done(place, view, list, owned, scope) ==
    /\ DOMAIN place = Elements(list)
    /\ OwnRow(place, view, list)
    /\ scope = Range(place)
    /\ \A n \in Elements(list) : Owns(list, owned, n) => place[n] = list[n].id

\* The elements up to at are written, and of the others there are the rows that
\* were the parent's own.
Begun(place, view, list, at, ids, owned, scope) ==
    /\ DOMAIN place = {n \in Elements(list) : n <= at}
    /\ OwnRow(place, view, list)
    /\ \A n \in DOMAIN place : IF ids[n] = NoId THEN place[n] \notin Range(ids)
                               ELSE place[n] = ids[n]
    /\ scope = Range(place) \cup
                 {ids[n] : n \in {m \in Elements(list) : m > at /\ Owns(list, owned, m)}}

\* Nothing else in the rows of a list matters to it.
LEMMA OwnRowStays ==
    ASSUME NEW place, NEW view, NEW view2, NEW list, OwnRow(place, view, list),
           \A n \in DOMAIN place : view2[place[n]] = view[place[n]]
    PROVE  OwnRow(place, view2, list)
  BY DEF OwnRow, Holds

LEMMA ListShape ==
    ASSUME NEW in \in Patches, NEW k \in Partitions(in)
    PROVE  DOMAIN in[k] \subseteq Nat \ {0} /\ IsFiniteSet(DOMAIN in[k])
<1>1. PICK E : in[k] \in Seq(E)
  BY PatchAssumption DEF Partitions
<1>2. DOMAIN in[k] = 1..Len(in[k]) /\ Len(in[k]) \in Nat
  BY <1>1
<1>3. IsFiniteSet(1..Len(in[k]))
  BY <1>2, FS_Interval
<1> QED
  BY <1>2, <1>3

\* The DELETE leaves the parent's own elements that were sent.
LEMMA DeletedIsBegun ==
    ASSUME NEW view, NEW list, NEW ids, NEW owned, NEW scope,
           DOMAIN list \subseteq Nat \ {0}, DOMAIN ids = DOMAIN list,
           \A n \in DOMAIN list : Owns(list, owned, n) => ids[n] = list[n].id,
           \A n \in DOMAIN ids : ids[n] \in owned => Owns(list, owned, n),
           scope = owned \cap Range(ids)
    PROVE  \E place : Begun(place, view, list, 0, ids, owned, scope)
<1> DEFINE place == [n \in {} |-> NoId]
           Waiting == {ids[n] : n \in {m \in Elements(list) : m > 0 /\ Owns(list, owned, m)}}
<1>1. {n \in Elements(list) : n <= 0} = {}
  BY DEF Elements
<1>2. ASSUME NEW i \in scope
      PROVE  i \in Waiting
  <2>1. PICK n \in DOMAIN ids : ids[n] = i
    BY <1>2 DEF Range
  <2>2. n > 0 /\ Owns(list, owned, n) /\ n \in Elements(list)
    BY <1>2, <2>1 DEF Owns, Elements
  <2> QED
    BY <2>1, <2>2
<1>3. ASSUME NEW i \in Waiting
      PROVE  i \in scope
  BY <1>3 DEF Range, Owns, Elements
<1>4. scope = Waiting
  BY <1>2, <1>3
<1>5. Range(place) = {}
  BY DEF Range
<1>6. Begun(place, view, list, 0, ids, owned, scope)
  BY <1>1, <1>4, <1>5 DEF Begun, OwnRow
<1> QED
  BY <1>6

\* The next element, e, gets the row that has its id, or a new one: i.
NextGets(place, view, view2, list, at, ids, owned, scope, e, i) ==
    /\ at \in Nat /\ DOMAIN list \subseteq Nat \ {0} /\ DOMAIN ids = DOMAIN list
    /\ \A m, n \in DOMAIN ids : ids[m] = ids[n] /\ ids[n] # NoId => m = n
    /\ \A n \in DOMAIN list : Owns(list, owned, n) => ids[n] # NoId
    /\ e \in Elements(list) /\ e > at
    /\ \A m \in Elements(list) : m > at => e <= m
    /\ \/ ids[e] = NoId /\ i \notin Range(ids) /\ i \notin scope
       \/ ids[e] = i /\ i # NoId
    /\ \A n \in DOMAIN place : place[n] # i => view2[place[n]] = view[place[n]]
    /\ Holds(view2, list, e, i)

LEMMA BegunGoesOn ==
    ASSUME NEW place, NEW view, NEW view2, NEW list, NEW at, NEW ids, NEW owned, NEW scope,
           NEW e, NEW i, Begun(place, view, list, at, ids, owned, scope),
           NextGets(place, view, view2, list, at, ids, owned, scope, e, i)
    PROVE  \E place2 : Begun(place2, view2, list, e, ids, owned, scope \cup {i})
<1> USE DEF NextGets
<1> DEFINE scope2 == scope \cup {i}
           placed == {n \in Elements(list) : n <= e}
           place2 == [n \in placed |-> IF n = e THEN i ELSE place[n]]
<1>1. placed = DOMAIN place \cup {e} /\ e \notin DOMAIN place
  BY DEF Begun, Elements
<1>2. \A n \in DOMAIN place : place[n] # i
  <2>1. ASSUME NEW n \in DOMAIN place, place[n] = i
        PROVE  FALSE
    <3>1. n # e /\ n \in DOMAIN ids /\ e \in DOMAIN ids /\ i \in scope
      BY <1>1, <2>1 DEF Begun, Elements, Range
    <3>2. ids[e] = i /\ i # NoId
      BY <3>1
    <3>3. ids[n] = i
      BY <2>1, <3>1, <3>2 DEF Begun, Range
    <3> QED
      BY <3>1, <3>2, <3>3
  <2> QED
    BY <2>1
<1>3. place2[e] = i /\ \A n \in DOMAIN place : place2[n] = place[n]
  BY <1>1
<1>4. DOMAIN place2 = placed
  OBVIOUS
<1> HIDE DEF place2
<1>5. OwnRow(place2, view2, list)
  <2>1. OwnRow(place, view2, list)
    BY <1>2, OwnRowStays DEF Begun
  <2> QED
    BY <1>1, <1>2, <1>3, <1>4, <2>1 DEF OwnRow
<1>6. \A n \in placed : IF ids[n] = NoId THEN place2[n] \notin Range(ids) ELSE place2[n] = ids[n]
  BY <1>1, <1>3 DEF Begun
<1>7. scope2 = Range(place2) \cup
                 {ids[n] : n \in {m \in Elements(list) : m > e /\ Owns(list, owned, m)}}
  <2> DEFINE Waiting(n) == {ids[m] : m \in {l \in Elements(list) : l > n /\ Owns(list, owned, l)}}
  <2>1. Range(place2) = Range(place) \cup {i}
    BY <1>1, <1>3, <1>4 DEF Range
  <2>2. Waiting(at) \subseteq Waiting(e) \cup {i}
    <3>1. ASSUME NEW l \in Elements(list), l > at, Owns(list, owned, l)
          PROVE  ids[l] \in Waiting(e) \cup {i}
      <4>1. CASE l = e
        BY <3>1, <4>1 DEF Elements
      <4>2. CASE l # e
        <5>1. l > e
          BY <3>1, <4>2 DEF Elements
        <5> QED
          BY <3>1, <5>1
      <4> QED
        BY <4>1, <4>2
    <3> QED
      BY <3>1
  <2>3. Waiting(e) \subseteq Waiting(at)
    <3>1. \A l \in Elements(list) : l > e => l > at
      BY DEF Elements
    <3> QED
      BY <3>1
  <2>4. scope = Range(place) \cup Waiting(at)
    BY DEF Begun
  <2> HIDE DEF Waiting
  <2>5. scope2 = Range(place2) \cup Waiting(e)
    BY <2>1, <2>2, <2>3, <2>4
  <2> QED
    BY <2>5 DEF Waiting
<1>8. Begun(place2, view2, list, e, ids, owned, scope2)
  BY <1>4, <1>5, <1>6, <1>7 DEF Begun
<1> QED
  BY <1>8

\* After the last element the list is as it was sent.
LEMMA BegunIsDone ==
    ASSUME NEW view, NEW list, NEW at, NEW ids, NEW owned, NEW scope,
           NEW place, Begun(place, view, list, at, ids, owned, scope),
           NoId \notin owned,
           \A n \in DOMAIN list : Owns(list, owned, n) => ids[n] = list[n].id,
           DOMAIN list \subseteq Nat \ {0}, at \in Nat,
           \A n \in Elements(list) : ~(n > at)
    PROVE  Done(place, view, list, owned, scope)
<1>1. DOMAIN place = Elements(list)
  BY DEF Begun, Elements
<1>2. scope = Range(place)
  BY DEF Begun
<1>3. ASSUME NEW n \in Elements(list), Owns(list, owned, n)
      PROVE  place[n] = list[n].id
  <2>1. ids[n] = list[n].id /\ ids[n] # NoId
    BY <1>3 DEF Elements, Owns
  <2> QED
    BY <1>1, <2>1 DEF Begun
<1> QED
  BY <1>1, <1>2, <1>3 DEF Begun, Done

\* What a list that is as it was sent says of each element, and of their number.
LEMMA DoneCounts ==
    ASSUME NEW view, NEW list, NEW owned, NEW scope, NEW place,
           Done(place, view, list, owned, scope), IsFiniteSet(DOMAIN list)
    PROVE  Cardinality(scope) = Cardinality(Elements(list))
<1>1. IsFiniteSet(Elements(list))
  BY FS_Subset DEF Elements
<1>2. [n \in Elements(list) |-> place[n]] \in Bijection(Elements(list), scope)
  BY DEF Done, OwnRow, Bijection, Injection, Surjection, IsInjective, Range
<1> QED
  BY <1>1, <1>2, FS_Bijection DEF ExistsBijection
-------------------------------------------------------------------------------
\* The list of a partition is what was sent, in what the call sees.
ListDone(c, k) ==
    \E place : Done(place, View(c), In(c)[k], Scope(rows, Parent(c), k), Scope(View(c), Parent(c), k))

\* The list that is being written, after the DELETE...
ListBegun(c) ==
    \E place : Begun(place, View(c), List(c), tx[c].at, tx[c].ids,
                     Scope(rows, Parent(c), tx[c].key), Scope(View(c), Parent(c), tx[c].key))

\* ... and before it.
Unwritten(c) ==
    LET owned == Scope(rows, Parent(c), tx[c].key)
    IN /\ tx[c].at = 0
       /\ Scope(View(c), Parent(c), tx[c].key) = owned
       /\ \A n \in DOMAIN tx[c].ids : tx[c].ids[n] \in owned => Owns(List(c), owned, n)

Listing(c) == c \in Open =>
    /\ pc[c] \in {"echo", "commit"} => tx[c].todo = {}
    /\ \A k \in Partitions(In(c)) \ tx[c].todo : (pc[c] \in Busy /\ k = tx[c].key) \/ ListDone(c, k)
    /\ pc[c] \in {"delete", "deleting"} => Unwritten(c)
    /\ pc[c] = "deleting" =>
           tx[c].snap = Scope(View(c), Parent(c), tx[c].key) \ Range(tx[c].ids)
    /\ pc[c] = "upsert" => ListBegun(c)

LEMMA OpenFacts ==
    ASSUME Saves, NEW c \in Calls, c \in Open
    PROVE  /\ Parent(c) \in Parents /\ In(c) \in Patches /\ EmptyKey \notin Partitions(In(c))
           /\ Partitions(In(c)) \subseteq Keys /\ tx[c].todo \subseteq Partitions(In(c))
           /\ pc[c] \in Busy => /\ tx[c].key \in Partitions(In(c)) /\ tx[c].key \in Keys
                                /\ DOMAIN tx[c].ids = DOMAIN List(c)
  BY PartitionsAreKeys DEF Saves, Inv, Local, Partitions

LEMMA NextViewIsHomed ==
    ASSUME Inv', NEW c \in Calls, NEW i \in Ids
    PROVE  Homed(home', i, View(c)'[i])
<1>1. \A j \in DOMAIN tx'[c].writes : Homed(home', j, tx'[c].writes[j])
  BY DEF Inv, Local
<1>2. DOMAIN rows' = Ids /\ Homed(home', i, rows'[i])
  BY DEF Inv, Shaped, AllHomed
<1> QED
  BY <1>1, <1>2 DEF View, Over

\* The rows of a partition that no step has touched.
LEMMA DoneStays ==
    ASSUME NEW c \in Calls, NEW k, ListDone(c, k), In(c)'[k] = In(c)[k],
           Scope(rows, Parent(c), k)' = Scope(rows, Parent(c), k),
           Scope(View(c), Parent(c), k)' = Scope(View(c), Parent(c), k),
           \A i \in Scope(View(c), Parent(c), k) : View(c)'[i] = View(c)[i]
    PROVE  ListDone(c, k)'
<1>1. PICK place : Done(place, View(c), In(c)[k], Scope(rows, Parent(c), k), Scope(View(c), Parent(c), k))
  BY DEF ListDone
<1>2. \A n \in DOMAIN place : View(c)'[place[n]] = View(c)[place[n]]
  BY <1>1 DEF Done, Range
<1>3. OwnRow(place, View(c)', In(c)[k])
  BY <1>1, <1>2, OwnRowStays DEF Done
<1>4. Done(place, View(c)', In(c)'[k], Scope(rows', Parent(c)', k), Scope(View(c)', Parent(c)', k))
  BY <1>1, <1>3 DEF Done
<1> QED
  BY <1>4 DEF ListDone

LEMMA BegunStays ==
    ASSUME NEW c \in Calls, ListBegun(c), List(c)' = List(c),
           tx'[c].key = tx[c].key, tx'[c].at = tx[c].at, tx'[c].ids = tx[c].ids,
           Scope(rows, Parent(c), tx[c].key)' = Scope(rows, Parent(c), tx[c].key),
           Scope(View(c), Parent(c), tx[c].key)' = Scope(View(c), Parent(c), tx[c].key),
           \A i \in Scope(View(c), Parent(c), tx[c].key) : View(c)'[i] = View(c)[i]
    PROVE  ListBegun(c)'
<1>1. PICK place : Begun(place, View(c), List(c), tx[c].at, tx[c].ids,
                         Scope(rows, Parent(c), tx[c].key), Scope(View(c), Parent(c), tx[c].key))
  BY DEF ListBegun
<1>2. \A n \in DOMAIN place : View(c)'[place[n]] = View(c)[place[n]]
  BY <1>1 DEF Begun, Range
<1>3. OwnRow(place, View(c)', List(c))
  BY <1>1, <1>2, OwnRowStays DEF Begun
<1>4. Begun(place, View(c)', List(c)', tx'[c].at, tx'[c].ids,
            Scope(rows', Parent(c)', tx'[c].key), Scope(View(c)', Parent(c)', tx'[c].key))
  BY <1>1, <1>3 DEF Begun
<1> QED
  BY <1>4 DEF ListBegun

\* A save writes in one partition at a time.
LEMMA OtherListStays ==
    ASSUME Saves, Inv', HomesStay, NEW c \in Calls, c \in Open, rows' = rows,
           Parent(c)' = Parent(c), In(c)' = In(c),
           \A i \in Ids : View(c)'[i] # View(c)[i] => home'[i] = Here(c),
           NEW k \in Partitions(In(c)), k # tx[c].key, ListDone(c, k)
    PROVE  ListDone(c, k)'
<1>1. k \in Keys /\ k # EmptyKey
  BY OpenFacts
<1>2. ASSUME NEW i \in Ids
      PROVE  /\ i \in Scope(View(c)', Parent(c), k) <=> i \in Scope(View(c), Parent(c), k)
             /\ i \in Scope(View(c), Parent(c), k) => View(c)'[i] = View(c)[i]
  <2>1. CASE View(c)'[i] = View(c)[i]
    BY <2>1 DEF Scope
  <2>2. CASE View(c)'[i] # View(c)[i]
    <3>1. home'[i] = <<Parent(c), tx[c].key>>
      BY <2>2 DEF Here
    <3>2. Homed(home', i, View(c)'[i])
      BY NextViewIsHomed
    <3>3. i \notin Scope(View(c)', Parent(c), k)
      BY <1>1, <3>1, <3>2 DEF Scope, Homed
    <3>4. i \notin Scope(View(c), Parent(c), k)
      <4>1. SUFFICES ASSUME i \in Scope(View(c), Parent(c), k) PROVE FALSE
        OBVIOUS
      <4>2. home[i] = <<Parent(c), k>> /\ home[i] # None
        BY <1>1, <4>1, ScopeIsHomed DEF Saves
      <4> QED
        BY <3>1, <4>2 DEF HomesStay
    <3> QED
      BY <3>3, <3>4
  <2> QED
    BY <2>1, <2>2
<1>3. Scope(View(c)', Parent(c), k) \subseteq Ids /\ Scope(View(c), Parent(c), k) \subseteq Ids
  BY ScopeTyped
<1>4. Scope(View(c)', Parent(c), k) = Scope(View(c), Parent(c), k)
  BY <1>2, <1>3
<1> QED
  BY <1>2, <1>3, <1>4, DoneStays

LEMMA OthersListing ==
    ASSUME Saves, Inv', NEW c \in Calls, c \in Open, Aside(c), Listing(c)
    PROVE  Listing(c)'
<1>1. /\ pc'[c] = pc[c] /\ tx'[c] = tx[c]
      /\ Parent(c)' = Parent(c) /\ In(c)' = In(c) /\ List(c)' = List(c)
  BY DEF Aside, Parent, In, List
<1>2. ASSUME NEW k \in Keys
      PROVE  /\ Scope(rows, Parent(c), k)' = Scope(rows, Parent(c), k)
             /\ Scope(View(c), Parent(c), k)' = Scope(View(c), Parent(c), k)
             /\ \A i \in Scope(View(c), Parent(c), k) : View(c)'[i] = View(c)[i]
  <2>1. \A i \in Scope(View(c), Parent(c), k) :
            i \in Ids /\ home[i] = <<Parent(c), k>> /\ home[i] # None
    BY ScopeIsHomed, SentinelAssumption DEF Saves
  <2> QED
    BY <2>1, HomeStays, OwnScopeStays DEF Saves
<1>3. \A k \in Partitions(In(c)) : ListDone(c, k) => ListDone(c, k)'
  BY <1>1, <1>2, OpenFacts, DoneStays
<1>4. pc[c] = "upsert" => ListBegun(c)'
  BY <1>1, <1>2, OpenFacts, BegunStays DEF Listing, Busy
<1>5. pc[c] \in {"delete", "deleting"} => Unwritten(c)'
  <2>1. SUFFICES ASSUME pc[c] \in {"delete", "deleting"} PROVE Unwritten(c)'
    OBVIOUS
  <2>2. Unwritten(c) /\ tx[c].key \in Keys
    BY <2>1, OpenFacts DEF Listing, Busy
  <2> QED
    BY <1>1, <1>2, <2>2 DEF Unwritten
<1>6. pc[c] = "deleting" =>
          tx'[c].snap = (Scope(View(c), Parent(c), tx[c].key) \ Range(tx[c].ids))'
  <2>1. SUFFICES ASSUME pc[c] = "deleting"
                 PROVE  tx'[c].snap = (Scope(View(c), Parent(c), tx[c].key) \ Range(tx[c].ids))'
    OBVIOUS
  <2>2. tx[c].key \in Keys /\ tx[c].snap = Scope(View(c), Parent(c), tx[c].key) \ Range(tx[c].ids)
    BY <2>1, OpenFacts DEF Listing, Busy
  <2> QED
    BY <1>1, <1>2, <2>2
<1> QED
  BY <1>1, <1>3, <1>4, <1>5, <1>6 DEF Listing
LEMMA StartListing ==
    ASSUME Saves, NEW c \in Calls, Start(c)
    PROVE  Listing(c)'
<1>1. PICK p \in Parents, in \in Patches :
        /\ call' = [call EXCEPT ![c] = [parent |-> p, in |-> in]]
        /\ tx' = [tx EXCEPT ![c].todo = Partitions(in)]
        /\ Goto(c, IF Partitions(in) = {} THEN "echo" ELSE "own")
  BY DEF Start
<1>2. In(c)' = in /\ tx'[c].todo = Partitions(in)
      /\ pc'[c] = IF Partitions(in) = {} THEN "echo" ELSE "own"
  BY <1>1 DEF Saves, Inv, Shaped, NoTx, In, Goto
<1> QED
  BY <1>2 DEF Listing, Busy

LEMMA ReadOwnedListing ==
    ASSUME Saves, NEW c \in Calls, ReadOwned(c), Listing(c)
    PROVE  Listing(c)'
<1>1. PICK k \in tx[c].todo : \E ids \in Resolved(In(c)[k], Scope(View(c), Parent(c), k)) :
            ReadsOwned(c, k, ids)
  BY ReadOwnedReads DEF Saves
<1>2. PICK ids \in Resolved(In(c)[k], Scope(View(c), Parent(c), k)) : ReadsOwned(c, k, ids)
  BY <1>1
<1>3. /\ c \in Open /\ pc[c] = "own" /\ pc'[c] = "delete" /\ rows' = rows
      /\ Parent(c)' = Parent(c) /\ In(c)' = In(c) /\ List(c)' = In(c)[k]
  BY <1>2 DEF ReadsOwned, ReadOwned, Saves, Inv, Shaped, Open, Goto, Parent, In, List
<1>4. View(c)' = View(c)
  BY <1>2, <1>3 DEF ReadsOwned, View
<1>5. k \in Partitions(In(c)) /\ k \in Keys /\ k # EmptyKey /\ In(c) \in Patches
  BY <1>3, OpenFacts
<1>6. Scope(View(c), Parent(c), k) = Scope(rows, Parent(c), k)
  BY <1>3, UnreachedIsCommitted
<1>7. DOMAIN In(c)[k] \subseteq Nat \ {0}
  BY <1>5, ListShape
<1>8. Scope(View(c), Parent(c), k) \cap Unused = {} /\ NoId \notin Scope(View(c), Parent(c), k)
  BY <1>5, ScopeIsHomed, SentinelAssumption DEF Saves, Unused
<1>9. \A n \in DOMAIN ids : ids[n] \in Scope(rows, Parent(c), k) =>
                                Owns(In(c)[k], Scope(rows, Parent(c), k), n)
  BY <1>6, <1>7, <1>8, ResolvedAreDistinct
<1>10. Unwritten(c)'
  BY <1>2, <1>3, <1>4, <1>6, <1>9 DEF ReadsOwned, Unwritten
<1>11. \A l \in Partitions(In(c)) \ tx[c].todo : ListDone(c, l)'
  <2>1. ASSUME NEW l \in Partitions(In(c)) \ tx[c].todo
        PROVE  ListDone(c, l)'
    <3>1. ListDone(c, l)
      BY <1>3 DEF Listing, Busy
    <3> QED
      BY <1>3, <1>4, <3>1, DoneStays
  <2> QED
    BY <2>1
<1> QED
  BY <1>2, <1>3, <1>10, <1>11 DEF ReadsOwned, Listing, Busy

LEMMA StartDeleteListing ==
    ASSUME Saves, NEW c \in Calls, StartDelete(c), Listing(c)
    PROVE  Listing(c)'
<1> DEFINE S == Scope(View(c), Parent(c), tx[c].key) \ Range(tx[c].ids)
<1>1. /\ tx'[c].todo = tx[c].todo /\ tx'[c].key = tx[c].key /\ tx'[c].ids = tx[c].ids
      /\ tx'[c].writes = tx[c].writes /\ tx'[c].at = tx[c].at /\ tx'[c].snap = S
  BY DEF StartDelete, Saves, Inv, Shaped, NoTx
<1>2. /\ c \in Open /\ pc[c] = "delete" /\ pc'[c] = "deleting" /\ rows' = rows
      /\ Parent(c)' = Parent(c) /\ In(c)' = In(c)
  BY DEF StartDelete, Saves, Inv, Shaped, Open, Goto, Parent, In
<1>3. List(c)' = List(c) /\ View(c)' = View(c)
  BY <1>1, <1>2 DEF List, View
<1>4. Unwritten(c)'
  BY <1>1, <1>2, <1>3 DEF Listing, Unwritten
<1>5. \A k \in Partitions(In(c)) \ tx[c].todo : k = tx[c].key \/ ListDone(c, k)'
  <2>1. ASSUME NEW k \in Partitions(In(c)) \ tx[c].todo, k # tx[c].key
        PROVE  ListDone(c, k)'
    <3>1. ListDone(c, k)
      BY <1>2, <2>1 DEF Listing
    <3> QED
      BY <1>2, <1>3, <3>1, DoneStays
  <2> QED
    BY <2>1
<1> QED
  BY <1>1, <1>2, <1>3, <1>4, <1>5 DEF Listing, Busy

\* What is left when the call goes on to the elements, or past the last one.
LEMMA GoneOn ==
    ASSUME Saves, NEW c \in Calls, c \in Open, NEW place,
           pc[c] \in Busy,
           Parent(c)' = Parent(c), In(c)' = In(c), rows' = rows,
           tx'[c].todo = tx[c].todo, tx'[c].key = tx[c].key, tx'[c].ids = tx[c].ids,
           tx'[c].at \in Nat,
           pc'[c] = IF {n \in Elements(List(c)) : n > tx'[c].at} # {} THEN "upsert"
                    ELSE IF tx[c].todo # {} THEN "own" ELSE "echo",
           Begun(place, View(c)', List(c), tx'[c].at, tx[c].ids,
                 Scope(rows, Parent(c), tx[c].key), Scope(View(c)', Parent(c), tx[c].key)),
           \A k \in Partitions(In(c)) \ tx[c].todo : k = tx[c].key \/ ListDone(c, k)'
    PROVE  Listing(c)'
<1>1. tx[c].key \in Partitions(In(c)) /\ In(c) \in Patches /\ List(c) = In(c)[tx[c].key]
  BY OpenFacts DEF List
<1>2. List(c)' = List(c)
  BY DEF List
<1>3. CASE {n \in Elements(List(c)) : n > tx'[c].at} # {}
  <2>1. ListBegun(c)'
    BY <1>2 DEF ListBegun
  <2> QED
    BY <1>3, <2>1 DEF Listing, Busy
<1>4. CASE {n \in Elements(List(c)) : n > tx'[c].at} = {}
  <2> DEFINE owned == Scope(rows, Parent(c), tx[c].key)
  <2>1. NoId \notin owned
    BY ScopeTyped, SentinelAssumption
  <2>2. \A n \in DOMAIN List(c) : Owns(List(c), owned, n) => tx[c].ids[n] = List(c)[n].id
    BY DEF Saves, Saving, IdsKept
  <2>3. DOMAIN List(c) \subseteq Nat \ {0}
    BY <1>1, ListShape
  <2> HIDE DEF owned
  <2>4. Done(place, View(c)', List(c), owned, Scope(View(c)', Parent(c), tx[c].key))
    BY <1>4, <2>1, <2>2, <2>3, BegunIsDone DEF owned
  <2>5. ListDone(c, tx[c].key)'
    BY <1>1, <2>4 DEF ListDone, owned
  <2> QED
    BY <1>4, <2>5 DEF Listing, Busy
<1> QED
  BY <1>3, <1>4
LEMMA FinishDeleteListing ==
    ASSUME Saves, Inv', NEW c \in Calls, FinishDelete(c), Listing(c)
    PROVE  Listing(c)'
<1> DEFINE S == {i \in tx[c].snap : View(c)[i] # Absent}
           now == Scope(View(c), Parent(c), tx[c].key)
           after == Scope(View(c)', Parent(c), tx[c].key)
           owned == Scope(rows, Parent(c), tx[c].key)
<1>1. /\ tx'[c].todo = tx[c].todo /\ tx'[c].key = tx[c].key /\ tx'[c].ids = tx[c].ids
      /\ tx'[c].at = tx[c].at /\ tx'[c].writes = Over([i \in S |-> Absent], tx[c].writes)
  BY DEF FinishDelete, Saves, Inv, Shaped, NoTx
<1>2. /\ c \in Open /\ pc[c] = "deleting" /\ rows' = rows /\ home' = home
      /\ Parent(c)' = Parent(c) /\ In(c)' = In(c)
      /\ pc'[c] = IF Following(c) # {} THEN "upsert" ELSE IF tx[c].todo # {} THEN "own" ELSE "echo"
  BY DEF FinishDelete, Runs, GoOn, Saves, Inv, Shaped, Open, Goto, Parent, In
<1>3. /\ Unwritten(c) /\ tx[c].snap = now \ Range(tx[c].ids) /\ now = owned /\ tx[c].at = 0
      /\ \A n \in DOMAIN tx[c].ids : tx[c].ids[n] \in owned => Owns(List(c), owned, n)
  BY <1>2 DEF Listing, Unwritten
<1>4. /\ tx[c].key \in Partitions(In(c)) /\ In(c) \in Patches /\ DOMAIN tx[c].ids = DOMAIN List(c)
  BY <1>2, OpenFacts DEF Busy
<1>5. /\ \A i \in S : i \in Ids /\ home[i] = Here(c)
      /\ S = now \ Range(tx[c].ids) /\ now \subseteq Ids /\ after \subseteq Ids
  BY <1>2, <1>3, ScopeTyped DEF Saves, Inv, Local, Scope
<1>6. ASSUME NEW i \in Ids
      PROVE  View(c)'[i] = IF i \in S THEN Absent ELSE View(c)[i]
  <2> HIDE DEF S
  <2> QED
    BY <1>1, <1>2 DEF View, Over, Saves, Inv, Shaped
<1>7. after = owned \cap Range(tx[c].ids)
  <2>1. ASSUME NEW i \in Ids
        PROVE  i \in after <=> i \in now \ S
    BY <1>6 DEF Scope
  <2> HIDE DEF after, S, now, owned
  <2> QED
    BY <1>3, <1>5, <2>1
<1>8. \A k \in Partitions(In(c)) \ tx[c].todo : k = tx[c].key \/ ListDone(c, k)'
  <2>1. ASSUME NEW k \in Partitions(In(c)) \ tx[c].todo, k # tx[c].key
        PROVE  ListDone(c, k)'
    <3>1. ListDone(c, k)
      BY <1>2, <2>1 DEF Listing
    <3>2. \A i \in Ids : View(c)'[i] # View(c)[i] => home'[i] = Here(c)
      BY <1>2, <1>5, <1>6
    <3>3. HomesStay
      BY <1>2 DEF HomesStay
    <3> QED
      BY <1>2, <2>1, <3>1, <3>2, <3>3, OtherListStays
  <2> QED
    BY <2>1
<1>9. DOMAIN List(c) \subseteq Nat \ {0}
  BY <1>4, ListShape DEF List
<1>10. \A n \in DOMAIN List(c) : Owns(List(c), owned, n) => tx[c].ids[n] = List(c)[n].id
  BY <1>2 DEF Saves, Saving, IdsKept, Busy
<1> HIDE DEF after, S, now, owned
<1>11. PICK place : Begun(place, View(c)', List(c), 0, tx[c].ids, owned, after)
  BY <1>3, <1>4, <1>7, <1>9, <1>10, DeletedIsBegun
<1>12. {n \in Elements(List(c)) : n > tx'[c].at} = Following(c)
  BY <1>1 DEF Elements, Following
<1> QED
  BY <1>1, <1>2, <1>3, <1>8, <1>11, <1>12, GoneOn DEF owned, after, Busy

LEMMA UpsertedHolds ==
    ASSUME NEW view \in [Ids -> Row \cup {Absent}], NEW i \in Ids,
           NEW p, NEW k, NEW pos, NEW e, Sent(e) \subseteq Cells
    PROVE  /\ Upserted(view, i, p, k, pos, e).pos = pos
           /\ \A f \in Sent(e) : Upserted(view, i, p, k, pos, e).cells[f] = e.set[f]
<1> DEFINE set == [f \in Sent(e) |-> e.set[f]]
<1>1. ASSUME NEW old
      PROVE  \A f \in Sent(e) : Over(set, old)[f] = e.set[f]
  BY DEF Over
<1>2. CASE view[i] = Absent
  BY <1>1, <1>2 DEF Upserted
<1>3. CASE view[i] # Absent
  <2> DEFINE cells == Over(set, view[i].cells)
  <2>1. view[i] \in Row
    BY <1>3
  <2>2. Upserted(view, i, p, k, pos, e) = [view[i] EXCEPT !.pos = pos, !.cells = cells]
    BY <1>3 DEF Upserted
  <2>3. \A f \in Sent(e) : cells[f] = e.set[f]
    BY <1>1
  <2> HIDE DEF cells
  <2> QED
    BY <2>1, <2>2, <2>3 DEF Row
<1> QED
  BY <1>2, <1>3

LEMMA UpsertListing ==
    ASSUME Saves, Inv', HomesStay, NEW c \in Calls, Upsert(c), Listing(c)
    PROVE  Listing(c)'
<1> DEFINE now == Scope(View(c), Parent(c), tx[c].key)
           after == Scope(View(c)', Parent(c), tx[c].key)
           owned == Scope(rows, Parent(c), tx[c].key)
<1>1. PICK n \in NextElement(c), i \in Ids : UpsertWrites(c, n, i)
  BY UpsertWritesOne DEF Saves
<1>2. /\ tx'[c].todo = tx[c].todo /\ tx'[c].key = tx[c].key /\ tx'[c].ids = tx[c].ids /\ tx'[c].at = n
      /\ \A j \in Ids \ {i} : View(c)'[j] = View(c)[j]
      /\ View(c)'[i] # Absent /\ home'[i] = Here(c)
      /\ pc'[c] = IF Following(c) \ {n} # {} THEN "upsert" ELSE IF tx[c].todo # {} THEN "own" ELSE "echo"
  BY <1>1, SentinelAssumption DEF UpsertWrites
<1>3. \/ home[i] = None /\ tx[c].ids[n] = NoId
      \/ home[i] = Here(c) /\ tx[c].ids[n] = i /\ i # NoId
  BY <1>1 DEF UpsertWrites
<1>4. /\ c \in Open /\ pc[c] = "upsert" /\ rows' = rows
      /\ Parent(c)' = Parent(c) /\ In(c)' = In(c)
  BY DEF Upsert, Runs, Saves, Inv, Shaped, Open, Parent, In
<1>5. /\ tx[c].key \in Partitions(In(c)) /\ tx[c].key # EmptyKey /\ In(c) \in Patches
      /\ DOMAIN tx[c].ids = DOMAIN List(c)
  BY <1>4, OpenFacts DEF Busy
<1>6. /\ n \in Elements(List(c)) /\ n > tx[c].at /\ tx[c].at \in Nat
      /\ \A m \in Elements(List(c)) : m > tx[c].at => n <= m
      /\ DOMAIN List(c) \subseteq Nat \ {0}
  BY <1>5, ListShape DEF NextElement, Following, Elements, List, Saves, TypeOK
<1>7. {m \in Elements(List(c)) : m > n} = Following(c) \ {n}
  BY <1>6 DEF Following, Elements
<1>8. Holds(View(c)', List(c), n, i)
  <2>1. Sent(List(c)[n]) \subseteq Cells
    BY <1>5, <1>6, ElementTyped DEF Elements, List, Sent
  <2>2. View(c) \in [Ids -> Row \cup {Absent}]
    BY ViewTyped DEF Saves
  <2>3. View(c)'[i] = Upserted(View(c), i, Parent(c), tx[c].key, Position(List(c), n), List(c)[n])
    BY <1>1 DEF UpsertWrites
  <2> QED
    BY <2>1, <2>2, <2>3, UpsertedHolds DEF Holds
<1>9. after = now \cup {i}
  <2>1. i \in after
    BY <1>2, NextViewIsHomed DEF Scope, Homed, Here
  <2>2. \A j \in Ids \ {i} : j \in after <=> j \in now
    BY <1>2 DEF Scope
  <2>3. now \subseteq Ids /\ after \subseteq Ids
    BY ScopeTyped
  <2> HIDE DEF now, after
  <2> QED
    BY <2>1, <2>2, <2>3
<1>10. tx[c].ids[n] = NoId => i \notin Range(tx[c].ids) /\ i \notin now
  <2>1. SUFFICES ASSUME home[i] = None PROVE i \notin Range(tx[c].ids) /\ i \notin now
    BY <1>3
  <2>2. i \notin now
    BY <1>5, <2>1, ScopeIsHomed DEF Saves
  <2>3. Here(c) # None /\ NoId \notin Ids
    BY <1>4, HereIsAHome, SentinelAssumption DEF Saves, Inv, Busy
  <2>4. \A m \in DOMAIN tx[c].ids : tx[c].ids[m] # i
    BY <1>4, <2>1, <2>3 DEF Saves, Inv, Local, Busy
  <2> QED
    BY <2>2, <2>4 DEF Range
<1>11. /\ \A m, l \in DOMAIN tx[c].ids : tx[c].ids[m] = tx[c].ids[l] /\ tx[c].ids[l] # NoId => m = l
       /\ \A m \in DOMAIN List(c) : Owns(List(c), owned, m) => tx[c].ids[m] # NoId
  <2>1. NoId \notin owned
    BY ScopeTyped, SentinelAssumption
  <2>2. IdsKept(c)
    BY <1>4 DEF Saves, Saving, Busy
  <2> QED
    BY <2>1, <2>2 DEF IdsKept, Owns
<1>12. PICK place : Begun(place, View(c), List(c), tx[c].at, tx[c].ids, owned, now)
  BY <1>4 DEF Listing, ListBegun
<1>13. \A m \in DOMAIN place : place[m] # i => View(c)'[place[m]] = View(c)[place[m]]
  <2>1. \A m \in DOMAIN place : place[m] \in now
    BY <1>12 DEF Begun, Range
  <2>2. now \subseteq Ids
    BY ScopeTyped
  <2> HIDE DEF now
  <2> QED
    BY <1>2, <2>1, <2>2
<1>14. \A k \in Partitions(In(c)) \ tx[c].todo : k = tx[c].key \/ ListDone(c, k)'
  <2>1. ASSUME NEW k \in Partitions(In(c)) \ tx[c].todo, k # tx[c].key
        PROVE  ListDone(c, k)'
    <3>1. ListDone(c, k)
      BY <1>4, <2>1 DEF Listing
    <3>2. \A j \in Ids : View(c)'[j] # View(c)[j] => home'[j] = Here(c)
      BY <1>2
    <3> QED
      BY <1>4, <2>1, <3>1, <3>2, OtherListStays
  <2> QED
    BY <2>1
<1> HIDE DEF after, now, owned
<1>15. \/ tx[c].ids[n] = NoId /\ i \notin Range(tx[c].ids) /\ i \notin now
       \/ tx[c].ids[n] = i /\ i # NoId
  BY <1>3, <1>10
<1>16. \A m \in DOMAIN List(c) : Owns(List(c), owned, m) => tx[c].ids[m] # NoId
  BY <1>11
<1>17. \A m, l \in DOMAIN tx[c].ids : tx[c].ids[m] = tx[c].ids[l] /\ tx[c].ids[l] # NoId => m = l
  BY <1>11
<1>18. DOMAIN tx[c].ids = DOMAIN List(c)
  BY <1>5
<1>19. NextGets(place, View(c), View(c)', List(c), tx[c].at, tx[c].ids, owned, now, n, i)
  BY <1>6, <1>8, <1>13, <1>15, <1>16, <1>17, <1>18 DEF NextGets
<1>20. PICK place2 : Begun(place2, View(c)', List(c), n, tx[c].ids, owned, after)
  BY <1>9, <1>12, <1>19, BegunGoesOn
<1> QED
  BY <1>2, <1>4, <1>6, <1>7, <1>14, <1>20, GoneOn DEF owned, after, Busy, Elements

LEMMA EchoListing ==
    ASSUME Saves, NEW c \in Calls, Echo(c), Listing(c)
    PROVE  Listing(c)'
<1>1. /\ tx'[c].todo = tx[c].todo /\ tx'[c].writes = tx[c].writes
  BY DEF Echo, Saves, Inv, Shaped, NoTx
<1>2. /\ c \in Open /\ pc[c] = "echo" /\ pc'[c] = "commit" /\ rows' = rows
      /\ Parent(c)' = Parent(c) /\ In(c)' = In(c)
  BY DEF Echo, Saves, Inv, Shaped, Open, Goto, Parent, In
<1>3. View(c)' = View(c)
  BY <1>1, <1>2 DEF View
<1>4. ASSUME NEW k \in Partitions(In(c)) \ tx[c].todo
      PROVE  ListDone(c, k)'
  <2>1. ListDone(c, k)
    BY <1>2 DEF Listing, Busy
  <2> QED
    BY <1>2, <1>3, <2>1, DoneStays
<1> QED
  BY <1>1, <1>2, <1>4 DEF Listing, Busy

LEMMA ReturnListing ==
    ASSUME Saves, NEW c \in Calls, NEW a, Return(c, a)
    PROVE  Listing(c)'
  BY DEF Return, Goto, Saves, Inv, Shaped, Listing, Open

LEMMA StepListing ==
    ASSUME Saves, Inv', HomesStay, NEW c \in Calls, Start(c) \/ Step(c), Listing(c)
    PROVE  Listing(c)'
<1>1. CASE Commit(c) \/ Fail(c) \/ DeadlockVictim(c)
  BY <1>1, ReturnListing DEF Commit, Fail, DeadlockVictim
<1> QED
  BY <1>1, StartListing, ReadOwnedListing, StartDeleteListing, FinishDeleteListing,
     UpsertListing, EchoListing DEF Step, Statement

Lists == Saves /\ \A c \in Calls : Listing(c)

LEMMA NextLists ==
    ASSUME Patches \subseteq Locking, Lists, [Next]_vars
    PROVE  Lists'
<1>1. Saves /\ Saves' /\ Inv' /\ HomesStay
  BY NextHomed, NextSaves DEF Lists, Saves
<1>2. CASE UNCHANGED vars
  <2>1. ASSUME NEW c \in Calls
        PROVE  Listing(c)'
    <3>1. rows' = rows /\ home' = home /\ pc' = pc /\ call' = call /\ tx' = tx
      BY <1>2 DEF vars
    <3>2. /\ Parent(c)' = Parent(c) /\ In(c)' = In(c) /\ List(c)' = List(c)
          /\ View(c)' = View(c) /\ Open' = Open
      BY <3>1 DEF Parent, In, List, View, Open
    <3>3. /\ \A k : ListDone(c, k)' <=> ListDone(c, k)
          /\ ListBegun(c)' <=> ListBegun(c)
          /\ Unwritten(c)' <=> Unwritten(c)
      BY <3>1, <3>2 DEF ListDone, ListBegun, Unwritten
    <3> QED
      BY <3>1, <3>2, <3>3 DEF Lists, Listing
  <2> QED
    BY <1>1, <2>1 DEF Lists
<1>3. ASSUME NEW c \in Calls, Start(c) \/ Step(c)
      PROVE  Lists'
  <2>1. TypedStep(c)
    BY <1>1, <1>3, StepTyped DEF Saves, Step
  <2>2. Listing(c)'
    BY <1>1, <1>3, StepListing DEF Lists
  <2>3. ASSUME NEW d \in Calls \ {c}
        PROVE  Listing(d)'
    <3>1. CASE d \in Open
      BY <1>1, <1>3, <2>1, <3>1, OthersAside, OthersListing DEF Lists
    <3>2. CASE d \notin Open
      <4>1. pc'[d] = pc[d]
        BY <1>1, <2>1 DEF TypedStep, TypeOK, Saves, Inv, Shaped
      <4> QED
        BY <3>2, <4>1 DEF Listing, Open
    <3> QED
      BY <3>1, <3>2
  <2> QED
    BY <1>1, <2>2, <2>3 DEF Lists
<1> QED
  BY <1>2, <1>3 DEF Next, Finished, Step

\* child.go:671-708: there too, a commit leaves in each partition it was sent the list
\* as it was sent: as many elements, in their order and without gaps, with the cells
\* that were sent, and under their own ids where they were the parent's.
THEOREM ListsRight ==
    ASSUME Patches \subseteq Locking
    PROVE  Spec => ListsAsSent
<1> DEFINE list(c, k) == In(c)[k]
           now(c, k) == Scope(rows', Parent(c), k)
           AsSent(c, k) ==
               /\ Cardinality(now(c, k)) = Cardinality(Elements(list(c, k)))
               /\ \A n \in Elements(list(c, k)) : \E i \in now(c, k) :
                    /\ rows'[i].pos = Position(list(c, k), n)
                    /\ \A f \in Sent(list(c, k)[n]) : rows'[i].cells[f] = list(c, k)[n].set[f]
                    /\ Owns(list(c, k), Scope(rows, Parent(c), k), n) => i = list(c, k)[n].id
<1>1. ASSUME Lists, [Next]_vars, NEW c \in Calls, CommitsAlone(c), NEW k \in Partitions(In(c))
      PROVE  AsSent(c, k)
  <2>1. c \in Open /\ rows' = View(c) /\ Saves
    BY <1>1, Committing DEF Lists
  <2>2. In(c) \in Patches
    BY <2>1, OpenFacts
  <2>3. ListDone(c, k)
    BY <1>1, <2>1 DEF Lists, Listing, CommitsAlone, Busy
  <2>4. PICK place : Done(place, rows', list(c, k), Scope(rows, Parent(c), k), now(c, k))
    BY <2>1, <2>3 DEF ListDone
  <2>5. IsFiniteSet(DOMAIN list(c, k))
    BY <2>2, ListShape
  <2>6. Cardinality(now(c, k)) = Cardinality(Elements(list(c, k)))
    BY <2>4, <2>5, DoneCounts
  <2>7. ASSUME NEW n \in Elements(list(c, k))
        PROVE  /\ place[n] \in now(c, k) /\ Holds(rows', list(c, k), n, place[n])
               /\ Owns(list(c, k), Scope(rows, Parent(c), k), n) => place[n] = list(c, k)[n].id
    BY <2>4 DEF Done, OwnRow, Range
  <2> HIDE DEF now, list
  <2> QED
    BY <2>6, <2>7 DEF Holds
<1>2. Init => Lists
  BY InitSaves DEF Init, Lists, Listing, Open
<1>3. Lists /\ [Next]_vars => Lists'
  BY NextLists
<1>4. Lists /\ [Next]_vars =>
        [\A c \in Calls : CommitsAlone(c) => \A k \in Partitions(In(c)) : AsSent(c, k)]_vars
  BY <1>1
<1> QED
  BY <1>2, <1>3, <1>4, PTL DEF Spec, ListsAsSent, Elements
===============================================================================
