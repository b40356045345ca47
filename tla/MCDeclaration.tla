----------------------------- MODULE MCDeclaration -----------------------------
(***************************************************************************)
(* Cells, blocks and requests for TLC.                                     *)
(***************************************************************************)
EXTENDS Declaration

CONSTANTS a, b, en, ru, main, extra, small, large, p, q

MCChoices == <<small, large>>
MCRegistries == {{}, {main}, {main, extra}}
MCLocale(r) == IF r = p THEN en ELSE ru

Text == Cell("Text", "", "string", "")
ReadOnly == Cell("ReadOnly", "", "any", "")
MCCells == {
    Text, Frozen(Text), ReadOnly,
    Cell("Str", "", "string", ""), Cell("Bool", "", "boolean", ""),
    Cell("Time", "", "string", ""),
    Cell("Int", "", "integer", ""), Cell("Num", "", "number", ""),
    Cell("JSONEditable", "", "any", ""), Cell("Deferred", "", "any", ""),
    Cell("Strings", "", "list", "string"), Cell("Ints", "", "list", "integer"),
    Cell("Timestamps", "", "list", "string"),
    Cell("ChildValues", "Text", "list", "string"), Cell("ChildValues", "Int", "list", "integer"),
    Cell("ChildValues", "TimeOfDay", "list", "string"),
    Cell("ChildValues", "JSONEditable", "list", "any"),
    Cell("KeyedChildValues", "Text", "map", "list"),
    Cell("ChildRows", "", "items", ""), Cell("KeyedChildRows", "", "map", "items"),
    Cell("Rels", "", "list", "string"), Cell("DeferredList", "", "list", "string"),
    Cell("KeyedStrings", "", "map", "string")}

\* The elements of a block: an id and a text, with and without a mistake.
Sub(name, col, ui) == [name |-> name, group |-> NoGroup, col |-> col, ui |-> ui, items |-> <<>>]
MCBlocks == {
    <<>>,
    <<Sub(a, ReadOnly, Readonly(String)), Sub(b, Text, Required(String))>>,
    <<Sub(a, ReadOnly, Readonly(String)), Sub(b, Text, Integer)>>}

\* A second field follows a bare one only: a text or a relation, with at most
\* one step more.
Second == LET plain == {String, Relation(FALSE)}
          IN  plain \cup (UNION {{Hidden(f), Readonly(f), Required(f), Nullable(f)} : f \in plain})
                    \cup {ParentField(Relation(FALSE), a), List(String), Keyed(String, Keys)}

\* Only what can still become a clean declaration goes on, and the first
\* field is called a.
Promising ==
    /\ decl' # decl => /\ decl = <<>> => decl'[1].name = a
                       /\ specs = {} => decl'[Len(decl')].group = NoGroup /\ effort <= 1
                       /\ LevelIsSound(decl'[Len(decl')].items)
                       /\ \A e \in {decl'[n] : n \in DOMAIN decl'} :
                            /\ EntryIsSound(<<e, [e EXCEPT !.name = b]>>, e)
                            /\ specs # {} => Sectioned(e)
    /\ decl # <<>> /\ draft' # <<>> => effort' <= 1 /\ draft' \in Second
    /\ decl # <<>> /\ draft = <<>> /\ draft' # <<>> => effort = 0
===============================================================================
