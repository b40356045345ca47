------------------------------ MODULE Declaration ------------------------------
(***************************************************************************)
(* The declaration of an entity (package decl): entries that set a form    *)
(* field beside a storage cell, the lint that compares the two, and the    *)
(* documents that requests put together from the one declaration.          *)
(*                                                                         *)
(* An author writes entries; the entity's test publishes the declaration   *)
(* when its lint is clean.  From then on it is a package variable that     *)
(* requests read at the same time, each for its own locale, while they     *)
(* label copies of its fields.  A field is three maps: the field itself,   *)
(* its ui:options and its properties; a copy of the field is shallow.      *)
(***************************************************************************)
EXTENDS FormField, FiniteSets

CONSTANTS Registries,    \* the section registries an entity may have
          Typo, NoGroup, \* a section that is not declared; none
          Cells,         \* the storage cells of this instance
          Blocks,        \* element declarations, without blocks of their own; <<>> for none
          Requests, Locales,
          Locale(_),     \* the locale of a request
          Unlabelled,
          MaxEntries,    \* bounds: entries,
          MaxEffort      \*   wrappers and modifiers of one field

\* The maps of a field, and who may own one.
Parts == {"field", "options", "properties"}
Declared == "declaration"

Elements == [name : Names, group : {NoGroup}, col : Cells, ui : Fields, items : {<<>>}]

ASSUME DeclarationAssumption ==
    /\ MaxEntries \in Nat /\ MaxEffort \in Nat
    /\ <<>> \in Blocks /\ \A b \in Blocks : b \in Seq(Elements)
    /\ \A s \in Registries : IsFiniteSet(s) /\ NoGroup \notin s
    /\ Declared \notin Requests /\ Unlabelled \notin Locales
    /\ \A r \in Requests : Locale(r) \in Locales

VARIABLES specs,   \* the sections of this entity, by id
          decl,    \* the entries so far
          draft,   \* the field being written, <<>> for none
          effort,  \* bound: steps taken on it
          public,  \* is the declaration in use?
          doc,     \* of a request: per entry, the owner of each map
          words    \* per owner and entry: the locale of the labels in each map

vars == <<specs, decl, draft, effort, public, doc, words>>
authoring == <<specs, decl, draft, effort, public>>
-------------------------------------------------------------------------------
(* Cells: what they declare and what they parse.                            *)

\* parser: the constructor; elem: the constructor of the cell it wraps.
Cell(parser, elem, kind, elemKind) ==
    [parser |-> parser, elem |-> elem, wire |-> Shape(kind, elemKind),
     writable |-> parser # "ReadOnly"]
Frozen(c) == [c EXCEPT !.writable = FALSE]

\* The cells there are: of a scalar; of a list and of a map, of scalars or of
\* blocks; those whose value nobody parses; and all of them frozen.
Timed == {"Time", "TimeLocal", "Date", "TimeOfDay"}
ScalarCells == {Cell(t, "", "string", "") : t \in {"Text", "Str", "UUID"} \cup Timed}
               \cup {Cell("Bool", "", "boolean", ""), Cell("Int", "", "integer", ""),
                     Cell("Num", "", "number", ""), Cell("JSONEditable", "", "any", "")}
ListCells == {Cell("Strings", "", "list", "string"), Cell("Ints", "", "list", "integer"),
              Cell("Floats", "", "list", "number"), Cell("Timestamps", "", "list", "string"),
              Cell("Rels", "", "list", "string"), Cell("DeferredList", "", "list", "string"),
              Cell("ChildRows", "", "items", "")}
             \cup {Cell("ChildValues", s.parser, "list", s.wire.kind) : s \in ScalarCells}
MapCells == {Cell("KeyedStrings", "", "map", "string"), Cell("KeyedChildRows", "", "map", "items")}
            \cup {Cell("KeyedChildValues", s.parser, "map", "list") : s \in ScalarCells}
OtherCells == {Cell("ReadOnly", "", "any", ""), Cell("Deferred", "", "any", "")}
WritableCells == ScalarCells \cup ListCells \cup MapCells \cup OtherCells
AllCells == WritableCells \cup {Frozen(c) : c \in WritableCells}

\* The text that a cell of a time takes.
Format(parser) == CASE parser \in {"Time", "Timestamps"} -> "instant"
                    [] parser = "TimeLocal" -> "wallclock"
                    [] parser = "Date"      -> "date"
                    [] parser = "TimeOfDay" -> "clock"

\* What a scalar cell writes.  It is the database that tells whether a text is a
\* UUID, and fails the save if it is not.
ScalarKinds(parser) == CASE parser \in {"Text", "UUID"} -> Texts \cup {"null"}
                         [] parser = "Str"  -> Texts
                         [] parser \in Timed -> {Format(parser), "blank", "null"}
                         [] parser = "Bool" -> {"boolean"}
                         [] parser = "Int"  -> {"integer", "null"}
                         [] parser = "Num"  -> {"integer", "huge", "fraction", "null"}
                         [] parser = "JSONEditable" -> Deepest
                         [] OTHER -> {}

\* The value begins with these kinds and what it holds, if anything, is one of elems.
Holds(v, outer, elems) ==
    /\ \A n \in DOMAIN v : n <= Len(outer) => v[n] = outer[n]
    /\ Len(v) > Len(outer) => v[Len(outer) + 1] \in elems

\* Does the cell write the whole of a value?  A keyed text that is null clears,
\* and the empty text is no id.
Parses(c, v) ==
    CASE c.parser = "Strings" -> v = <<"null">> \/ Holds(v, <<"list">>, Texts)
      [] c.parser = "Ints"    -> v = <<"null">> \/ Holds(v, <<"list">>, {"integer"})
      [] c.parser = "Floats"  -> v = <<"null">> \/ Holds(v, <<"list">>, {"integer", "huge", "fraction"})
      [] c.parser = "Timestamps" -> v = <<"null">> \/ Holds(v, <<"list">>, {"instant"})
      [] c.parser = "Rels"         -> Holds(v, <<"list">>, Texts \ {"blank"})
      [] c.parser = "DeferredList" -> Holds(v, <<"list">>, Texts)
      [] c.parser = "ChildValues"      -> Holds(v, <<"list">>, ScalarKinds(c.elem))
      [] c.parser = "KeyedChildValues" -> Holds(v, <<"map", "list">>, ScalarKinds(c.elem))
      [] c.parser = "ChildRows"        -> Holds(v, <<"list">>, {"map"})
      [] c.parser = "KeyedChildRows"   -> Holds(v, <<"map", "list">>, {"map"})
      [] c.parser = "KeyedStrings"     -> Holds(v, <<"map">>, Texts \cup {"null"})
      [] c.parser = "Deferred"         -> TRUE
      [] c.parser = "ReadOnly"         -> FALSE
      [] OTHER -> v[1] \in ScalarKinds(c.parser)

ASSUME CellsAssumption == Cells \subseteq AllCells

\* What the vocabulary makes: a layer has no type or one, beside null; an array
\* holds blocks or says what it holds; an object is a keyed field, and what its
\* keys hold is said, lists where they are to hold blocks.
OneType(ts) == ts # {"null"} /\ \A s, t \in ts \ {"null"} : s = t
Shaped(f) == /\ \A n \in DOMAIN f : OneType(f[n].type)
             /\ IsItems(f) => Len(f) = 1 /\ "array" \in f[1].type /\ ~IsRelation(f[1])
             /\ "array" \in f[1].type => IsItems(f) \/ Len(f) > 1
             /\ "object" \in f[1].type => IsKeyed(f)
             /\ IsKeyed(f) => Len(f) > 1
             /\ IsKeyedItems(f) => /\ IsKeyed(f) /\ Len(f) = 2
                                   /\ "array" \in f[2].type /\ ~IsRelation(f[2])

\* So are the fields of the blocks.
ASSUME BlocksAssumption == \A b \in Blocks : \A n \in DOMAIN b : Shaped(b[n].ui)
-------------------------------------------------------------------------------
(* decl.Lint: every rule, and a clean declaration.                          *)

\* The storage takes writes iff the form does.
WritesAgree(e) == e.col.writable <=> ~IsReadonly(e.ui)

RequiredIsWritable(e) == IsRequired(e.ui) => e.col.writable /\ ~IsReadonly(e.ui)
ShapesAgree(e) == e.col.writable => Match(e.col.wire, WireKind(e.ui))
ParentDeclared(s, e) == e.ui[1].parent # NoName => \E n \in DOMAIN s : s[n].name = e.ui[1].parent

\* A block has elements and nothing else has: decl.Lint and ui.Lint.
BlocksAgree(e) == (e.items # <<>>) <=> (IsItems(e.ui) \/ IsKeyedItems(e.ui))

NamedOnce(s) == \A m, n \in DOMAIN s : s[m].name = s[n].name => m = n

\* Fault: a section that is not declared is not found.
SectionNamed(e) == IF IsHidden(e.ui) THEN e.group = NoGroup ELSE e.group # NoGroup

\* What is visible is in a declared section, what is hidden in none.
Sectioned(e) == IF IsHidden(e.ui) THEN e.group = NoGroup ELSE e.group \in specs

SectionsUsed(s) == \A g \in specs : \E n \in DOMAIN s : s[n].group = g /\ ~IsHidden(s[n].ui)

\* One level: what both the form and the elements of a block are asked.
EntryIsSound(s, e) == /\ WritesAgree(e) /\ RequiredIsWritable(e) /\ ShapesAgree(e)
                      /\ ParentDeclared(s, e) /\ BlocksAgree(e) /\ IsSound(e.ui)
LevelIsSound(s) == NamedOnce(s) /\ \A n \in DOMAIN s : EntryIsSound(s, s[n])

Clean(s) ==
    /\ s # <<>>
    /\ LevelIsSound(s)
    /\ \A n \in DOMAIN s : LevelIsSound(s[n].items)
    /\ specs # {} => SectionsUsed(s) /\ \A n \in DOMAIN s : Sectioned(s[n])
-------------------------------------------------------------------------------
(* The projections of a declaration.                                        *)

\* Groups: the positions of a section's fields; a section without any is omitted.
Members(s, g) == {n \in DOMAIN s : s[n].group = g}
Groups(s) == {Members(s, g) : g \in {h \in specs : Members(s, h) # {}}}

\* requiredOf, and what the engine strips from a body before it is validated.
RequiredNames(s) == {s[n].name : n \in {m \in DOMAIN s : IsRequired(s[m].ui)}}
StrippedNames(s) == {s[n].name : n \in {m \in DOMAIN s : IsReadonly(s[m].ui)}}

\* Fields, per entry: the maps that are copied and the maps that get labels.
Title      == [copies |-> {"field"}, labels |-> {"field"}]
WithItems  == [copies |-> {"field"}, labels |-> {"field"}]
EnumLabels == [copies |-> {"field"}, labels |-> {"field"}]
KeyLabels  == [copies |-> {"field", "options"}, labels |-> {"options"}]

\* Fault: the elements are put into the properties of the shallow copy.
WithKeyedItemsInPlace == [copies |-> {"field", "options"}, labels |-> {"options", "properties"}]

\* Copied to the depth at which the elements are put in.
WithKeyedItems == [copies |-> Parts, labels |-> {"options", "properties"}]

Labelling(e) ==
    {Title} \cup
    CASE e.items # <<>> /\ IsKeyedItems(e.ui)  -> {WithKeyedItems, KeyLabels}
      [] e.items # <<>> /\ ~IsKeyedItems(e.ui) -> {WithItems}
      [] e.items = <<>> /\ e.ui[1].enum # <<>> -> {EnumLabels}
      [] e.items = <<>> /\ e.ui[1].enum = <<>> /\ IsKeyed(e.ui) -> {KeyLabels}
      [] OTHER -> {}
Copied(e)   == UNION {step.copies : step \in Labelling(e)}
Labelled(e) == UNION {step.labels : step \in Labelling(e)}
-------------------------------------------------------------------------------
(* The author.                                                              *)

Owners == Requests \cup {Declared}
Plainly == [n \in 1..MaxEntries |-> [p \in Parts |-> Unlabelled]]

Init == /\ specs \in Registries
        /\ decl = <<>> /\ draft = <<>> /\ effort = 0 /\ public = FALSE
        /\ doc = [r \in Requests |-> <<>>]
        /\ words = [o \in Owners |-> Plainly]

Constructed == {String, Bool, Number, Integer, Timestamp, LocalTimestamp, JSON, Items,
                Enum(Choices), IconEnum(Choices)}
               \cup {Relation(m) : m \in BOOLEAN} \cup {Media(m) : m \in BOOLEAN}

\* A constructor starts a field.
Construct == /\ ~public /\ draft = <<>> /\ Len(decl) < MaxEntries
             /\ \E f \in Constructed : draft' = f
             /\ effort' = 0
             /\ UNCHANGED <<specs, decl, public, doc, words>>

\* One more call on the field, within the bound.
Extend(g) == /\ ~public /\ draft # <<>> /\ effort < MaxEffort
             /\ draft' = g
             /\ effort' = effort + 1
             /\ UNCHANGED <<specs, decl, public, doc, words>>

WrapList  == draft # <<>> /\ ListTakes(draft) /\ Extend(List(draft))
WrapKeyed == \E ks \in SUBSET Keys : draft # <<>> /\ KeyedTakes(draft) /\ Extend(Keyed(draft, ks))
Constrain == \E k \in {"minimum", "maxLength", "maxItems"} :
                draft # <<>> /\ Extend(Constrained(draft, k))
Dress     == draft # <<>> /\ \E f \in {Widget(draft, "custom"), Hidden(draft)} : Extend(f)
Mark      == draft # <<>> /\ \E f \in {Readonly(draft), Nullable(draft), Required(draft)} : Extend(f)
Attach    == \E name \in Names : draft # <<>> /\ Extend(ParentField(draft, name))
ReplaceOptions == draft # <<>> /\ Extend(OptionsReplaced(draft))

\* The field becomes an entry.
Declare == /\ ~public /\ draft # <<>>
           /\ \E name \in Names, g \in specs \cup {NoGroup, Typo}, c \in Cells,
                 b \in Blocks :
                decl' = Append(decl, [name |-> name, group |-> g, col |-> c,
                                      ui |-> draft, items |-> b])
           /\ draft' = <<>>
           /\ UNCHANGED <<specs, effort, public, doc, words>>

\* The entity's test passes and the program is built.
Publish == /\ ~public /\ draft = <<>> /\ Clean(decl)
           /\ public' = TRUE
           /\ UNCHANGED <<specs, decl, draft, effort, doc, words>>
-------------------------------------------------------------------------------
(* Requests.                                                                *)

\* The next entry of Fields: labels are written into the copies, and into the
\* maps of the declaration where there is none.
Compose(r) ==
    LET n == Len(doc[r]) + 1
        e == decl[n]
        owner == [p \in Parts |-> IF p \in Copied(e) THEN r ELSE Declared]
    IN  /\ public /\ n <= Len(decl)
        /\ doc' = [doc EXCEPT ![r] = Append(@, owner)]
        /\ words' = [o \in Owners |-> [words[o] EXCEPT ![n] =
                       [p \in Parts |->
                          IF owner[p] = o /\ p \in Labelled(e) THEN Locale(r)
                          ELSE IF o = r /\ owner[p] = r THEN words[Declared][n][p]
                          ELSE words[o][n][p]]]]
        /\ UNCHANGED authoring

\* Marshal and answer; the request's maps are garbage.
Answer(r) == /\ public /\ Len(doc[r]) = Len(decl)
             /\ doc' = [doc EXCEPT ![r] = <<>>]
             /\ words' = [words EXCEPT ![r] = Plainly]
             /\ UNCHANGED authoring

Next == \/ Construct \/ WrapList \/ WrapKeyed \/ Constrain \/ Dress \/ Mark \/ Attach
        \/ ReplaceOptions \/ Declare \/ Publish
        \/ \E r \in Requests : Compose(r) \/ Answer(r)

Spec == Init /\ [][Next]_vars
-------------------------------------------------------------------------------
(* Properties.                                                              *)

\* Type invariant: of every field that was written the halves agree (Fields).
EntrySet == [name : Names, group : (UNION Registries) \cup {NoGroup, Typo}, col : Cells,
             ui : Fields, items : Blocks]
TypeOK ==
    /\ specs \in Registries /\ public \in BOOLEAN /\ effort \in 0..MaxEffort
    /\ decl \in Seq(EntrySet) /\ Len(decl) <= MaxEntries
    /\ draft \in Fields \cup {<<>>}
    /\ doc \in [Requests -> Seq([Parts -> Owners])]
    /\ words \in [Owners -> [1..MaxEntries -> [Parts -> Locales \cup {Unlabelled}]]]

\* The entries of the form and of the elements of its blocks.
Entries == UNION {{decl[n]} \cup {decl[n].items[m] : m \in DOMAIN decl[n].items} : n \in DOMAIN decl}

\* What a cell skips of the kind it declares, for "structural validation does not
\* assert formats" (column.go:391): texts that are no time of its format, integers
\* beyond 2^53 (column.go:336), the empty id (rels.go:194).
Skipped(parser) == CASE parser \in Timed -> Texts \ {Format(parser), "blank"}
                     [] parser = "Timestamps" -> Texts \ {Format(parser)}
                     [] parser \in {"Int", "Ints"} -> {"huge"}
                     [] parser = "Rels" -> {"blank"}
                     [] OTHER -> {}
Parser(c) == IF c.parser \in {"ChildValues", "KeyedChildValues"} THEN c.elem ELSE c.parser

\* What Wire tells of a value: fields without a type are not checked, nor is
\* null, nor what the lists inside a keyed field hold; and it knows nothing of
\* what cells skip.
Told(e, v) == /\ \A n \in DOMAIN v : /\ v[n] # "null" /\ (n <= Len(e.ui) => e.ui[n].type # {})
                                     /\ v[n] \notin Skipped(Parser(e.col))
              /\ Len(v) <= 2 \/ e.items # <<>>

\* Nothing else is lost on the way: with a clean lint, whatever the schema of an
\* editable field admits its cell writes, in the form and inside its blocks, but
\* for what Told names: where the lint does not look (decl/lint.go, ui/wire.go),
\* and the texts and integers that a cell leaves unwritten though the schema has
\* let them through (Skipped).
SentIsParsed ==
    public => \A e \in Entries : ~IsReadonly(e.ui) =>
        \A v \in Values : Admits(e.ui, v) /\ Told(e, v) => Parses(e.col, v)

\* No form is refused for what it is: with a clean lint the schema admits all
\* that the control of an editable field sends, null for a cleared one among
\* it, and requires nothing the engine strips (ui/field.go, ui/lint.go).
FormIsAccepted ==
    public => /\ \A e \in Entries : ~IsReadonly(e.ui) =>
                    \A v \in Values : Sends(e.ui, v) => Admits(e.ui, v)
              /\ RequiredNames(decl) \cap StrippedNames(decl) = {}

\* With a clean lint every visible field is in one section, no hidden one in
\* any, and no section of the registry is missing (decl.go Groups).
SectionNames == {{decl[n].name : n \in G} : G \in Groups(decl)}
EveryFieldShown ==
    public /\ specs # {} =>
        /\ \A n \in DOMAIN decl :
             Cardinality({G \in SectionNames : decl[n].name \in G})
                = IF IsHidden(decl[n].ui) THEN 0 ELSE 1
        /\ Cardinality(SectionNames) = Cardinality(specs)

\* Requests put documents together from one declaration at the same time: what
\* each has put together so far has its own locale's labels wherever there are
\* labels, and no others anywhere (decl.go Fields, ui/items.go WithKeyedItems).
OwnWordsOnly ==
    \A r \in Requests : \A n \in DOMAIN doc[r] : \A p \in Parts :
        words[doc[r][n][p]][n][p] = IF p \in Labelled(decl[n]) THEN Locale(r) ELSE Unlabelled
===============================================================================
