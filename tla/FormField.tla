------------------------------- MODULE FormField -------------------------------
(***************************************************************************)
(* The vocabulary of form fields (package ui): constructors, wrappers and  *)
(* modifiers, the shape a field declares on the wire, the lint of one      *)
(* field, and what the two documents made of it let a client send.         *)
(*                                                                         *)
(* ui.Field is a map with the keys of both documents.  Here it is a        *)
(* sequence of layers: the first is the field itself, the next what its    *)
(* list or its keys hold, and so on; a layer has the keys of both halves.  *)
(* Labels, limits and the options of one renderer are left out, except for *)
(* the options some lint asks about.                                       *)
(***************************************************************************)
EXTENDS Integers, Sequences

CONSTANTS Names,         \* what fields may be called
          Keys,          \* the keys of keyed fields
          Choices,       \* the values of an enum, in order
          NullValue,     \* the null element of a nullable one
          NoName         \* no parentField

ASSUME ChoicesAssumption == Choices \in Seq({Choices[n] : n \in DOMAIN Choices})

Types == {"string", "number", "integer", "boolean", "array", "object", "null"}

\* The keywords and renderers of this vocabulary, and the options a lint reads.
Keywords  == {"minLength", "maxLength", "pattern", "format", "minimum", "maximum", "multipleOf",
              "properties", "additionalProperties", "items", "uniqueItems", "minItems", "maxItems"}
Widgets   == {"", "number", "localDatetime", "hidden", "readonlyDisplay", "custom"}
Renderers == {"", "json", "keyed", "relation", "media", "iconEnum"}
Options   == {"collection", "multi", "aspect", "previews"}

\* No enum, the choices, or null before the choices.
Enums == {<<>>, Choices, <<NullValue>> \o Choices}

\* What the keys of a layer hold.
Layers == [type : SUBSET Types, enum : Enums, keywords : SUBSET Keywords,
           widget : Widgets, drawn : Renderers,
           readonly : BOOLEAN, clears : BOOLEAN, required : BOOLEAN,
           items : BOOLEAN, keyedItems : BOOLEAN,
           keys : SUBSET Keys, properties : SUBSET Keys, options : SUBSET Options,
           parent : Names \cup {NoName}]

\* What the two halves of a layer owe one another: an input that is cleared is
\* nullable, a nullable enum has null and no other, a keyed field is an object.
Halves(l) ==
    /\ l.clears => l.type = {} \/ "null" \in l.type
    /\ l.enum \in IF "null" \in l.type THEN {<<>>, <<NullValue>> \o Choices} ELSE {<<>>, Choices}
    /\ l.type = {} => l.enum = <<>>
    /\ l.drawn = "keyed" => "object" \in l.type

GoodLayers == {l \in Layers : Halves(l)}
Fields == Seq(GoodLayers) \ {<<>>}

\* A layer with no key at all.
Blank == [type |-> {}, enum |-> <<>>, keywords |-> {}, widget |-> "", drawn |-> "",
          readonly |-> FALSE, clears |-> FALSE, required |-> FALSE,
          items |-> FALSE, keyedItems |-> FALSE,
          keys |-> {}, properties |-> {}, options |-> {}, parent |-> NoName]

\* clone, with: a copy of the field with another first layer.
With(f, l) == [f EXCEPT ![1] = l]
-------------------------------------------------------------------------------
(* Constructors.                                                            *)

Plain(type) == <<[Blank EXCEPT !.type = {type}]>>
String  == Plain("string")
Bool    == Plain("boolean")
Number  == <<[Blank EXCEPT !.type = {"number"}, !.widget = "number"]>>
Integer == <<[Blank EXCEPT !.type = {"integer"}, !.widget = "number"]>>
Timestamp == <<[Blank EXCEPT !.type = {"string"}, !.keywords = {"format"}]>>
LocalTimestamp == <<[Blank EXCEPT !.type = {"string"}, !.widget = "localDatetime"]>>
JSON    == <<[Blank EXCEPT !.drawn = "json"]>>
Enum(values) == <<[Blank EXCEPT !.type = {"string"}, !.enum = values]>>
IconEnum(values) == <<[Blank EXCEPT !.type = {"string"}, !.enum = values,
                                   !.drawn = "iconEnum", !.options = {"previews"}]>>

Relation(multi) ==
    IF multi THEN <<[Blank EXCEPT !.type = {"array"}, !.keywords = {"items", "uniqueItems"},
                                  !.drawn = "relation", !.options = {"collection", "multi"}],
                    [Blank EXCEPT !.type = {"string"}]>>
    ELSE <<[Blank EXCEPT !.type = {"string"}, !.drawn = "relation", !.options = {"collection"}]>>

Media(multi) == With(Relation(multi), [Relation(multi)[1] EXCEPT !.drawn = "media",
                                                                 !.options = @ \cup {"aspect"}])

\* The element of Items is filled in when the document is put together.
Items == <<[Blank EXCEPT !.type = {"array"}, !.items = TRUE]>>
-------------------------------------------------------------------------------
(* Predicates.                                                              *)

IsRequired(f) == f[1].required
IsNullable(f) == "null" \in f[1].type
IsReadonly(f) == f[1].readonly
IsHidden(f)   == f[1].widget = "hidden"
IsItems(f)    == f[1].items
IsKeyed(f)    == f[1].drawn = "keyed"
IsKeyedItems(f) == f[1].keyedItems
-------------------------------------------------------------------------------
(* Wrappers.  Split parts the halves of the wrapped field and drops its     *)
(* markers; a marker that cannot be expressed inside makes them panic.      *)

Unmarked(f) == With(f, [f[1] EXCEPT !.required = FALSE, !.items = FALSE, !.keyedItems = FALSE])

ListTakes(f) == ~IsRequired(f) /\ ~IsNullable(f)
List(f) == <<[Blank EXCEPT !.type = {"array"}, !.keywords = {"items"}]>> \o Unmarked(f)

KeyedTakes(f) == ~IsRequired(f)
Keyed(f, keys) ==
    <<[Blank EXCEPT !.type = {"object"}, !.keywords = {"properties", "additionalProperties"},
                    !.drawn = "keyed", !.keys = keys, !.properties = keys,
                    !.keyedItems = IsItems(f)]>> \o Unmarked(f)
-------------------------------------------------------------------------------
(* Modifiers: each returns a copy.                                          *)

Constrained(f, keyword) == With(f, [f[1] EXCEPT !.keywords = @ \cup {keyword}])
Widget(f, w) == With(f, [f[1] EXCEPT !.widget = w])
Hidden(f)    == Widget(f, "hidden")
Required(f)  == With(f, [f[1] EXCEPT !.required = TRUE])
ParentField(f, name) == With(f, [f[1] EXCEPT !.parent = name])

\* Fault: a nullable field is made nullable again.
NullableAgain(f) ==
    With(f, [f[1] EXCEPT !.type = IF @ = {} THEN {} ELSE @ \cup {"null"},
                         !.clears = @ \/ ~IsReadonly(f),
                         !.enum = IF @ = <<>> THEN <<>> ELSE <<NullValue>> \o @])

\* Fault: null in the type alone.
NullableType(f) ==
    IF IsNullable(f) THEN f
    ELSE With(f, [f[1] EXCEPT !.type = IF @ = {} THEN {} ELSE @ \cup {"null"},
                              !.clears = @ \/ ~IsReadonly(f)])

\* The type and the enum admit null, and an input that is cleared sends it.
Nullable(f) ==
    IF IsNullable(f) THEN f
    ELSE With(f, [f[1] EXCEPT !.type = IF @ = {} THEN {} ELSE @ \cup {"null"},
                              !.clears = @ \/ ~IsReadonly(f),
                              !.enum = IF @ = <<>> THEN <<>> ELSE <<NullValue>> \o @])

\* A field that is hidden or draws itself keeps its renderer.
Readonly(f) ==
    With(f, [f[1] EXCEPT !.readonly = TRUE, !.clears = FALSE,
                         !.widget = IF @ = "hidden" \/ f[1].drawn # "" THEN @
                                    ELSE "readonlyDisplay"])

\* UI with ui:options: the keys of the switcher, the collection, the previews
\* and the ui half of what the keys hold go with the options that are replaced.
SchemaHalf(l) == [l EXCEPT !.widget = "", !.drawn = "", !.readonly = FALSE, !.clears = FALSE,
                           !.keys = {}, !.options = {}, !.parent = NoName]
OptionsReplaced(f) ==
    [i \in DOMAIN f |-> IF i = 1 THEN [f[1] EXCEPT !.keys = {}, !.options = {}, !.parent = NoName]
                        ELSE IF IsKeyed(f) THEN SchemaHalf(f[i]) ELSE f[i]]
-------------------------------------------------------------------------------
(* The shape on the wire.                                                   *)

\* The scalar shapes; alone, inside a wrapper, they would leave lists and maps
\* to "any".
ScalarKind(type) ==
    CASE "string"  \in type -> "string"
      [] "integer" \in type -> "integer"
      [] "number"  \in type -> "number"
      [] "boolean" \in type -> "boolean"
      [] OTHER -> "any"

NestedKind(type) == CASE "array" \in type -> "list"
                      [] "object" \in type -> "map"
                      [] OTHER -> ScalarKind(type)

Shape(kind, elem) == [kind |-> kind, elem |-> elem]

\* What a list holds; what a key holds, when there is a key.
ElemKind(f) == IF Len(f) = 1 \/ (IsKeyed(f) /\ f[1].properties = {}) THEN "any"
               ELSE NestedKind(f[2].type)

WireKind(f) ==
    CASE IsItems(f) -> Shape("items", "")
      [] IsKeyed(f) /\ IsKeyedItems(f) -> Shape("map", "items")
      [] IsKeyed(f) /\ ~IsKeyedItems(f) -> Shape("map", ElemKind(f))
      [] ~IsItems(f) /\ ~IsKeyed(f) /\ "array" \in f[1].type -> Shape("list", ElemKind(f))
      [] OTHER -> Shape(ScalarKind(f[1].type), "")

Match(w, other) == \/ "any" \in {w.kind, other.kind}
                   \/ /\ w.kind = other.kind
                      /\ "any" \in {w.elem, other.elem} \/ w.elem = other.elem
-------------------------------------------------------------------------------
(* ui.Lint of one field: no finding in any of its layers.                   *)

KeywordsByType(t) ==
    CASE t = "string" -> {"minLength", "maxLength", "pattern", "format"}
      [] t \in {"number", "integer"} -> {"minimum", "maximum", "multipleOf"}
      [] t = "object" -> {"properties", "additionalProperties"}
      [] t = "array"  -> {"items", "uniqueItems", "minItems", "maxItems"}
      [] OTHER -> {}

KeywordsApply(l) == l.keywords \subseteq UNION {KeywordsByType(t) : t \in l.type}

\* lintKeyed: the switcher and the properties have the same keys, and some.
KeysAgree(l) == l.drawn = "keyed" => l.keys # {} /\ l.keys = l.properties

IsRelation(l) == l.drawn \in {"relation", "media"}

\* lintRelation: the cardinality is that of the type.
CardinalityAgrees(l) ==
    IsRelation(l) => /\ "collection" \in l.options
                     /\ (IF "multi" \in l.options THEN "array" ELSE "string") \in l.type

\* lintMedia, lintIconEnum.
PreviewsAgree(l) == /\ l.drawn = "media" => "aspect" \in l.options
                    /\ l.drawn = "iconEnum" => l.enum # <<>> /\ "previews" \in l.options

LayerIsSound(l) == KeywordsApply(l) /\ KeysAgree(l) /\ CardinalityAgrees(l) /\ PreviewsAgree(l)

\* lintNested: inside a keyed field of blocks it looks at the elements alone, not
\* at the list that holds them.
LintedLayers(f) == IF IsKeyedItems(f) THEN {1} ELSE DOMAIN f
IsSound(f) == \A n \in LintedLayers(f) : LayerIsSound(f[n])
-------------------------------------------------------------------------------
(* Values.  A value is known by its path: the kind of the value, of what a  *)
(* list or an object holds, and of what that holds.                         *)

\* Texts: the empty one, those that one of the formats reads (RFC 3339, a wall
\* clock, a date, a time of day), and others.  An integer is huge beyond 2^53.
Texts      == {"blank", "instant", "wallclock", "date", "clock", "word"}
Scalars    == Texts \cup {"null", "integer", "huge", "fraction", "boolean"}
Containers == {"list", "map"}
Deepest    == Scalars \cup Containers
Values == {<<v>> : v \in Deepest} \cup (Containers \X Deepest)
          \cup (Containers \X Containers \X Deepest)

\* The kinds a JSON Schema type admits; a format is no more than an annotation.
KindsOf(t) == CASE t = "string"  -> Texts
                [] t = "integer" -> {"integer", "huge"}
                [] t = "number"  -> {"integer", "huge", "fraction"}
                [] t = "array"   -> {"list"}
                [] t = "object"  -> {"map"}
                [] OTHER -> {t}

LayerAdmits(l, kind) ==
    /\ l.type # {} => \E t \in l.type : kind \in KindsOf(t)
    /\ l.enum # <<>> /\ kind = "null" => \E n \in DOMAIN l.enum : l.enum[n] = NullValue

\* The elements of Items are objects.
ElementsAreObjects(f, v) == /\ IsItems(f) /\ Len(v) > 1 => v[2] = "map"
                            /\ IsKeyedItems(f) /\ Len(v) > 2 => v[3] = "map"

\* validate.Structural by the schema half.
Admits(f, v) ==
    /\ \A n \in DOMAIN v : n <= Len(f) => LayerAdmits(f[n], v[n])
    /\ ElementsAreObjects(f, v)

\* What the client's control for a layer sends: the widget is chosen by the ui
\* half, the type decides where the ui half does not.
ControlSends(l) ==
    (CASE IsRelation(l) -> IF "multi" \in l.options THEN {"list"} ELSE {"word"}
       [] l.drawn = "keyed" -> {"map"}
       [] OTHER -> IF l.type = {} THEN Deepest ELSE UNION {KindsOf(t) : t \in l.type \ {"null"}})
    \cup IF l.clears THEN {"null"} ELSE {}

Sends(f, v) == /\ \A n \in DOMAIN v : n <= Len(f) => v[n] \in ControlSends(f[n])
               /\ ElementsAreObjects(f, v)
===============================================================================
