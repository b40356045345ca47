-------------------------- MODULE Declaration_proofs --------------------------
(***************************************************************************)
(* What the vocabulary guarantees for every field that can be written with *)
(* it, in any order of calls and to any depth of wrapping, and what the    *)
(* requests may rely on, for any number of entries and requests.           *)
(***************************************************************************)
EXTENDS Declaration, FiniteSetTheorems, TLAPS
-------------------------------------------------------------------------------
(* Every constructor, wrapper and modifier yields a field.                  *)

LEMMA WithIsField ==
    ASSUME NEW f \in Fields, NEW l \in GoodLayers
    PROVE  /\ With(f, l) \in Fields
           /\ With(f, l)[1] = l
           /\ DOMAIN With(f, l) = DOMAIN f
           /\ \A n \in DOMAIN f \ {1} : With(f, l)[n] = f[n]
BY DEF Fields, With

LEMMA FirstIsGood ==
    ASSUME NEW f \in Fields
    PROVE  f[1] \in GoodLayers /\ 1 \in DOMAIN f
BY DEF Fields

LEMMA BlankIsGood == Blank \in GoodLayers
BY DEF GoodLayers, Layers, Blank, Halves, Types, Enums, Keywords, Widgets, Renderers, Options

LEMMA PlainIsField ==
    ASSUME NEW l \in GoodLayers
    PROVE  <<l>> \in Fields
BY DEF Fields

LEMMA ConstructedAreFields == Constructed \subseteq Fields
<1>1. String \in Fields /\ Bool \in Fields
  <2>1. [Blank EXCEPT !.type = {"string"}] \in GoodLayers
    BY BlankIsGood DEF GoodLayers, Layers, Halves, Types, Blank, Enums, Keywords, Widgets, Renderers, Options
  <2>2. [Blank EXCEPT !.type = {"boolean"}] \in GoodLayers
    BY BlankIsGood DEF GoodLayers, Layers, Halves, Types, Blank, Enums, Keywords, Widgets, Renderers, Options
  <2> QED
    BY <2>1, <2>2, PlainIsField DEF String, Bool, Plain
<1>2. Number \in Fields /\ Integer \in Fields
  <2>1. ASSUME NEW t \in {"number", "integer"}
        PROVE  [Blank EXCEPT !.type = {t}, !.widget = "number"] \in GoodLayers
    BY DEF GoodLayers, Layers, Halves, Types, Blank, Enums, Keywords, Widgets, Renderers, Options
  <2> QED
    BY <2>1, PlainIsField DEF Number, Integer
<1>3. Timestamp \in Fields /\ LocalTimestamp \in Fields /\ JSON \in Fields
  <2>1. [Blank EXCEPT !.type = {"string"}, !.keywords = {"format"}] \in GoodLayers
    BY DEF GoodLayers, Layers, Halves, Types, Blank, Enums, Keywords, Widgets, Renderers, Options
  <2>2. [Blank EXCEPT !.type = {"string"}, !.widget = "localDatetime"] \in GoodLayers
    BY DEF GoodLayers, Layers, Halves, Types, Blank, Enums, Keywords, Widgets, Renderers, Options
  <2>3. [Blank EXCEPT !.drawn = "json"] \in GoodLayers
    BY DEF GoodLayers, Layers, Halves, Types, Blank, Enums, Keywords, Widgets, Renderers, Options
  <2> QED
    BY <2>1, <2>2, <2>3, PlainIsField DEF Timestamp, LocalTimestamp, JSON
<1>4. Items \in Fields
  <2>1. [Blank EXCEPT !.type = {"array"}, !.items = TRUE] \in GoodLayers
    BY DEF GoodLayers, Layers, Halves, Types, Blank, Enums, Keywords, Widgets, Renderers, Options
  <2> QED
    BY <2>1, PlainIsField DEF Items
<1>5. Enum(Choices) \in Fields /\ IconEnum(Choices) \in Fields
  <2>1. [Blank EXCEPT !.type = {"string"}, !.enum = Choices] \in GoodLayers
    BY DEF GoodLayers, Layers, Halves, Types, Blank, Enums, Keywords, Widgets, Renderers, Options
  <2>2. [Blank EXCEPT !.type = {"string"}, !.enum = Choices, !.drawn = "iconEnum",
                      !.options = {"previews"}] \in GoodLayers
    BY DEF GoodLayers, Layers, Halves, Types, Blank, Enums, Keywords, Widgets, Renderers, Options
  <2> QED
    BY <2>1, <2>2, PlainIsField DEF Enum, IconEnum
<1>6. ASSUME NEW m \in BOOLEAN
      PROVE  Relation(m) \in Fields /\ Media(m) \in Fields
  <2>1. [Blank EXCEPT !.type = {"string"}] \in GoodLayers
    BY DEF GoodLayers, Layers, Halves, Types, Blank, Enums, Keywords, Widgets, Renderers, Options
  <2>2. [Blank EXCEPT !.type = {"string"}, !.drawn = "relation",
                      !.options = {"collection"}] \in GoodLayers
    BY DEF GoodLayers, Layers, Halves, Types, Blank, Enums, Keywords, Widgets, Renderers, Options
  <2>3. [Blank EXCEPT !.type = {"array"}, !.keywords = {"items", "uniqueItems"},
                      !.drawn = "relation", !.options = {"collection", "multi"}] \in GoodLayers
    BY DEF GoodLayers, Layers, Halves, Types, Blank, Enums, Keywords, Widgets, Renderers, Options
  <2>4. Relation(m) \in Fields
    BY <2>1, <2>2, <2>3 DEF Fields, Relation
  <2>5. ASSUME NEW l \in GoodLayers
        PROVE  [l EXCEPT !.drawn = "media", !.options = @ \cup {"aspect"}] \in GoodLayers
    BY DEF GoodLayers, Layers, Halves, Renderers, Options
  <2> QED
    BY <2>4, <2>5, FirstIsGood, WithIsField DEF Media
<1> QED
  BY <1>1, <1>2, <1>3, <1>4, <1>5, <1>6 DEF Constructed

LEMMA UnmarkedIsField ==
    ASSUME NEW f \in Fields
    PROVE  Unmarked(f) \in Fields
<1>1. [f[1] EXCEPT !.required = FALSE, !.items = FALSE, !.keyedItems = FALSE] \in GoodLayers
  BY FirstIsGood DEF GoodLayers, Layers, Halves
<1> QED
  BY <1>1, WithIsField DEF Unmarked

LEMMA WrappedIsField ==
    ASSUME NEW l \in GoodLayers, NEW f \in Fields
    PROVE  <<l>> \o f \in Fields
BY DEF Fields

LEMMA WrappersYieldFields ==
    ASSUME NEW f \in Fields, NEW ks \in SUBSET Keys
    PROVE  List(f) \in Fields /\ Keyed(f, ks) \in Fields
<1>1. [Blank EXCEPT !.type = {"array"}, !.keywords = {"items"}] \in GoodLayers
  BY DEF GoodLayers, Layers, Halves, Types, Blank, Enums, Keywords, Widgets, Renderers, Options
<1>2. IsItems(f) \in BOOLEAN
  BY FirstIsGood DEF IsItems, GoodLayers, Layers
<1>3. [Blank EXCEPT !.type = {"object"}, !.keywords = {"properties", "additionalProperties"},
                    !.drawn = "keyed", !.keys = ks, !.properties = ks,
                    !.keyedItems = IsItems(f)] \in GoodLayers
  BY <1>2 DEF GoodLayers, Layers, Halves, Types, Blank, Enums, Keywords, Widgets, Renderers, Options
<1> QED
  BY <1>1, <1>3, UnmarkedIsField, WrappedIsField DEF List, Keyed

LEMMA ModifiersYieldFields ==
    ASSUME NEW f \in Fields, NEW k \in Keywords, NEW w \in Widgets,
           NEW name \in Names \cup {NoName}
    PROVE  /\ Constrained(f, k) \in Fields /\ Widget(f, w) \in Fields /\ Hidden(f) \in Fields
           /\ Required(f) \in Fields /\ ParentField(f, name) \in Fields
<1> DEFINE l == f[1]
<1>0. l \in GoodLayers
  BY FirstIsGood
<1>1. [l EXCEPT !.keywords = @ \cup {k}] \in GoodLayers
  BY <1>0 DEF GoodLayers, Layers, Halves
<1>2. [l EXCEPT !.widget = w] \in GoodLayers /\ [l EXCEPT !.widget = "hidden"] \in GoodLayers
  BY <1>0 DEF GoodLayers, Layers, Halves, Widgets
<1>3. [l EXCEPT !.required = TRUE] \in GoodLayers
  BY <1>0 DEF GoodLayers, Layers, Halves
<1>4. [l EXCEPT !.parent = name] \in GoodLayers
  BY <1>0 DEF GoodLayers, Layers, Halves
<1>5. Constrained(f, k) \in Fields /\ Required(f) \in Fields /\ ParentField(f, name) \in Fields
  BY <1>1, <1>3, <1>4, WithIsField DEF Constrained, Required, ParentField
<1>6. Widget(f, w) \in Fields /\ Hidden(f) \in Fields
  BY <1>2, WithIsField DEF Widget, Hidden
<1> QED
  BY <1>5, <1>6

LEMMA NullableIsField ==
    ASSUME NEW f \in Fields
    PROVE  Nullable(f) \in Fields
<1> DEFINE l == f[1]
<1>0. l \in GoodLayers
  BY FirstIsGood
<1>1. ASSUME ~IsNullable(f)
      PROVE  [l EXCEPT !.type = IF @ = {} THEN {} ELSE @ \cup {"null"},
                       !.clears = @ \/ ~IsReadonly(f),
                       !.enum = IF @ = <<>> THEN <<>> ELSE <<NullValue>> \o @] \in GoodLayers
  <2> DEFINE type == IF l.type = {} THEN {} ELSE l.type \cup {"null"}
             clears == l.clears \/ ~IsReadonly(f)
             enum == IF l.enum = <<>> THEN <<>> ELSE <<NullValue>> \o Choices
             m == [l EXCEPT !.type = type, !.clears = clears, !.enum = enum]
  <2>1. type \in SUBSET Types /\ "null" \notin l.type
    BY <1>0, <1>1 DEF GoodLayers, Layers, Types, IsNullable
  <2>2. clears \in BOOLEAN
    BY <1>0 DEF GoodLayers, Layers, IsReadonly
  <2>3. enum \in Enums /\ (l.enum # <<>> => l.enum = Choices)
    BY <1>0, <2>1 DEF GoodLayers, Halves, Enums
  <2>4. m \in Layers
    BY <1>0, <2>1, <2>2, <2>3 DEF GoodLayers, Layers
  <2>5. m.type = type /\ m.clears = clears /\ m.enum = enum /\ m.drawn = l.drawn
    BY <1>0 DEF GoodLayers, Layers
  <2>6. Halves(m)
    <3>1. m.clears => m.type = {} \/ "null" \in m.type
      BY <2>5
    <3>2. l.type = {} => l.enum = <<>>
      BY <1>0 DEF GoodLayers, Halves
    <3>3. l.drawn = "keyed" => "object" \in l.type
      BY <1>0 DEF GoodLayers, Halves
    <3>4. m.type = {} => m.enum = <<>>
      BY <2>5, <3>2
    <3>5. l.type # {} => "null" \in m.type /\ m.enum \in {<<>>, <<NullValue>> \o Choices}
      BY <2>5
    <3>6. l.type = {} => "null" \notin m.type /\ m.enum \in {<<>>, Choices}
      BY <2>5, <3>2
    <3>7. m.drawn = "keyed" => "object" \in m.type
      BY <2>5, <3>3
    <3> HIDE DEF m
    <3> QED
      BY <3>1, <3>4, <3>5, <3>6, <3>7 DEF Halves
  <2>7. m = [l EXCEPT !.type = IF @ = {} THEN {} ELSE @ \cup {"null"},
                      !.clears = @ \/ ~IsReadonly(f),
                      !.enum = IF @ = <<>> THEN <<>> ELSE <<NullValue>> \o @]
    BY <1>0, <2>3 DEF GoodLayers, Layers
  <2> HIDE DEF m
  <2> QED
    BY <2>4, <2>6, <2>7 DEF GoodLayers
<1> QED
  BY <1>1, WithIsField DEF Nullable

LEMMA ReadonlyIsField ==
    ASSUME NEW f \in Fields
    PROVE  Readonly(f) \in Fields
<1> DEFINE l == f[1]
<1>0. l \in GoodLayers
  BY FirstIsGood
<1>1. [l EXCEPT !.readonly = TRUE, !.clears = FALSE,
                !.widget = IF @ = "hidden" \/ l.drawn # "" THEN @ ELSE "readonlyDisplay"]
        \in GoodLayers
  <2> DEFINE widget == IF l.widget = "hidden" \/ l.drawn # "" THEN l.widget ELSE "readonlyDisplay"
             m == [l EXCEPT !.readonly = TRUE, !.clears = FALSE, !.widget = widget]
  <2>1. widget \in Widgets
    BY <1>0 DEF GoodLayers, Layers, Widgets
  <2> HIDE DEF widget
  <2>2. m \in Layers
    BY <1>0, <2>1 DEF GoodLayers, Layers
  <2>3. m.type = l.type /\ m.enum = l.enum /\ m.drawn = l.drawn /\ m.clears = FALSE
    BY <1>0 DEF GoodLayers, Layers
  <2>4. Halves(m)
    BY <1>0, <2>3 DEF Halves, GoodLayers
  <2> QED
    BY <2>2, <2>4 DEF GoodLayers, widget
<1> QED
  BY <1>1, WithIsField DEF Readonly

LEMMA OptionsReplacedIsField ==
    ASSUME NEW f \in Fields
    PROVE  OptionsReplaced(f) \in Fields
<1>1. ASSUME NEW l \in GoodLayers
      PROVE  /\ [l EXCEPT !.keys = {}, !.options = {}, !.parent = NoName] \in GoodLayers
             /\ SchemaHalf(l) \in GoodLayers
  <2>1. [l EXCEPT !.keys = {}, !.options = {}, !.parent = NoName] \in GoodLayers
    BY DEF GoodLayers, Layers, Halves
  <2>2. SchemaHalf(l) \in Layers
    BY DEF SchemaHalf, GoodLayers, Layers, Widgets, Renderers
  <2>3. /\ SchemaHalf(l).clears = FALSE /\ SchemaHalf(l).drawn = ""
        /\ SchemaHalf(l).type = l.type /\ SchemaHalf(l).enum = l.enum
    BY DEF SchemaHalf, GoodLayers, Layers
  <2> QED
    BY <2>1, <2>2, <2>3 DEF GoodLayers, Halves
<1>2. \A n \in DOMAIN f : f[n] \in GoodLayers
  BY DEF Fields
<1>3. \A n \in DOMAIN f : OptionsReplaced(f)[n] \in GoodLayers
  BY <1>1, <1>2 DEF OptionsReplaced
<1>4. PICK len \in Nat : DOMAIN f = 1..len /\ len # 0
  BY DEF Fields
<1>5. OptionsReplaced(f) \in [1..len -> GoodLayers]
  BY <1>3, <1>4 DEF OptionsReplaced
<1>6. OptionsReplaced(f) \in Seq(GoodLayers) /\ Len(OptionsReplaced(f)) = len
  BY <1>5, <1>4
<1> QED
  BY <1>4, <1>6 DEF Fields
-------------------------------------------------------------------------------
(* The order of the calls that touch both halves does not matter.           *)

LEMMA WithTwice ==
    ASSUME NEW f \in Fields, NEW l, NEW m
    PROVE  With(With(f, l), m) = With(f, m) /\ With(f, l)[1] = l
<1>1. PICK len \in Nat : f \in [1..len -> GoodLayers] /\ 1 \in 1..len
  BY DEF Fields
<1>2. With(f, l)[1] = l
  BY <1>1 DEF With
<1>3. With(With(f, l), m) = With(f, m)
  BY <1>1 DEF With
<1> QED
  BY <1>2, <1>3

\* Layers with any enum of a set.
LayersOver(E) ==
    [type : SUBSET Types, enum : E, keywords : SUBSET Keywords,
     widget : Widgets, drawn : Renderers,
     readonly : BOOLEAN, clears : BOOLEAN, required : BOOLEAN,
     items : BOOLEAN, keyedItems : BOOLEAN,
     keys : SUBSET Keys, properties : SUBSET Keys, options : SUBSET Options,
     parent : Names \cup {NoName}]

\* All but what Nullable and Readonly change.
SameOtherwise(l, m) ==
    /\ l.keywords = m.keywords /\ l.drawn = m.drawn /\ l.required = m.required
    /\ l.items = m.items /\ l.keyedItems = m.keyedItems /\ l.keys = m.keys
    /\ l.properties = m.properties /\ l.options = m.options /\ l.parent = m.parent

LEMMA LayersAreEqual ==
    ASSUME NEW E, NEW l \in LayersOver(E), NEW m \in LayersOver(E), SameOtherwise(l, m),
           l.type = m.type, l.enum = m.enum, l.widget = m.widget,
           l.readonly = m.readonly, l.clears = m.clears
    PROVE  l = m
BY DEF LayersOver, SameOtherwise

\* What the two modifiers make of the first layer.
ReadonlyLayer(l) ==
    [l EXCEPT !.readonly = TRUE, !.clears = FALSE,
              !.widget = IF @ = "hidden" \/ l.drawn # "" THEN @ ELSE "readonlyDisplay"]
NullableLayer(l) ==
    [l EXCEPT !.type = IF @ = {} THEN {} ELSE @ \cup {"null"},
              !.clears = @ \/ ~l.readonly,
              !.enum = IF @ = <<>> THEN <<>> ELSE <<NullValue>> \o @]

\* What each leaves of a layer, and what it changes.
ReadonlyOf(m, l) ==
    /\ SameOtherwise(m, l) /\ m.type = l.type /\ m.enum = l.enum
    /\ m.widget = IF l.widget = "hidden" \/ l.drawn # "" THEN l.widget ELSE "readonlyDisplay"
    /\ m.readonly = TRUE /\ m.clears = FALSE
NullableOf(m, l) ==
    /\ SameOtherwise(m, l) /\ m.widget = l.widget /\ m.readonly = l.readonly
    /\ m.type = IF l.type = {} THEN {} ELSE l.type \cup {"null"}
    /\ m.enum = IF l.enum = <<>> THEN <<>> ELSE <<NullValue>> \o l.enum
    /\ m.clears = (l.clears \/ ~l.readonly)

LEMMA ReadonlyLayerFacts ==
    ASSUME NEW E, NEW l \in LayersOver(E)
    PROVE  ReadonlyLayer(l) \in LayersOver(E) /\ ReadonlyOf(ReadonlyLayer(l), l)
BY DEF LayersOver, ReadonlyLayer, SameOtherwise, ReadonlyOf, Widgets

LEMMA NullableLayerFacts ==
    ASSUME NEW E, NEW l \in LayersOver(E), <<>> \in E, <<NullValue>> \o l.enum \in E
    PROVE  NullableLayer(l) \in LayersOver(E) /\ NullableOf(NullableLayer(l), l)
<1> DEFINE e == <<NullValue>> \o l.enum
           type == IF l.type = {} THEN {} ELSE l.type \cup {"null"}
           enum == IF l.enum = <<>> THEN <<>> ELSE e
           clears == l.clears \/ ~l.readonly
           m == [l EXCEPT !.type = type, !.clears = clears, !.enum = enum]
<1>1. type \in SUBSET Types /\ clears \in BOOLEAN /\ enum \in E
  BY DEF LayersOver, Types
<1>2. NullableLayer(l) = m
  BY DEF NullableLayer
<1> HIDE DEF type, clears, enum
<1>3. /\ m \in LayersOver(E) /\ SameOtherwise(m, l)
      /\ m.type = type /\ m.enum = enum /\ m.clears = clears
      /\ m.widget = l.widget /\ m.readonly = l.readonly
  BY <1>1 DEF LayersOver, SameOtherwise
<1> QED
  BY <1>2, <1>3 DEF type, clears, enum, NullableOf

LEMMA ModifiersOfTheFirst ==
    ASSUME NEW f \in Fields
    PROVE  /\ Readonly(f) = With(f, ReadonlyLayer(f[1])) /\ Readonly(f)[1] = ReadonlyLayer(f[1])
           /\ ~IsNullable(f) => /\ Nullable(f) = With(f, NullableLayer(f[1]))
                                /\ Nullable(f)[1] = NullableLayer(f[1])
           /\ IsNullable(f) => Nullable(f) = f
<1>1. Readonly(f) = With(f, ReadonlyLayer(f[1]))
  BY DEF Readonly, ReadonlyLayer
<1>2. ~IsNullable(f) => Nullable(f) = With(f, NullableLayer(f[1]))
  BY DEF Nullable, NullableLayer, IsReadonly
<1>3. IsNullable(f) => Nullable(f) = f
  BY DEF Nullable
<1> QED
  BY <1>1, <1>2, <1>3, WithTwice

LEMMA FirstIsLayer ==
    ASSUME NEW f \in Fields, NEW E, Enums \subseteq E
    PROVE  f[1] \in LayersOver(E)
BY FirstIsGood DEF GoodLayers, Layers, LayersOver

\* On one layer the order of the two does not matter.
LEMMA LayersCommute ==
    ASSUME NEW l \in LayersOver(Enums)
    PROVE  ReadonlyLayer(NullableLayer(l)) = NullableLayer(ReadonlyLayer(l))
<1> DEFINE E == Enums \cup {<<NullValue>> \o l.enum}
<1>0. l \in LayersOver(E) /\ <<>> \in E /\ <<NullValue>> \o l.enum \in E
  BY DEF LayersOver, Enums
<1> HIDE DEF E
<1>1. PICK ro : ro = ReadonlyLayer(l)
  OBVIOUS
<1>2. PICK nu : nu = NullableLayer(l)
  OBVIOUS
<1>3. PICK rn : rn = ReadonlyLayer(nu)
  OBVIOUS
<1>4. PICK nr : nr = NullableLayer(ro)
  OBVIOUS
<1>5. ro \in LayersOver(E) /\ ReadonlyOf(ro, l)
  BY <1>0, <1>1, ReadonlyLayerFacts
<1>6. nu \in LayersOver(E) /\ NullableOf(nu, l)
  BY <1>0, <1>2, NullableLayerFacts
<1>7. rn \in LayersOver(E) /\ ReadonlyOf(rn, nu)
  BY <1>6, <1>3, ReadonlyLayerFacts
<1>8. <<NullValue>> \o ro.enum \in E
  BY <1>0, <1>5 DEF ReadonlyOf
<1>9. nr \in LayersOver(E) /\ NullableOf(nr, ro)
  BY <1>0, <1>5, <1>4, <1>8, NullableLayerFacts
<1>10. SameOtherwise(rn, nr)
  <2>1. /\ SameOtherwise(rn, nu) /\ SameOtherwise(nu, l)
        /\ SameOtherwise(nr, ro) /\ SameOtherwise(ro, l)
    BY <1>5, <1>6, <1>7, <1>9 DEF ReadonlyOf, NullableOf
  <2> QED
    BY <2>1 DEF SameOtherwise
<1>11. rn.type = nr.type
  BY <1>5, <1>6, <1>7, <1>9 DEF ReadonlyOf, NullableOf
<1>12. rn.enum = nr.enum
  BY <1>5, <1>6, <1>7, <1>9 DEF ReadonlyOf, NullableOf
<1>13. rn.widget = nr.widget
  BY <1>5, <1>6, <1>7, <1>9 DEF SameOtherwise, ReadonlyOf, NullableOf
<1>14. rn.readonly = nr.readonly /\ rn.clears = nr.clears
  BY <1>5, <1>6, <1>7, <1>9 DEF ReadonlyOf, NullableOf
<1>15. rn = nr
  BY <1>7, <1>9, <1>10, <1>11, <1>12, <1>13, <1>14, LayersAreEqual
<1> QED
  BY <1>1, <1>2, <1>3, <1>4, <1>15

\* Read-only and nullable, in either order, are the same field: it has no
\* input, so nothing about clearing one is left in it (ui/field.go Nullable,
\* Readonly).
THEOREM ReadonlyNullableCommute ==
    ASSUME NEW f \in Fields
    PROVE  Readonly(Nullable(f)) = Nullable(Readonly(f))
<1>1. f[1] \in LayersOver(Enums)
  BY FirstIsLayer
<1>2. Readonly(f) = With(f, ReadonlyLayer(f[1])) /\ Readonly(f)[1] = ReadonlyLayer(f[1])
  BY ModifiersOfTheFirst
<1>3. IsNullable(Readonly(f)) <=> IsNullable(f)
  <2>1. ReadonlyOf(Readonly(f)[1], f[1])
    BY <1>1, <1>2, ReadonlyLayerFacts
  <2>2. Readonly(f)[1].type = f[1].type
    BY <2>1 DEF ReadonlyOf
  <2> QED
    BY <2>2 DEF IsNullable
<1>4. Readonly(f) \in Fields
  BY ReadonlyIsField
<1>5. CASE IsNullable(f)
  BY <1>3, <1>4, <1>5, ModifiersOfTheFirst
<1>6. CASE ~IsNullable(f)
  <2>1. Nullable(f) = With(f, NullableLayer(f[1])) /\ Nullable(f)[1] = NullableLayer(f[1])
    BY <1>6, ModifiersOfTheFirst
  <2>2. Nullable(Readonly(f)) = With(Readonly(f), NullableLayer(Readonly(f)[1]))
    BY <1>3, <1>4, <1>6, ModifiersOfTheFirst
  <2>3. Readonly(Nullable(f)) = With(Nullable(f), ReadonlyLayer(Nullable(f)[1]))
    BY ModifiersOfTheFirst, NullableIsField
  <2>4. Nullable(Readonly(f)) = With(f, NullableLayer(ReadonlyLayer(f[1])))
    BY <1>2, <2>2, WithTwice
  <2>5. Readonly(Nullable(f)) = With(f, ReadonlyLayer(NullableLayer(f[1])))
    BY <2>1, <2>3, WithTwice
  <2> QED
    BY <1>1, <2>4, <2>5, LayersCommute
<1> QED
  BY <1>5, <1>6
\* So are hidden and read-only, in either order (ui/field.go Readonly, Hidden).
THEOREM HiddenReadonlyCommute ==
    ASSUME NEW f \in Fields
    PROVE  Readonly(Hidden(f)) = Hidden(Readonly(f))
<1> DEFINE l == f[1]
           h == [l EXCEPT !.widget = "hidden"]
<1>1. l \in LayersOver(Enums)
  BY FirstIsLayer
<1>2. Hidden(f) = With(f, h) /\ Hidden(f)[1] = h
  BY WithTwice DEF Hidden, Widget
<1>3. Readonly(f) = With(f, ReadonlyLayer(l)) /\ Readonly(f)[1] = ReadonlyLayer(l)
  BY ModifiersOfTheFirst
<1>4. Readonly(Hidden(f)) = With(f, ReadonlyLayer(h))
  <2>1. Hidden(f) \in Fields
    <3>1. "multipleOf" \in Keywords /\ "hidden" \in Widgets
      BY DEF Keywords, Widgets
    <3> QED
      BY <3>1, ModifiersYieldFields
  <2>2. Readonly(Hidden(f)) = With(Hidden(f), ReadonlyLayer(h))
    BY <1>2, <2>1, ModifiersOfTheFirst
  <2> HIDE DEF h, l
  <2> QED
    BY <1>2, <2>2, WithTwice
<1>5. Hidden(Readonly(f)) = With(f, [ReadonlyLayer(l) EXCEPT !.widget = "hidden"])
  BY <1>3, WithTwice DEF Hidden, Widget
<1>6. ReadonlyLayer(h) = [ReadonlyLayer(l) EXCEPT !.widget = "hidden"]
  <2>1. h \in LayersOver(Enums) /\ h.widget = "hidden"
    BY <1>1 DEF LayersOver, Widgets
  <2>2. ReadonlyLayer(h) = [h EXCEPT !.readonly = TRUE, !.clears = FALSE]
    <3>1. h.widget = IF h.widget = "hidden" \/ h.drawn # "" THEN h.widget ELSE "readonlyDisplay"
      BY <2>1
    <3> HIDE DEF h
    <3> QED
      BY <2>1, <3>1 DEF ReadonlyLayer, LayersOver
  <2>3. \A w \in Widgets : [[l EXCEPT !.readonly = TRUE, !.clears = FALSE, !.widget = w]
                              EXCEPT !.widget = "hidden"]
                           = [h EXCEPT !.readonly = TRUE, !.clears = FALSE]
    BY <1>1 DEF LayersOver
  <2>4. (IF l.widget = "hidden" \/ l.drawn # "" THEN l.widget ELSE "readonlyDisplay") \in Widgets
    BY <1>1 DEF LayersOver, Widgets
  <2> QED
    BY <2>2, <2>3, <2>4 DEF ReadonlyLayer
<1> QED
  BY <1>4, <1>5, <1>6

\* Nullable twice is nullable once, in the type and in the enum (ui/field.go
\* Nullable).
THEOREM NullableTwice ==
    ASSUME NEW f \in Fields
    PROVE  Nullable(Nullable(f)) = Nullable(f)
<1> DEFINE l == f[1]
           n == NullableLayer(l)
<1>1. l \in LayersOver(Enums) /\ (l.type = {} => l.enum = <<>>)
  BY FirstIsLayer, FirstIsGood DEF GoodLayers, Halves
<1>2. CASE IsNullable(f)
  BY <1>2, ModifiersOfTheFirst
<1>3. CASE ~IsNullable(f) /\ l.type # {}
  <2>1. Nullable(f)[1] = n
    BY <1>3, ModifiersOfTheFirst
  <2>2. n.type = l.type \cup {"null"}
    BY <1>1, <1>3 DEF NullableLayer, LayersOver
  <2>3. IsNullable(Nullable(f))
    BY <2>1, <2>2 DEF IsNullable
  <2> QED
    BY <2>3 DEF Nullable
<1>4. CASE ~IsNullable(f) /\ l.type = {}
  <2>1. n = [l EXCEPT !.clears = l.clears \/ ~l.readonly]
    BY <1>1, <1>4 DEF NullableLayer, LayersOver
  <2>2. NullableLayer(n) = n
    BY <1>1, <1>4, <2>1 DEF NullableLayer, LayersOver
  <2>3. Nullable(f) = With(f, n) /\ Nullable(f)[1] = n
    BY <1>4, ModifiersOfTheFirst
  <2>4. ~IsNullable(Nullable(f)) /\ Nullable(f) \in Fields
    BY <1>1, <1>4, <2>1, <2>3, NullableIsField DEF IsNullable, LayersOver
  <2>5. Nullable(Nullable(f)) = With(With(f, n), NullableLayer(n))
    BY <2>3, <2>4, ModifiersOfTheFirst
  <2> QED
    BY <2>2, <2>3, <2>5, WithTwice
<1> QED
  BY <1>2, <1>3, <1>4
-------------------------------------------------------------------------------
(* The declaration and its documents.                                       *)

\* A draft leaves room for its entry.
Room == draft # <<>> => Len(decl) < MaxEntries

Typed == TypeOK /\ Room

LEMMA CallsYieldFields ==
    ASSUME Typed, draft # <<>>,
           \/ WrapList \/ WrapKeyed \/ Constrain \/ Dress \/ Mark \/ Attach \/ ReplaceOptions
    PROVE  Typed'
<1>1. draft \in Fields
  BY DEF Typed, TypeOK
<1>0. /\ "custom" \in Widgets
      /\ {"minimum", "maxLength", "maxItems"} \subseteq Keywords
      /\ NoName \in Names \cup {NoName}
  BY DEF Widgets, Keywords
<1>2. \E g \in Fields : Extend(g)
  <2>1. CASE WrapList
    BY <1>1, <2>1, WrappersYieldFields DEF WrapList
  <2>2. CASE WrapKeyed
    BY <1>1, <2>2, WrappersYieldFields DEF WrapKeyed
  <2>3. CASE Constrain
    BY <1>0, <1>1, <2>3, ModifiersYieldFields DEF Constrain
  <2>4. CASE Dress
    <3>1. Widget(draft, "custom") \in Fields /\ Hidden(draft) \in Fields
      BY <1>0, <1>1, ModifiersYieldFields
    <3> QED
      BY <2>4, <3>1 DEF Dress
  <2>5. CASE Mark
    <3>1. Required(draft) \in Fields
      BY <1>0, <1>1, ModifiersYieldFields
    <3>2. Readonly(draft) \in Fields /\ Nullable(draft) \in Fields
      BY <1>1, NullableIsField, ReadonlyIsField
    <3> QED
      BY <2>5, <3>1, <3>2 DEF Mark
  <2>6. CASE Attach
    BY <1>0, <1>1, <2>6, ModifiersYieldFields DEF Attach
  <2>7. CASE ReplaceOptions
    BY <1>1, <2>7, OptionsReplacedIsField DEF ReplaceOptions
  <2> QED
    BY <2>1, <2>2, <2>3, <2>4, <2>5, <2>6, <2>7
<1>3. PICK g \in Fields : Extend(g)
  BY <1>2
<1>4. effort' \in 0..MaxEffort
  BY <1>3, DeclarationAssumption DEF Typed, TypeOK, Extend
<1> QED
  BY <1>3, <1>4 DEF Typed, TypeOK, Room, Extend

LEMMA DeclareKeepsTyped ==
    ASSUME Typed, Declare
    PROVE  Typed'
<1>1. PICK name \in Names, g \in specs \cup {NoGroup, Typo}, c \in Cells, b \in Blocks :
         decl' = Append(decl, [name |-> name, group |-> g, col |-> c, ui |-> draft, items |-> b])
  BY DEF Declare
<1>2. [name |-> name, group |-> g, col |-> c, ui |-> draft, items |-> b] \in EntrySet
  <2>1. draft \in Fields
    BY DEF Declare, Typed, TypeOK
  <2>2. g \in (UNION Registries) \cup {NoGroup, Typo}
    BY DEF Typed, TypeOK
  <2> QED
    BY <2>1, <2>2 DEF EntrySet
<1>3. decl' \in Seq(EntrySet) /\ Len(decl') <= MaxEntries
  BY <1>1, <1>2, DeclarationAssumption DEF Declare, Typed, TypeOK, Room
<1> QED
  BY <1>3 DEF Declare, Typed, TypeOK, Room

LEMMA ComposeKeepsTyped ==
    ASSUME Typed, NEW r \in Requests, Compose(r)
    PROVE  Typed'
<1> DEFINE n == Len(doc[r]) + 1
           owner == [p \in Parts |-> IF p \in Copied(decl[n]) THEN r ELSE Declared]
<1>1. owner \in [Parts -> Owners]
  BY DEF Owners
<1>2. doc' = [doc EXCEPT ![r] = Append(@, owner)]
  BY DEF Compose
<1>3. doc' \in [Requests -> Seq([Parts -> Owners])]
  BY <1>1, <1>2 DEF Typed, TypeOK
<1>4. ASSUME NEW o \in Owners
      PROVE  words'[o] \in [1..MaxEntries -> [Parts -> Locales \cup {Unlabelled}]]
  <2>1. words'[o] = [words[o] EXCEPT ![n] =
                       [p \in Parts |->
                          IF owner[p] = o /\ p \in Labelled(decl[n]) THEN Locale(r)
                          ELSE IF o = r /\ owner[p] = r THEN words[Declared][n][p]
                          ELSE words[o][n][p]]]
    BY DEF Compose
  <2>2. /\ words[o] \in [1..MaxEntries -> [Parts -> Locales \cup {Unlabelled}]]
        /\ words[Declared] \in [1..MaxEntries -> [Parts -> Locales \cup {Unlabelled}]]
    BY DEF Typed, TypeOK, Owners
  <2>3. n \in 1..MaxEntries /\ Locale(r) \in Locales
    BY DeclarationAssumption DEF Typed, TypeOK, Compose
  <2> HIDE DEF n, owner
  <2>4. [p \in Parts |-> IF owner[p] = o /\ p \in Labelled(decl[n]) THEN Locale(r)
                         ELSE IF o = r /\ owner[p] = r THEN words[Declared][n][p]
                         ELSE words[o][n][p]] \in [Parts -> Locales \cup {Unlabelled}]
    BY <2>2, <2>3
  <2> QED
    BY <2>1, <2>2, <2>4
<1>5. words' = [o \in Owners |-> words'[o]]
  BY DEF Compose
<1>6. words' \in [Owners -> [1..MaxEntries -> [Parts -> Locales \cup {Unlabelled}]]]
  BY <1>4, <1>5
<1> QED
  BY <1>3, <1>6 DEF Compose, authoring, Typed, TypeOK, Room

\* Every field is well formed whatever calls made it, every document and every
\* label has its place (decl.go, ui/field.go).
LEMMA TypedAlways == Spec => []Typed
<1>1. Init => Typed
  <2> SUFFICES ASSUME Init PROVE Typed
    OBVIOUS
  <2>1. words \in [Owners -> [1..MaxEntries -> [Parts -> Locales \cup {Unlabelled}]]]
    BY DEF Init, Plainly
  <2>2. doc \in [Requests -> Seq([Parts -> Owners])]
    BY DEF Init
  <2>3. decl \in Seq(EntrySet) /\ Len(decl) = 0 /\ draft = <<>> /\ effort = 0
    BY DEF Init
  <2>4. specs \in Registries /\ public \in BOOLEAN
    BY DEF Init
  <2>5. /\ effort \in 0..MaxEffort /\ Len(decl) <= MaxEntries
        /\ draft \in Fields \cup {<<>>} /\ Room
    BY <2>3, DeclarationAssumption DEF Room
  <2> QED
    BY <2>1, <2>2, <2>3, <2>4, <2>5 DEF Typed, TypeOK
<1>2. Typed /\ [Next]_vars => Typed'
  <2> SUFFICES ASSUME Typed, [Next]_vars PROVE Typed'
    OBVIOUS
  <2>1. CASE Construct
    <3>1. draft' \in Fields
      BY <2>1, ConstructedAreFields DEF Construct
    <3> QED
      BY <2>1, <3>1, DeclarationAssumption DEF Construct, Typed, TypeOK, Room
  <2>2. CASE WrapList \/ WrapKeyed \/ Constrain \/ Dress \/ Mark \/ Attach \/ ReplaceOptions
    <3>1. draft # <<>>
      BY <2>2 DEF WrapList, WrapKeyed, Constrain, Dress, Mark, Attach, ReplaceOptions, Extend
    <3> QED
      BY <2>2, <3>1, CallsYieldFields
  <2>3. CASE Declare
    BY <2>3, DeclareKeepsTyped
  <2>4. CASE Publish
    BY <2>4 DEF Publish, Typed, TypeOK, Room
  <2>5. ASSUME NEW r \in Requests, Compose(r) PROVE Typed'
    BY <2>5, ComposeKeepsTyped
  <2>6. ASSUME NEW r \in Requests, Answer(r) PROVE Typed'
    <3>1. doc' \in [Requests -> Seq([Parts -> Owners])]
      BY <2>6 DEF Answer, Typed, TypeOK
    <3>2. words' \in [Owners -> [1..MaxEntries -> [Parts -> Locales \cup {Unlabelled}]]]
      BY <2>6 DEF Answer, Typed, TypeOK, Plainly
    <3> QED
      BY <2>6, <3>1, <3>2 DEF Answer, authoring, Typed, TypeOK, Room
  <2>7. CASE UNCHANGED vars
    BY <2>7 DEF vars, Typed, TypeOK, Room
  <2> QED
    BY <2>1, <2>2, <2>3, <2>4, <2>5, <2>6, <2>7 DEF Next
<1> QED
  BY <1>1, <1>2, PTL DEF Spec

THEOREM TypeCorrect == Spec => []TypeOK
BY TypedAlways, PTL DEF Typed
-------------------------------------------------------------------------------
(* Documents.  Why a request only ever reads its own words: whatever map a  *)
(* label goes to is one the request copied, so nothing labels the maps of   *)
(* the declaration, and the copies belong to one request.                   *)

\* The owners of the maps of an entry in a request's document.
OwnersFor(r, e) == [p \in Parts |-> IF p \in Copied(e) THEN r ELSE Declared]

Apart ==
    /\ ~public => \A r \in Requests : doc[r] = <<>>
    /\ \A r \in Requests : Len(doc[r]) <= Len(decl)
    /\ \A n \in 1..MaxEntries : \A p \in Parts : words[Declared][n][p] = Unlabelled
    /\ \A r \in Requests : \A n \in DOMAIN doc[r] :
         /\ doc[r][n] = OwnersFor(r, decl[n])
         /\ \A p \in Copied(decl[n]) :
              words[r][n][p] = IF p \in Labelled(decl[n]) THEN Locale(r) ELSE Unlabelled

LEMMA LabelsGoIntoCopies ==
    ASSUME NEW e
    PROVE  Labelled(e) \subseteq Copied(e) /\ Copied(e) \subseteq Parts
BY DEF Labelled, Copied, Labelling, Title, WithItems, EnumLabels, KeyLabels, WithKeyedItems, Parts

LEMMA ApartIsEnough == Typed /\ Apart => OwnWordsOnly
<1> SUFFICES ASSUME Typed, Apart, NEW r \in Requests, NEW n \in DOMAIN doc[r], NEW p \in Parts
             PROVE  words[doc[r][n][p]][n][p]
                      = IF p \in Labelled(decl[n]) THEN Locale(r) ELSE Unlabelled
  BY DEF OwnWordsOnly
<1>0. doc[r] \in Seq([Parts -> Owners]) /\ Len(doc[r]) <= MaxEntries
  BY DeclarationAssumption DEF Typed, TypeOK, Apart
<1>1. n \in 1..MaxEntries
  BY <1>0, DeclarationAssumption
<1>2. doc[r][n][p] = IF p \in Copied(decl[n]) THEN r ELSE Declared
  <2>1. doc[r][n] = OwnersFor(r, decl[n])
    BY DEF Apart
  <2> QED
    BY <2>1 DEF OwnersFor
<1>3. CASE p \in Copied(decl[n])
  <2>1. words[r][n][p] = IF p \in Labelled(decl[n]) THEN Locale(r) ELSE Unlabelled
    BY <1>3 DEF Apart
  <2> QED
    BY <1>2, <1>3, <2>1
<1>4. CASE p \notin Copied(decl[n])
  <2>1. words[Declared][n][p] = Unlabelled
    BY <1>1 DEF Apart
  <2>2. p \notin Labelled(decl[n])
    BY <1>4, LabelsGoIntoCopies
  <2> QED
    BY <1>2, <1>4, <2>1, <2>2
<1> QED
  BY <1>3, <1>4

LEMMA ComposeKeepsApart ==
    ASSUME Typed, Apart, NEW r \in Requests, Compose(r)
    PROVE  Apart'
<1> DEFINE n == Len(doc[r]) + 1
           e == decl[n]
<1>1. /\ public /\ public' = public /\ decl' = decl
      /\ n \in 1..MaxEntries /\ n <= Len(decl) /\ Len(doc[r]) \in Nat
  <2>1. public /\ public' = public /\ decl' = decl /\ n <= Len(decl)
    BY DEF Compose, authoring
  <2>2. Len(doc[r]) \in Nat
    BY DEF Typed, TypeOK
  <2>3. Len(decl) \in Nat /\ Len(decl) <= MaxEntries
    BY DEF Typed, TypeOK
  <2> QED
    BY <2>1, <2>2, <2>3, DeclarationAssumption
<1>2. doc' = [doc EXCEPT ![r] = Append(@, OwnersFor(r, e))]
  BY DEF Compose, OwnersFor
<1>3. ASSUME NEW o \in Owners, NEW m \in 1..MaxEntries, NEW p \in Parts
      PROVE  words'[o][m][p] =
               IF m # n THEN words[o][m][p]
               ELSE IF OwnersFor(r, e)[p] = o /\ p \in Labelled(e) THEN Locale(r)
               ELSE IF o = r /\ OwnersFor(r, e)[p] = r THEN words[Declared][n][p]
               ELSE words[o][n][p]
  <2>1. words[o] \in [1..MaxEntries -> [Parts -> Locales \cup {Unlabelled}]]
    BY DEF Typed, TypeOK
  <2>2. words'[o] = [words[o] EXCEPT ![n] =
                       [q \in Parts |->
                          IF OwnersFor(r, e)[q] = o /\ q \in Labelled(e) THEN Locale(r)
                          ELSE IF o = r /\ OwnersFor(r, e)[q] = r THEN words[Declared][n][q]
                          ELSE words[o][n][q]]]
    BY DEF Compose, OwnersFor
  <2> HIDE DEF n, e
  <2> QED
    BY <1>1, <2>1, <2>2
<1>4. \A p \in Parts : OwnersFor(r, e)[p] = IF p \in Copied(e) THEN r ELSE Declared
  BY DEF OwnersFor
<1>5. Declared \in Owners /\ Requests \subseteq Owners /\ Declared \notin Requests
  BY DeclarationAssumption DEF Owners
<1>6. Labelled(e) \subseteq Copied(e) /\ Copied(e) \subseteq Parts
  BY LabelsGoIntoCopies
<1> HIDE DEF e
<1>7. ASSUME NEW m \in 1..MaxEntries, NEW p \in Parts
      PROVE  words'[Declared][m][p] = Unlabelled
  BY <1>1, <1>3, <1>4, <1>5, <1>6, <1>7 DEF Apart
<1>8. ASSUME NEW s \in Requests
      PROVE  /\ Len(doc'[s]) <= Len(decl)
             /\ \A m \in DOMAIN doc'[s] :
                  /\ m \in 1..MaxEntries
                  /\ doc'[s][m] = IF s = r /\ m = n THEN OwnersFor(r, e) ELSE doc[s][m]
                  /\ ~(s = r /\ m = n) => m \in DOMAIN doc[s]
  <2>1. doc[s] \in Seq([Parts -> Owners]) /\ Len(doc[s]) <= Len(decl) /\ Len(decl) <= MaxEntries
    BY DEF Typed, TypeOK, Apart
  <2>2. CASE s # r
    BY <1>2, <2>1, <2>2, <1>1, DeclarationAssumption DEF Typed, TypeOK
  <2>3. CASE s = r
    <3>1. doc'[s] = Append(doc[s], OwnersFor(r, e))
      BY <1>2, <2>3 DEF Typed, TypeOK
    <3>2. Len(doc'[s]) = n /\ DOMAIN doc'[s] = 1..n
      BY <2>1, <2>3, <3>1
    <3>3. \A m \in 1..n : doc'[s][m] = IF m = n THEN OwnersFor(r, e) ELSE doc[s][m]
      BY <2>1, <2>3, <3>1
    <3>4. \A m \in 1..n : m # n => m \in DOMAIN doc[s]
      BY <1>1, <2>1, <2>3
    <3>5. \A m \in 1..n : m \in 1..MaxEntries
      BY <1>1, DeclarationAssumption
    <3> HIDE DEF n
    <3> QED
      BY <1>1, <2>3, <3>2, <3>3, <3>4, <3>5
  <2> QED
    BY <2>2, <2>3
<1>9. ASSUME NEW s \in Requests, NEW m \in DOMAIN doc'[s]
      PROVE  /\ doc'[s][m] = OwnersFor(s, decl[m])
             /\ \A p \in Copied(decl[m]) :
                  words'[s][m][p] = IF p \in Labelled(decl[m]) THEN Locale(s) ELSE Unlabelled
  <2> HIDE DEF n
  <2>1. m \in 1..MaxEntries /\ s \in Owners
    BY <1>5, <1>8
  <2>2. CASE s = r /\ m = n
    <3>1. doc'[s][m] = OwnersFor(s, decl[m])
      BY <1>8, <2>2 DEF e
    <3>2. ASSUME NEW p \in Copied(e)
          PROVE  words'[r][n][p] = IF p \in Labelled(e) THEN Locale(r) ELSE Unlabelled
      BY <1>1, <1>3, <1>4, <1>5, <1>6, <3>2 DEF Apart
    <3> QED
      BY <2>2, <3>1, <3>2 DEF e
  <2>3. CASE ~(s = r /\ m = n)
    <3>1. m \in DOMAIN doc[s] /\ doc'[s][m] = doc[s][m]
      BY <1>8, <2>3
    <3>2. ASSUME NEW p \in Parts
          PROVE  words'[s][m][p] = words[s][m][p]
      BY <1>1, <1>3, <1>4, <1>5, <2>1, <2>3, <3>2
    <3>3. Copied(decl[m]) \subseteq Parts
      BY LabelsGoIntoCopies
    <3> QED
      BY <3>1, <3>2, <3>3 DEF Apart
  <2> QED
    BY <2>2, <2>3
<1> QED
  BY <1>1, <1>7, <1>8, <1>9 DEF Apart

LEMMA AnswerKeepsApart ==
    ASSUME Typed, Apart, NEW r \in Requests, Answer(r)
    PROVE  Apart'
<1>1. public' = public /\ decl' = decl /\ public
  BY DEF Answer, authoring
<1>2. \A s \in Requests : doc'[s] = IF s = r THEN <<>> ELSE doc[s]
  BY DEF Answer, Typed, TypeOK
<1>3. \A o \in Owners : o # r => words'[o] = words[o]
  BY DEF Answer, Typed, TypeOK
<1>4. Declared \in Owners /\ Requests \subseteq Owners /\ Declared \notin Requests
  BY DeclarationAssumption DEF Owners
<1>5. Len(decl) \in Nat
  BY DEF Typed, TypeOK
<1>6. \A n \in 1..MaxEntries : \A p \in Parts : words'[Declared][n][p] = Unlabelled
  BY <1>3, <1>4 DEF Apart
<1>7. \A s \in Requests : Len(doc'[s]) <= Len(decl)
  BY <1>2, <1>5 DEF Apart
<1>8. ASSUME NEW s \in Requests, NEW n \in DOMAIN doc'[s]
      PROVE  /\ doc'[s][n] = OwnersFor(s, decl[n])
             /\ \A p \in Copied(decl[n]) :
                  words'[s][n][p] = IF p \in Labelled(decl[n]) THEN Locale(s) ELSE Unlabelled
  <2>1. s # r /\ doc'[s] = doc[s]
    BY <1>2
  <2> QED
    BY <1>3, <1>4, <2>1 DEF Apart
<1> QED
  BY <1>1, <1>6, <1>7, <1>8 DEF Apart

\* A request reads labels of its own locale wherever there are labels, however
\* many requests put documents together at once (decl.go Fields).
THEOREM OwnWords == Spec => []OwnWordsOnly
<1>1. Init => Apart
  <2> SUFFICES ASSUME Init PROVE Apart
    OBVIOUS
  <2>1. \A r \in Requests : doc[r] = <<>> /\ DOMAIN doc[r] = {}
    BY DEF Init
  <2>2. \A n \in 1..MaxEntries : \A p \in Parts : words[Declared][n][p] = Unlabelled
    BY DEF Init, Owners, Plainly
  <2>3. \A r \in Requests : Len(doc[r]) <= Len(decl)
    BY <2>1 DEF Init
  <2> QED
    BY <2>1, <2>2, <2>3 DEF Apart
<1>2. Typed /\ Apart /\ [Next]_vars => Apart'
  <2> SUFFICES ASSUME Typed, Apart, [Next]_vars PROVE Apart'
    OBVIOUS
  <2>1. CASE Construct \/ WrapList \/ WrapKeyed \/ Constrain \/ Dress \/ Mark \/ Attach
             \/ ReplaceOptions \/ Publish \/ UNCHANGED vars
    <3>1. decl' = decl /\ doc' = doc /\ words' = words /\ (~public' => ~public)
      BY <2>1 DEF Construct, WrapList, WrapKeyed, Constrain, Dress, Mark, Attach,
                  ReplaceOptions, Extend, Publish, vars
    <3> QED
      BY <3>1 DEF Apart
  <2>2. CASE Declare
    <3>1. doc' = doc /\ words' = words /\ ~public /\ Len(decl') >= Len(decl)
      BY <2>2 DEF Declare, Typed, TypeOK
    <3>2. \A r \in Requests : doc[r] = <<>> /\ DOMAIN doc[r] = {}
      BY <3>1 DEF Apart
    <3>3. Len(decl) \in Nat /\ Len(decl') \in Nat
      BY <2>2 DEF Declare, Typed, TypeOK
    <3> QED
      BY <3>1, <3>2, <3>3 DEF Apart
  <2>3. ASSUME NEW r \in Requests, Compose(r) PROVE Apart'
    BY <2>3, ComposeKeepsApart
  <2>4. ASSUME NEW r \in Requests, Answer(r) PROVE Apart'
    BY <2>4, AnswerKeepsApart
  <2> QED
    BY <2>1, <2>2, <2>3, <2>4 DEF Next
<1> QED
  BY <1>1, <1>2, TypedAlways, ApartIsEnough, PTL DEF Spec
-------------------------------------------------------------------------------
(* Shapes.  A field has the shape the vocabulary gives it: what the lint does *)
(* not look at, for it cannot be written, the proofs below take from here.  *)

LEMMA OneLayerIsShaped ==
    ASSUME NEW l, OneType(l.type), l.items => "array" \in l.type /\ l.drawn \notin {"relation", "media"},
           "array" \in l.type => l.items, "object" \notin l.type, l.drawn # "keyed",
           ~l.keyedItems
    PROVE  Shaped(<<l>>)
BY DEF Shaped, IsItems, IsKeyed, IsKeyedItems, IsRelation

LEMMA SingleTypes == OneType({}) /\ \A t \in Types \ {"null"} : OneType({t})
BY DEF OneType, Types

LEMMA ConstructedAreShaped == \A f \in Constructed : Shaped(f)
<1>1. ASSUME NEW t \in {"string", "boolean", "number", "integer"}, NEW l,
             l.type = {t}, l.items = FALSE, l.keyedItems = FALSE, l.drawn # "keyed"
      PROVE  Shaped(<<l>>)
  <2>1. OneType(l.type)
    BY <1>1, SingleTypes DEF Types
  <2> QED
    BY <1>1, <2>1, OneLayerIsShaped
<1>2. Shaped(String) /\ Shaped(Bool) /\ Shaped(Number) /\ Shaped(Integer)
  <2>1. Shaped(String) /\ Shaped(Bool)
    BY <1>1 DEF String, Bool, Plain, Blank
  <2>2. Shaped(Number)
    BY <1>1 DEF Number, Blank
  <2>3. Shaped(Integer)
    BY <1>1 DEF Integer, Blank
  <2> QED
    BY <2>1, <2>2, <2>3
<1>3. Shaped(Timestamp) /\ Shaped(LocalTimestamp)
  <2>1. Shaped(Timestamp)
    BY <1>1 DEF Timestamp, Blank
  <2>2. Shaped(LocalTimestamp)
    BY <1>1 DEF LocalTimestamp, Blank
  <2> QED
    BY <2>1, <2>2
<1>4. Shaped(Enum(Choices)) /\ Shaped(IconEnum(Choices))
  <2>1. Shaped(Enum(Choices))
    BY <1>1 DEF Enum, Blank
  <2>2. Shaped(IconEnum(Choices))
    BY <1>1 DEF IconEnum, Blank
  <2> QED
    BY <2>1, <2>2
<1>5. Shaped(JSON) /\ Shaped(Items)
  <2>1. Shaped(JSON)
    <3>1. LET l == [Blank EXCEPT !.drawn = "json"]
          IN  /\ l.type = {} /\ l.items = FALSE /\ l.drawn = "json" /\ l.keyedItems = FALSE
      BY DEF Blank
    <3> QED
      BY <3>1, SingleTypes, OneLayerIsShaped DEF JSON
  <2>2. Shaped(Items)
    <3>1. LET l == [Blank EXCEPT !.type = {"array"}, !.items = TRUE]
          IN  /\ l.type = {"array"} /\ l.items = TRUE /\ l.drawn = "" /\ l.keyedItems = FALSE
      BY DEF Blank
    <3>2. OneType({"array"})
      BY SingleTypes DEF Types
    <3> QED
      BY <3>1, <3>2, OneLayerIsShaped DEF Items
  <2> QED
    BY <2>1, <2>2
<1>6. ASSUME NEW m \in BOOLEAN PROVE Shaped(Relation(m)) /\ Shaped(Media(m))
  <2>0. ASSUME NEW l, NEW k, l.type = {"array"}, k.type = {"string"}, l.items = FALSE,
               l.keyedItems = FALSE, l.drawn # "keyed"
        PROVE  Shaped(<<l, k>>)
    <3>1. OneType(l.type) /\ OneType(k.type)
      BY <2>0, SingleTypes DEF Types
    <3> QED
      BY <2>0, <3>1 DEF Shaped, IsItems, IsKeyed, IsKeyedItems
  <2>1. CASE m
    <3> DEFINE l == [Blank EXCEPT !.type = {"array"}, !.keywords = {"items", "uniqueItems"},
                                  !.drawn = "relation", !.options = {"collection", "multi"}]
               k == [Blank EXCEPT !.type = {"string"}]
               n == [l EXCEPT !.drawn = "media", !.options = @ \cup {"aspect"}]
    <3>1. /\ l.type = {"array"} /\ l.items = FALSE /\ l.keyedItems = FALSE /\ l.drawn = "relation"
          /\ n.type = {"array"} /\ n.items = FALSE /\ n.keyedItems = FALSE /\ n.drawn = "media"
          /\ k.type = {"string"}
      BY DEF Blank
    <3>2. Relation(m) = <<l, k>>
      BY <2>1 DEF Relation
    <3>3. Media(m) = <<n, k>>
      <4> HIDE DEF l, k
      <4>1. Media(m) = With(<<l, k>>, n)
        BY <3>2 DEF Media
      <4> HIDE DEF n
      <4> QED
        BY <4>1 DEF With
    <3> HIDE DEF l, k, n
    <3>4. Shaped(<<l, k>>)
      BY <2>0, <3>1
    <3>5. Shaped(<<n, k>>)
      BY <2>0, <3>1
    <3> QED
      BY <3>2, <3>3, <3>4, <3>5
  <2>2. CASE ~m
    <3> DEFINE l == [Blank EXCEPT !.type = {"string"}, !.drawn = "relation",
                                  !.options = {"collection"}]
               n == [l EXCEPT !.drawn = "media", !.options = @ \cup {"aspect"}]
    <3>1. /\ l.type = {"string"} /\ l.items = FALSE /\ l.keyedItems = FALSE /\ l.drawn = "relation"
          /\ n.type = {"string"} /\ n.items = FALSE /\ n.keyedItems = FALSE /\ n.drawn = "media"
      BY DEF Blank
    <3>2. Relation(m) = <<l>>
      BY <2>2 DEF Relation
    <3>3. Media(m) = <<n>>
      <4> HIDE DEF l
      <4>1. Media(m) = With(<<l>>, n)
        BY <3>2 DEF Media
      <4> HIDE DEF n
      <4> QED
        BY <4>1 DEF With
    <3> HIDE DEF l, n
    <3> QED
      BY <1>1, <3>1, <3>2, <3>3
  <2> QED
    BY <2>1, <2>2
<1> QED
  BY <1>2, <1>3, <1>4, <1>5, <1>6 DEF Constructed

\* The keys of the first layer that its shape is about.
SameShape(l, m) == /\ l.type = m.type /\ l.items = m.items
                   /\ l.keyedItems = m.keyedItems /\ l.drawn = m.drawn

LEMMA SameShapeIsShaped ==
    ASSUME NEW f \in Fields, Shaped(f), NEW l \in GoodLayers, SameShape(l, f[1])
    PROVE  Shaped(With(f, l))
<1>1. With(f, l)[1] = l /\ DOMAIN With(f, l) = DOMAIN f
  BY WithIsField
<1>2. \A n \in DOMAIN f : With(f, l)[n].type = f[n].type
  BY <1>1, WithIsField DEF SameShape
<1>3. Len(With(f, l)) = Len(f) /\ Len(f) \in Nat /\ DOMAIN f = 1..Len(f)
  BY <1>1 DEF Fields, With
<1>4. IsKeyedItems(f) => With(f, l)[2] = f[2]
  BY <1>3, FirstIsGood DEF Shaped, With
<1> QED
  BY <1>1, <1>2, <1>3, <1>4, FirstIsGood
     DEF Shaped, SameShape, IsItems, IsKeyed, IsKeyedItems, IsRelation

LEMMA WrappersYieldShaped ==
    ASSUME NEW f \in Fields, Shaped(f), NEW ks \in SUBSET Keys
    PROVE  Shaped(List(f)) /\ Shaped(Keyed(f, ks))
<1>1. /\ Unmarked(f) \in Fields
      /\ Unmarked(f)[1].type = f[1].type /\ Unmarked(f)[1].drawn = f[1].drawn
  <2>1. Unmarked(f)[1] = [f[1] EXCEPT !.required = FALSE, !.items = FALSE, !.keyedItems = FALSE]
    BY FirstIsGood DEF Unmarked, With
  <2> QED
    BY <2>1, UnmarkedIsField, FirstIsGood DEF GoodLayers, Layers
<1>2. \A n \in DOMAIN f : Unmarked(f)[n].type = f[n].type
  BY <1>1, WithIsField DEF Unmarked, With, Fields
<1>3. Len(Unmarked(f)) = Len(f) /\ Len(f) \in Nat \ {0} /\ DOMAIN f = 1..Len(f)
  BY <1>1 DEF Unmarked, With, Fields
<1>4. OneType({"array"}) /\ OneType({"object"})
  BY DEF OneType
<1>5. ASSUME NEW l, OneType(l.type)
      PROVE  /\ \A n \in DOMAIN (<<l>> \o Unmarked(f)) : OneType((<<l>> \o Unmarked(f))[n].type)
             /\ Len(<<l>> \o Unmarked(f)) = Len(f) + 1 /\ Len(<<l>> \o Unmarked(f)) > 1
             /\ (<<l>> \o Unmarked(f))[1] = l /\ (<<l>> \o Unmarked(f))[2].type = f[1].type
             /\ (<<l>> \o Unmarked(f))[2].drawn = f[1].drawn
  <2>1. \A n \in 2..(Len(f) + 1) : (<<l>> \o Unmarked(f))[n] = Unmarked(f)[n - 1]
    BY <1>1, <1>3 DEF Fields
  <2>2. DOMAIN (<<l>> \o Unmarked(f)) = 1..(Len(f) + 1) /\ (<<l>> \o Unmarked(f))[1] = l
    BY <1>1, <1>3 DEF Fields
  <2>3. \A n \in 2..(Len(f) + 1) : n - 1 \in DOMAIN f
    BY <1>3
  <2>4. Len(<<l>> \o Unmarked(f)) = Len(f) + 1
    BY <1>1, <1>3 DEF Fields
  <2>5. 2 \in 2..(Len(f) + 1)
    BY <1>3
  <2>6. \A n \in 2..(Len(f) + 1) : OneType((<<l>> \o Unmarked(f))[n].type)
    BY <2>1, <2>3, <1>2 DEF Shaped
  <2>7. \A n \in 1..(Len(f) + 1) : n = 1 \/ n \in 2..(Len(f) + 1)
    BY <1>3
  <2>8. /\ (<<l>> \o Unmarked(f))[2].type = f[1].type
        /\ (<<l>> \o Unmarked(f))[2].drawn = f[1].drawn
    <3>1. (<<l>> \o Unmarked(f))[2] = Unmarked(f)[2 - 1]
      BY <2>1, <2>5
    <3>2. 2 - 1 = 1
      OBVIOUS
    <3> QED
      BY <3>1, <3>2, <1>1
  <2> QED
    BY <2>2, <2>4, <2>6, <2>7, <2>8, <1>3, <1>5
<1>6. Shaped(List(f))
  <2> DEFINE l == [Blank EXCEPT !.type = {"array"}, !.keywords = {"items"}]
  <2>1. l.type = {"array"} /\ l.items = FALSE /\ l.keyedItems = FALSE /\ l.drawn = ""
    BY DEF Blank
  <2> HIDE DEF l
  <2> DEFINE g == <<l>> \o Unmarked(f)
  <2>2. (\A n \in DOMAIN g : OneType(g[n].type)) /\ Len(g) > 1 /\ g[1] = l
    BY <2>1, <1>4, <1>5
  <2> HIDE DEF g
  <2>3. Shaped(g)
    <3>1. ~IsItems(g) /\ ~IsKeyed(g) /\ ~IsKeyedItems(g)
      BY <2>1, <2>2 DEF IsItems, IsKeyed, IsKeyedItems
    <3>2. "object" \notin g[1].type
      <4>1. g[1].type = {"array"}
        BY <2>1, <2>2
      <4> QED
        BY <4>1
    <3> QED
      BY <2>2, <3>1, <3>2 DEF Shaped
  <2> QED
    BY <2>3 DEF List, l, g
<1>7. Shaped(Keyed(f, ks))
  <2> DEFINE l == [Blank EXCEPT !.type = {"object"}, !.keywords = {"properties", "additionalProperties"},
                    !.drawn = "keyed", !.keys = ks, !.properties = ks,
                    !.keyedItems = IsItems(f)]
  <2>1. l.type = {"object"} /\ l.items = FALSE /\ l.keyedItems = IsItems(f) /\ l.drawn = "keyed"
    BY DEF Blank
  <2> HIDE DEF l
  <2>3. IsItems(f) => Len(f) = 1 /\ "array" \in f[1].type /\ ~IsRelation(f[1])
    BY DEF Shaped
  <2> DEFINE g == <<l>> \o Unmarked(f)
  <2>4. /\ \A n \in DOMAIN g : OneType(g[n].type)
        /\ Len(g) = Len(f) + 1 /\ Len(g) > 1 /\ g[1] = l
        /\ g[2].type = f[1].type /\ g[2].drawn = f[1].drawn
    BY <2>1, <1>4, <1>5
  <2> HIDE DEF g
  <2>2. Shaped(g)
    <3>1. ~IsItems(g) /\ IsKeyed(g) /\ (IsKeyedItems(g) <=> IsItems(f))
      BY <2>1, <2>4 DEF IsItems, IsKeyed, IsKeyedItems
    <3>2. IsKeyedItems(g) => Len(g) = 2 /\ "array" \in g[2].type /\ ~IsRelation(g[2])
      BY <2>3, <2>4, <3>1, <1>3 DEF IsRelation
    <3> QED
      BY <2>1, <2>4, <3>1, <3>2 DEF Shaped
  <2> QED
    BY <2>2 DEF Keyed, l, g
<1> QED
  BY <1>6, <1>7

LEMMA ModifiersYieldShaped ==
    ASSUME NEW f \in Fields, Shaped(f), NEW k \in Keywords, NEW w \in Widgets,
           NEW name \in Names \cup {NoName}
    PROVE  /\ Shaped(Constrained(f, k)) /\ Shaped(Widget(f, w)) /\ Shaped(Hidden(f))
           /\ Shaped(Required(f)) /\ Shaped(ParentField(f, name)) /\ Shaped(Readonly(f))
<1> DEFINE l == f[1]
<1>0. l \in GoodLayers
  BY FirstIsGood
<1>1. [l EXCEPT !.keywords = @ \cup {k}] \in GoodLayers
  BY <1>0 DEF GoodLayers, Layers, Halves
<1>2. \A x \in Widgets : [l EXCEPT !.widget = x] \in GoodLayers
  BY <1>0 DEF GoodLayers, Layers, Halves, Widgets
<1>3. [l EXCEPT !.required = TRUE] \in GoodLayers
  BY <1>0 DEF GoodLayers, Layers, Halves
<1>4. [l EXCEPT !.parent = name] \in GoodLayers
  BY <1>0 DEF GoodLayers, Layers, Halves
<1>5. /\ SameShape([l EXCEPT !.keywords = @ \cup {k}], l)
      /\ \A x \in Widgets : SameShape([l EXCEPT !.widget = x], l)
      /\ SameShape([l EXCEPT !.required = TRUE], l) /\ SameShape([l EXCEPT !.parent = name], l)
  BY <1>0 DEF GoodLayers, Layers, SameShape
<1>6. Shaped(Constrained(f, k)) /\ Shaped(Required(f)) /\ Shaped(ParentField(f, name))
  BY <1>1, <1>3, <1>4, <1>5, SameShapeIsShaped DEF Constrained, Required, ParentField
<1>7. Shaped(Widget(f, w)) /\ Shaped(Hidden(f))
  <2>1. "hidden" \in Widgets
    BY DEF Widgets
  <2> QED
    BY <1>2, <1>5, <2>1, SameShapeIsShaped DEF Widget, Hidden
<1>8. Shaped(Readonly(f))
  <2> DEFINE m == [l EXCEPT !.readonly = TRUE, !.clears = FALSE,
                    !.widget = IF @ = "hidden" \/ l.drawn # "" THEN @ ELSE "readonlyDisplay"]
  <2>1. m \in GoodLayers
    <3>1. Readonly(f) \in Fields /\ Readonly(f) = With(f, m)
      BY ReadonlyIsField DEF Readonly
    <3>2. With(f, m)[1] = m
      BY FirstIsGood DEF With, Fields
    <3> QED
      BY <3>1, <3>2, FirstIsGood
  <2>2. SameShape(m, l)
    BY <1>0 DEF GoodLayers, Layers, SameShape
  <2> QED
    BY <2>1, <2>2, SameShapeIsShaped DEF Readonly
<1> QED
  BY <1>6, <1>7, <1>8

LEMMA NullableYieldsShaped ==
    ASSUME NEW f \in Fields, Shaped(f)
    PROVE  Shaped(Nullable(f))
<1>1. CASE IsNullable(f)
  BY <1>1 DEF Nullable
<1>2. CASE ~IsNullable(f)
  <2> DEFINE l == f[1]
             m == [l EXCEPT !.type = IF @ = {} THEN {} ELSE @ \cup {"null"},
                            !.clears = @ \/ ~IsReadonly(f),
                            !.enum = IF @ = <<>> THEN <<>> ELSE <<NullValue>> \o @]
  <2>0. l \in GoodLayers
    BY FirstIsGood
  <2>1. Nullable(f) = With(f, m)
    BY <1>2 DEF Nullable
  <2>2. /\ m.type = IF l.type = {} THEN {} ELSE l.type \cup {"null"}
        /\ m.items = l.items /\ m.keyedItems = l.keyedItems /\ m.drawn = l.drawn
    BY <2>0 DEF GoodLayers, Layers
  <2> HIDE DEF m
  <2>3. OneType(m.type)
    <3>1. OneType(l.type)
      BY FirstIsGood DEF Shaped
    <3> QED
      BY <2>2, <3>1 DEF OneType
  <2>4. /\ With(f, m)[1] = m /\ DOMAIN With(f, m) = DOMAIN f
        /\ \A n \in DOMAIN f \ {1} : With(f, m)[n] = f[n]
    BY FirstIsGood DEF With
  <2>5. Len(With(f, m)) = Len(f) /\ Len(f) \in Nat /\ DOMAIN f = 1..Len(f)
    BY <2>4 DEF Fields, With
  <2>6. \A n \in DOMAIN f : OneType(With(f, m)[n].type)
    BY <2>3, <2>4 DEF Shaped
  <2>7. IsKeyedItems(f) => With(f, m)[2] = f[2]
    BY <2>4, <2>5 DEF Shaped
  <2>8. ("array" \in m.type <=> "array" \in l.type) /\ ("object" \in m.type <=> "object" \in l.type)
    BY <2>2
  <2> QED
    BY <2>1, <2>2, <2>4, <2>5, <2>6, <2>7, <2>8
       DEF Shaped, IsItems, IsKeyed, IsKeyedItems, IsRelation
<1> QED
  BY <1>1, <1>2

LEMMA OptionsReplacedIsShaped ==
    ASSUME NEW f \in Fields, Shaped(f)
    PROVE  Shaped(OptionsReplaced(f))
<1> DEFINE g == OptionsReplaced(f)
<1>1. DOMAIN g = DOMAIN f /\ Len(g) = Len(f) /\ Len(f) \in Nat /\ DOMAIN f = 1..Len(f)
  <2>1. g \in Fields
    BY OptionsReplacedIsField
  <2>2. DOMAIN g = DOMAIN f
    BY DEF OptionsReplaced
  <2> QED
    BY <2>1, <2>2 DEF Fields
<1>2. \A n \in DOMAIN f : g[n].type = f[n].type
  <2>1. \A n \in DOMAIN f : f[n] \in GoodLayers
    BY DEF Fields
  <2>2. \A l \in GoodLayers : /\ SchemaHalf(l).type = l.type
                              /\ [l EXCEPT !.keys = {}, !.options = {}, !.parent = NoName].type = l.type
    BY DEF SchemaHalf, GoodLayers, Layers
  <2> QED
    BY <2>1, <2>2, FirstIsGood DEF OptionsReplaced
<1>3. SameShape(g[1], f[1])
  <2>1. g[1] = [f[1] EXCEPT !.keys = {}, !.options = {}, !.parent = NoName]
    BY FirstIsGood DEF OptionsReplaced
  <2> QED
    BY <2>1, FirstIsGood DEF SameShape, GoodLayers, Layers
<1>4. IsKeyedItems(f) => g[2].type = f[2].type /\ ~IsRelation(g[2])
  <2> SUFFICES ASSUME IsKeyedItems(f) PROVE g[2].type = f[2].type /\ ~IsRelation(g[2])
    OBVIOUS
  <2>1. 2 \in DOMAIN f /\ IsKeyed(f)
    BY <1>1 DEF Shaped
  <2>2. g[2] = SchemaHalf(f[2]) /\ f[2] \in GoodLayers
    BY <2>1 DEF OptionsReplaced, Fields
  <2>3. SchemaHalf(f[2]).drawn = ""
    BY <2>2 DEF SchemaHalf, GoodLayers, Layers
  <2> QED
    BY <1>2, <2>1, <2>2, <2>3 DEF IsRelation
<1> HIDE DEF g
<1>5. Shaped(g)
  BY <1>1, <1>2, <1>3, <1>4 DEF Shaped, SameShape, IsItems, IsKeyed, IsKeyedItems, IsRelation
<1> QED
  BY <1>5 DEF g

ShapedDraft == draft # <<>> => Shaped(draft)
ShapedDecl == \A n \in DOMAIN decl : Shaped(decl[n].ui)

LEMMA CallsYieldShaped ==
    ASSUME Typed, ShapedDraft, draft # <<>>,
           WrapList \/ WrapKeyed \/ Constrain \/ Dress \/ Mark \/ Attach \/ ReplaceOptions
    PROVE  ShapedDraft'
<1>0. /\ "custom" \in Widgets
      /\ {"minimum", "maxLength", "maxItems"} \subseteq Keywords
      /\ \A name \in Names : name \in Names \cup {NoName}
  BY DEF Widgets, Keywords
<1>1. draft \in Fields /\ Shaped(draft)
  BY DEF Typed, TypeOK, ShapedDraft
<1>2. CASE WrapList
  BY <1>1, <1>2, WrappersYieldShaped DEF WrapList, Extend, ShapedDraft
<1>3. CASE WrapKeyed
  BY <1>1, <1>3, WrappersYieldShaped DEF WrapKeyed, Extend, ShapedDraft
<1>4. CASE Constrain
  <2>1. PICK k \in {"minimum", "maxLength", "maxItems"} : draft' = Constrained(draft, k)
    BY <1>4 DEF Constrain, Extend
  <2>2. Shaped(Constrained(draft, k))
    BY <1>0, <1>1, ModifiersYieldShaped
  <2> QED
    BY <2>1, <2>2 DEF ShapedDraft
<1>5. CASE Dress
  <2>1. Shaped(Widget(draft, "custom")) /\ Shaped(Hidden(draft))
    BY <1>0, <1>1, ModifiersYieldShaped
  <2>2. draft' \in {Widget(draft, "custom"), Hidden(draft)}
    BY <1>5 DEF Dress, Extend
  <2> QED
    BY <2>1, <2>2 DEF ShapedDraft
<1>6. CASE Mark
  <2>1. Shaped(Readonly(draft)) /\ Shaped(Required(draft)) /\ Shaped(Nullable(draft))
    BY <1>0, <1>1, ModifiersYieldShaped, NullableYieldsShaped
  <2>2. draft' \in {Readonly(draft), Nullable(draft), Required(draft)}
    BY <1>6 DEF Mark, Extend
  <2> QED
    BY <2>1, <2>2 DEF ShapedDraft
<1>7. CASE Attach
  <2>1. PICK name \in Names : draft' = ParentField(draft, name)
    BY <1>7 DEF Attach, Extend
  <2>2. Shaped(ParentField(draft, name))
    BY <1>0, <1>1, ModifiersYieldShaped
  <2> QED
    BY <2>1, <2>2 DEF ShapedDraft
<1>8. CASE ReplaceOptions
  BY <1>1, <1>8, OptionsReplacedIsShaped DEF ReplaceOptions, Extend, ShapedDraft
<1> QED
  BY <1>2, <1>3, <1>4, <1>5, <1>6, <1>7, <1>8

LEMMA ShapedAlways == Spec => [](ShapedDraft /\ ShapedDecl)
<1>1. Init => ShapedDraft /\ ShapedDecl
  BY DEF Init, ShapedDraft, ShapedDecl
<1>2. Typed /\ ShapedDraft /\ ShapedDecl /\ [Next]_vars => (ShapedDraft /\ ShapedDecl)'
  <2> SUFFICES ASSUME Typed, ShapedDraft, ShapedDecl, [Next]_vars
               PROVE  ShapedDraft' /\ ShapedDecl'
    OBVIOUS
  <2>1. CASE Construct
    <3>1. Shaped(draft') /\ decl' = decl
      BY <2>1, ConstructedAreShaped DEF Construct
    <3> QED
      BY <3>1 DEF ShapedDraft, ShapedDecl
  <2>2. CASE WrapList \/ WrapKeyed \/ Constrain \/ Dress \/ Mark \/ Attach \/ ReplaceOptions
    <3>1. draft # <<>> /\ decl' = decl
      BY <2>2 DEF WrapList, WrapKeyed, Constrain, Dress, Mark, Attach, ReplaceOptions, Extend
    <3> QED
      BY <2>2, <3>1, CallsYieldShaped DEF ShapedDecl
  <2>3. CASE Declare
    <3>1. PICK e \in [name : Names, group : specs \cup {NoGroup, Typo}, col : Cells,
                      ui : {draft}, items : Blocks] :
            decl' = Append(decl, e)
      BY <2>3 DEF Declare
    <3>2. Shaped(e.ui) /\ draft' = <<>>
      BY <2>3, <3>1 DEF Declare, ShapedDraft
    <3>3. decl \in Seq(EntrySet)
      BY DEF Typed, TypeOK
    <3>4. \A n \in DOMAIN decl' : Shaped(decl'[n].ui)
      <4>1. ASSUME NEW n \in DOMAIN decl' PROVE Shaped(decl'[n].ui)
        <5>1. (n \in DOMAIN decl /\ decl'[n] = decl[n]) \/ decl'[n] = e
          BY <3>1, <3>3, <4>1
        <5> QED
          BY <3>2, <5>1 DEF ShapedDecl
      <4> QED
        BY <4>1
    <3> QED
      BY <3>2, <3>4 DEF ShapedDraft, ShapedDecl
  <2>4. CASE Publish \/ (\E r \in Requests : Compose(r) \/ Answer(r)) \/ UNCHANGED vars
    <3>1. draft' = draft /\ decl' = decl
      BY <2>4 DEF Publish, Compose, Answer, authoring, vars
    <3> QED
      BY <3>1 DEF ShapedDraft, ShapedDecl
  <2> QED
    BY <2>1, <2>2, <2>3, <2>4 DEF Next
<1> QED
  BY <1>1, <1>2, TypedAlways, PTL DEF Spec

-------------------------------------------------------------------------------
(* Forms.  Why none is refused for what it is: the two halves of a layer    *)
(* never drift apart, the lint excludes the rest, and a public declaration  *)
(* is one the lint found clean.                                             *)

LEMMA NullIsAChoice ==
    ASSUME NEW l \in GoodLayers, "null" \in l.type, l.enum # <<>>
    PROVE  \E n \in DOMAIN l.enum : l.enum[n] = NullValue
<1>1. l.enum = <<NullValue>> \o Choices
  BY DEF GoodLayers, Halves
<1>2. 1 \in DOMAIN (<<NullValue>> \o Choices) /\ (<<NullValue>> \o Choices)[1] = NullValue
  BY ChoicesAssumption
<1> QED
  BY <1>1, <1>2

LEMMA NullIsApart ==
    /\ \A t \in Types \ {"null"} : "null" \notin KindsOf(t)
    /\ "null" \in KindsOf("null") /\ "list" \in KindsOf("array")
    /\ "word" \in KindsOf("string") /\ "map" \in KindsOf("object")
BY DEF KindsOf, Types, Texts

LEMMA LayerAccepts ==
    ASSUME NEW l \in GoodLayers, CardinalityAgrees(l), NEW kind \in ControlSends(l)
    PROVE  LayerAdmits(l, kind)
<1>1. l.type \subseteq Types /\ l.clears \in BOOLEAN
  BY DEF GoodLayers, Layers
<1>2. CASE kind = "null" /\ l.clears
  <2>1. l.type = {} \/ "null" \in l.type
    BY <1>2 DEF GoodLayers, Halves
  <2>2. l.type = {} => l.enum = <<>>
    BY DEF GoodLayers, Halves
  <2> QED
    BY <1>2, <2>1, <2>2, NullIsApart, NullIsAChoice DEF LayerAdmits
<1>3. CASE ~(kind = "null" /\ l.clears)
  <2>1. CASE IsRelation(l)
    <3>0. kind \in IF "multi" \in l.options THEN {"list"} ELSE {"word"}
      <4>1. l.drawn \in {"relation", "media"}
        BY <2>1 DEF IsRelation
      <4>2. CASE "multi" \in l.options
        BY <1>3, <4>1, <4>2 DEF ControlSends, IsRelation
      <4>3. CASE "multi" \notin l.options
        BY <1>3, <4>1, <4>3 DEF ControlSends, IsRelation
      <4> QED
        BY <4>2, <4>3
    <3>1. kind = IF "multi" \in l.options THEN "list" ELSE "word"
      BY <3>0
    <3>2. (IF "multi" \in l.options THEN "array" ELSE "string") \in l.type
      BY <2>1 DEF CardinalityAgrees
    <3> QED
      BY <3>1, <3>2, NullIsApart DEF LayerAdmits
  <2>2. CASE ~IsRelation(l) /\ l.drawn = "keyed"
    <3>1. kind = "map"
      BY <1>3, <2>2 DEF ControlSends
    <3>2. "object" \in l.type
      BY <2>2 DEF GoodLayers, Halves
    <3> QED
      BY <3>1, <3>2, NullIsApart DEF LayerAdmits
  <2>3. CASE ~IsRelation(l) /\ l.drawn # "keyed"
    <3>1. kind \in IF l.type = {} THEN Deepest ELSE UNION {KindsOf(t) : t \in l.type \ {"null"}}
      BY <1>3, <2>3 DEF ControlSends
    <3>2. l.type = {} => l.enum = <<>>
      BY DEF GoodLayers, Halves
    <3>3. CASE l.type = {}
      <4>1. l.enum = <<>>
        BY <3>2, <3>3
      <4> QED
        BY <3>3, <4>1 DEF LayerAdmits
    <3>4. CASE l.type # {}
      <4>1. PICK t \in l.type \ {"null"} : kind \in KindsOf(t)
        BY <3>1, <3>4
      <4>2. kind # "null"
        BY <1>1, <4>1, NullIsApart
      <4> QED
        BY <4>1, <4>2 DEF LayerAdmits
    <3> QED
      BY <3>3, <3>4
  <2> QED
    BY <2>1, <2>2, <2>3
<1> QED
  BY <1>2, <1>3

LEMMA FieldAccepts ==
    ASSUME NEW f \in Fields, IsSound(f), Shaped(f), NEW v \in Values, Sends(f, v)
    PROVE  Admits(f, v)
<1>1. DOMAIN v \subseteq Nat \ {0}
  BY DEF Values
<1>2. ASSUME NEW n \in DOMAIN v, n <= Len(f)
      PROVE  LayerAdmits(f[n], v[n])
  <2>1. n \in DOMAIN f /\ f[n] \in GoodLayers
    BY <1>1, <1>2 DEF Fields
  <2>2. CardinalityAgrees(f[n])
    <3>1. CASE n \in LintedLayers(f)
      BY <3>1 DEF IsSound, LayerIsSound
    <3>2. CASE n \notin LintedLayers(f)
      <4>1. n = 2 /\ IsKeyedItems(f)
        BY <1>2, <2>1, <3>2 DEF LintedLayers, Shaped, Fields
      <4> QED
        BY <4>1 DEF Shaped, CardinalityAgrees
    <3> QED
      BY <3>1, <3>2
  <2> QED
    BY <1>2, <2>1, <2>2, LayerAccepts DEF Sends
<1> QED
  BY <1>2 DEF Sends, Admits

\* A public declaration is clean.
Linted == public => Clean(decl)

LEMMA LintedAlways == Spec => []Linted
<1>1. Init => Linted
  BY DEF Init, Linted
<1>2. Linted /\ [Next]_vars => Linted'
  <2> SUFFICES ASSUME Linted, [Next]_vars PROVE Linted'
    OBVIOUS
  <2>1. CASE public' = public /\ decl' = decl /\ specs' = specs
    BY <2>1 DEF Linted, Clean, SectionsUsed, Sectioned, LevelIsSound, EntryIsSound
  <2>2. CASE ~public'
    BY <2>2 DEF Linted
  <2>3. CASE Publish
    BY <2>3 DEF Publish, Linted, Clean, SectionsUsed, Sectioned
  <2>4. Construct \/ WrapList \/ WrapKeyed \/ Constrain \/ Dress \/ Mark \/ Attach
        \/ ReplaceOptions \/ Declare => ~public'
    BY DEF Construct, WrapList, WrapKeyed, Constrain, Dress, Mark, Attach, ReplaceOptions,
           Extend, Declare
  <2>5. (\E r \in Requests : Compose(r) \/ Answer(r)) \/ UNCHANGED vars
          => public' = public /\ decl' = decl /\ specs' = specs
    BY DEF Compose, Answer, authoring, vars
  <2> QED
    BY <2>1, <2>2, <2>3, <2>4, <2>5 DEF Next
<1> QED
  BY <1>1, <1>2, PTL DEF Spec

LEMMA EntriesAreSound ==
    ASSUME Typed, Linted, ShapedDecl, public, NEW e \in Entries
    PROVE  e.ui \in Fields /\ IsSound(e.ui) /\ Shaped(e.ui)
<1>1. PICK n \in DOMAIN decl : e \in {decl[n]} \cup {decl[n].items[m] : m \in DOMAIN decl[n].items}
  BY DEF Entries
<1>2. decl[n] \in EntrySet
  BY DEF Typed, TypeOK
<1>3. CASE e = decl[n]
  <2>1. e.ui \in Fields
    BY <1>2, <1>3 DEF EntrySet
  <2>2. IsSound(e.ui)
    BY <1>3 DEF Linted, Clean, LevelIsSound, EntryIsSound
  <2> QED
    BY <1>3, <2>1, <2>2 DEF ShapedDecl
<1>4. ASSUME NEW m \in DOMAIN decl[n].items, e = decl[n].items[m]
      PROVE  e.ui \in Fields /\ IsSound(e.ui) /\ Shaped(e.ui)
  <2>1. decl[n].items \in Blocks /\ decl[n].items \in Seq(Elements)
    BY <1>2, DeclarationAssumption DEF EntrySet
  <2>2. e \in Elements
    BY <1>4, <2>1
  <2>3. e.ui \in Fields
    BY <2>2 DEF Elements
  <2>4. IsSound(e.ui)
    BY <1>4 DEF Linted, Clean, LevelIsSound, EntryIsSound
  <2>5. Shaped(e.ui)
    BY <1>4, <2>1, BlocksAssumption
  <2> QED
    BY <2>3, <2>4, <2>5
<1> QED
  BY <1>1, <1>3, <1>4

LEMMA SoundIsEnough == Typed /\ Linted /\ ShapedDecl => FormIsAccepted
<1> SUFFICES ASSUME Typed, Linted, ShapedDecl, public
             PROVE  /\ \A e \in Entries : ~IsReadonly(e.ui) =>
                         \A v \in Values : Sends(e.ui, v) => Admits(e.ui, v)
                    /\ RequiredNames(decl) \cap StrippedNames(decl) = {}
  BY DEF FormIsAccepted
<1>1. \A e \in Entries : \A v \in Values : Sends(e.ui, v) => Admits(e.ui, v)
  BY EntriesAreSound, FieldAccepts
<1>2. ASSUME NEW m \in DOMAIN decl, NEW n \in DOMAIN decl,
             IsRequired(decl[m].ui), IsReadonly(decl[n].ui), decl[m].name = decl[n].name
      PROVE  FALSE
  <2>1. LevelIsSound(decl)
    BY DEF Linted, Clean
  <2>2. m = n
    BY <1>2, <2>1 DEF LevelIsSound, NamedOnce
  <2>3. RequiredIsWritable(decl[m])
    BY <2>1 DEF LevelIsSound, EntryIsSound
  <2> QED
    BY <1>2, <2>2, <2>3 DEF RequiredIsWritable
<1>3. RequiredNames(decl) \cap StrippedNames(decl) = {}
  BY <1>2 DEF RequiredNames, StrippedNames
<1> QED
  BY <1>1, <1>3

\* With a clean lint no form is refused for what it is: the schema admits all
\* that the controls send, to any depth of wrapping, and requires nothing that
\* is stripped from the body (ui/field.go, ui/lint.go, decl/lint.go).
THEOREM FormsAreAccepted == Spec => []FormIsAccepted
BY TypedAlways, LintedAlways, ShapedAlways, SoundIsEnough, PTL
-------------------------------------------------------------------------------
(* Sections.  Sections in use and what is shown of them are one to one.     *)

Shown(g) == {decl[n].name : n \in Members(decl, g)}

LEMMA SectionsAreShown ==
    ASSUME Typed, Linted, public, specs # {}
    PROVE  /\ SectionNames = {Shown(g) : g \in specs}
           /\ \A g \in specs : Shown(g) # {}
           /\ \A n \in DOMAIN decl : \A g \in specs :
                decl[n].name \in Shown(g) <=> decl[n].group = g
<1>1. ASSUME NEW g \in specs
      PROVE  Members(decl, g) # {}
  BY <1>1 DEF Linted, Clean, SectionsUsed, Members
<1>2. Groups(decl) = {Members(decl, g) : g \in specs}
  BY <1>1 DEF Groups
<1>3. SectionNames = {Shown(g) : g \in specs}
  BY <1>2 DEF SectionNames, Shown
<1>4. ASSUME NEW n \in DOMAIN decl, NEW g \in specs
      PROVE  decl[n].name \in Shown(g) <=> decl[n].group = g
  <2>1. decl[n].group = g => decl[n].name \in Shown(g)
    BY DEF Shown, Members
  <2>2. ASSUME decl[n].name \in Shown(g) PROVE decl[n].group = g
    <3>1. PICK m \in DOMAIN decl : decl[m].group = g /\ decl[m].name = decl[n].name
      BY <2>2 DEF Shown, Members
    <3>2. m = n
      BY <3>1 DEF Linted, Clean, LevelIsSound, NamedOnce
    <3> QED
      BY <3>1, <3>2
  <2> QED
    BY <2>1, <2>2
<1> QED
  BY <1>1, <1>3, <1>4 DEF Shown

LEMMA SectionsAreEnough == Typed /\ Linted => EveryFieldShown
<1> SUFFICES ASSUME Typed, Linted, public, specs # {}
             PROVE  /\ \A n \in DOMAIN decl :
                         Cardinality({G \in SectionNames : decl[n].name \in G})
                           = IF IsHidden(decl[n].ui) THEN 0 ELSE 1
                    /\ Cardinality(SectionNames) = Cardinality(specs)
  BY DEF EveryFieldShown
<1>1. specs \in Registries /\ IsFiniteSet(specs) /\ NoGroup \notin specs
  BY DeclarationAssumption DEF Typed, TypeOK
<1>2. ASSUME NEW n \in DOMAIN decl
      PROVE  Cardinality({G \in SectionNames : decl[n].name \in G})
               = IF IsHidden(decl[n].ui) THEN 0 ELSE 1
  <2> DEFINE In == {G \in SectionNames : decl[n].name \in G}
  <2>1. IF IsHidden(decl[n].ui) THEN decl[n].group = NoGroup ELSE decl[n].group \in specs
    BY DEF Linted, Clean, Sectioned
  <2>2. CASE IsHidden(decl[n].ui)
    <3>1. In = {}
      BY <1>1, <2>1, <2>2, SectionsAreShown
    <3> QED
      BY <2>2, <3>1, FS_EmptySet
  <2>3. CASE ~IsHidden(decl[n].ui)
    <3>1. In = {Shown(decl[n].group)}
      BY <2>1, <2>3, SectionsAreShown
    <3> QED
      BY <2>3, <3>1, FS_Singleton
  <2> QED
    BY <2>2, <2>3
<1>3. Cardinality(SectionNames) = Cardinality(specs)
  <2> DEFINE shown == [g \in specs |-> Shown(g)]
  <2>1. ASSUME NEW g \in specs, NEW h \in specs, Shown(g) = Shown(h)
        PROVE  g = h
    <3>1. PICK n \in DOMAIN decl : decl[n].name \in Shown(g)
      BY SectionsAreShown DEF Shown, Members
    <3> QED
      BY <2>1, <3>1, SectionsAreShown
  <2>2. shown \in [specs -> SectionNames] /\ \A G \in SectionNames : \E g \in specs : shown[g] = G
    BY SectionsAreShown
  <2>3. \A g, h \in specs : shown[g] = shown[h] => g = h
    BY <2>1
  <2> HIDE DEF shown
  <2>4. shown \in Bijection(specs, SectionNames)
    BY <2>2, <2>3 DEF Bijection, Injection, Surjection, IsInjective
  <2> QED
    BY <1>1, <2>4, FS_Bijection DEF ExistsBijection
<1> QED
  BY <1>2, <1>3

\* Every visible field is in one section, no hidden one in any, and every
\* section of the registry is there (decl.go Groups, decl/lint.go).
THEOREM FieldsAreShown == Spec => []EveryFieldShown
BY TypedAlways, LintedAlways, SectionsAreEnough, PTL
-------------------------------------------------------------------------------
(* Values.  Why nothing a clean form admits is lost on the way to its cell: *)
(* fields have the shape the vocabulary gives them, so the lint compares    *)
(* the kinds that values really have.                                       *)

\* The kinds of value that a kind of the wire stands for.
KindsNamed(kind) == CASE kind = "string"  -> Texts
                      [] kind = "integer" -> {"integer", "huge"}
                      [] kind = "number"  -> {"integer", "huge", "fraction"}
                      [] OTHER -> {kind}

\* What each kind stands for.
LEMMA KindsArePlain ==
    /\ KindsNamed("string") = Texts
    /\ KindsNamed("integer") = {"integer", "huge"}
    /\ KindsNamed("number") = {"integer", "huge", "fraction"}
    /\ KindsNamed("boolean") = {"boolean"} /\ KindsNamed("list") = {"list"}
    /\ KindsNamed("map") = {"map"}
BY DEF KindsNamed

LEMMA ScalarsAreFlat ==
    \A kind \in {"string", "integer", "number", "boolean"} : KindsNamed(kind) \cap Containers = {}
BY KindsArePlain DEF Containers, Texts

LEMMA TypeTellsKind ==
    ASSUME NEW ts \in SUBSET Types, OneType(ts), ts # {}, NEW t \in ts, NEW k \in KindsOf(t),
           k # "null"
    PROVE  /\ k \in KindsNamed(NestedKind(ts))
           /\ NestedKind(ts) \in {"list", "map", "string", "integer", "number", "boolean"}
           /\ NestedKind(ts) \notin {"list", "map"} => ScalarKind(ts) = NestedKind(ts)
           /\ "array" \in ts <=> NestedKind(ts) = "list"
           /\ "object" \in ts <=> NestedKind(ts) = "map"
<1>1. t \in Types \ {"null"}
  BY DEF KindsOf
<1>2. \A s \in ts : s = t \/ s = "null"
  BY <1>1 DEF OneType
<1>3. CASE t = "array"
  <2>1. NestedKind(ts) = "list" /\ k = "list" /\ "object" \notin ts
    BY <1>2, <1>3 DEF NestedKind, KindsOf
  <2> QED
    BY <2>1, <1>3 DEF KindsNamed
<1>4. CASE t = "object"
  <2>1. "array" \notin ts
    BY <1>2, <1>4
  <2>2. NestedKind(ts) = "map" /\ k = "map"
    BY <1>4, <2>1 DEF NestedKind, KindsOf
  <2> QED
    BY <2>1, <2>2, <1>4 DEF KindsNamed
<1>5. CASE t \in {"string", "number", "integer", "boolean"}
  <2>1. "array" \notin ts /\ "object" \notin ts
    BY <1>2, <1>5
  <2>2. NestedKind(ts) = ScalarKind(ts)
    BY <2>1 DEF NestedKind
  <2>3. ScalarKind(ts) = t
    <3>1. CASE t = "string"
      <4>1. "integer" \notin ts /\ "number" \notin ts /\ "boolean" \notin ts /\ "string" \in ts
        BY <1>2, <3>1
      <4> QED
        BY <3>1, <4>1 DEF ScalarKind
    <3>2. CASE t = "integer"
      <4>1. "string" \notin ts /\ "number" \notin ts /\ "boolean" \notin ts /\ "integer" \in ts
        BY <1>2, <3>2
      <4> QED
        BY <3>2, <4>1 DEF ScalarKind
    <3>3. CASE t = "number"
      <4>1. "string" \notin ts /\ "integer" \notin ts /\ "boolean" \notin ts /\ "number" \in ts
        BY <1>2, <3>3
      <4> QED
        BY <3>3, <4>1 DEF ScalarKind
    <3>4. CASE t = "boolean"
      <4>1. "string" \notin ts /\ "integer" \notin ts /\ "number" \notin ts /\ "boolean" \in ts
        BY <1>2, <3>4
      <4> QED
        BY <3>4, <4>1 DEF ScalarKind
    <3> QED
      BY <1>5, <3>1, <3>2, <3>3, <3>4
  <2>4. k \in KindsNamed(t)
    BY <1>5 DEF KindsOf, KindsNamed
  <2> QED
    BY <1>5, <2>1, <2>2, <2>3, <2>4
<1> QED
  BY <1>1, <1>3, <1>4, <1>5 DEF Types

LEMMA ShapeFields == \A k, m : Shape(k, m).kind = k /\ Shape(k, m).elem = m
BY DEF Shape

LEMMA ValuesAreShort ==
    ASSUME NEW v \in Values
    PROVE  /\ Len(v) \in 1..3 /\ DOMAIN v = 1..Len(v)
           /\ v[1] \in Deepest
           /\ Len(v) > 1 => v[1] \in Containers /\ v[2] \in Deepest
           /\ Len(v) > 2 => v[2] \in Containers
<1>1. CASE v \in {<<k>> : k \in Deepest}
  BY <1>1 DEF Values
<1>2. CASE v \in Containers \X Deepest
  <2>1. PICK a \in Containers, b \in Deepest : v = <<a, b>>
    BY <1>2
  <2> QED
    BY <2>1 DEF Deepest
<1>3. CASE v \in Containers \X Containers \X Deepest
  <2>1. PICK a \in Containers, b \in Containers, c \in Deepest : v = <<a, b, c>>
    BY <1>3
  <2> QED
    BY <2>1 DEF Deepest
<1> QED
  BY <1>1, <1>2, <1>3 DEF Values

\* What the wire tells of a value, kind by kind.
Sized(v) == Len(v) \in 1..3 /\ DOMAIN v = 1..Len(v)
Elemwise(w, v) == Len(v) > 1 => /\ v[2] \in KindsNamed(w.elem)
                                /\ w.elem \in {"list", "map", "string", "integer", "number", "boolean"}
IsBlock(w, v)    == w.kind = "items" /\ v[1] = "list" /\ (Len(v) > 1 => v[2] = "map")
IsBlockMap(w, v) == /\ w.kind = "map" /\ w.elem = "items" /\ v[1] = "map"
                    /\ Len(v) > 1 => v[2] = "list"
                    /\ Len(v) > 2 => v[3] = "map"
IsMapOf(w, v)    == w.kind = "map" /\ w.elem # "items" /\ v[1] = "map" /\ Elemwise(w, v)
IsListOf(w, v)   == w.kind = "list" /\ w.elem # "items" /\ v[1] = "list" /\ Elemwise(w, v)
IsScalarOf(w, v) == /\ w.kind \in {"string", "integer", "number", "boolean"}
                    /\ Len(v) = 1 /\ v[1] \in KindsNamed(w.kind)

LEMMA LayerTellsKind ==
    ASSUME NEW l \in GoodLayers, OneType(l.type), l.type # {}, NEW k, LayerAdmits(l, k), k # "null"
    PROVE  /\ k \in KindsNamed(NestedKind(l.type))
           /\ NestedKind(l.type) \in {"list", "map", "string", "integer", "number", "boolean"}
           /\ NestedKind(l.type) \notin {"list", "map"} => ScalarKind(l.type) = NestedKind(l.type)
           /\ "array" \in l.type <=> NestedKind(l.type) = "list"
           /\ "object" \in l.type <=> NestedKind(l.type) = "map"
<1>1. PICK t \in l.type : k \in KindsOf(t)
  BY DEF LayerAdmits
<1>2. l.type \in SUBSET Types
  BY DEF GoodLayers, Layers
<1> HIDE DEF NestedKind
<1> QED
  BY <1>1, <1>2, TypeTellsKind

LEMMA WireTells ==
    ASSUME NEW f \in Fields, Shaped(f), LayerIsSound(f[1]), NEW v \in Values, Admits(f, v),
           \A n \in DOMAIN v : v[n] # "null" /\ (n <= Len(f) => f[n].type # {})
    PROVE  LET w == WireKind(f)
           IN  \/ IsBlock(w, v)
               \/ IsBlockMap(w, v)
               \/ /\ IsMapOf(w, v)
                  /\ ~IsKeyedItems(f) /\ ~IsItems(f)
               \/ /\ IsListOf(w, v)
                  /\ ~IsKeyedItems(f) /\ ~IsItems(f)
               \/ IsScalarOf(w, v)
<1>0. /\ Len(f) \in Nat \ {0} /\ DOMAIN f = 1..Len(f) /\ \A n \in DOMAIN f : f[n] \in GoodLayers
      /\ Sized(v)
  BY ValuesAreShort DEF Fields, Sized
<1>1. /\ f[1].items \in BOOLEAN /\ f[1].keyedItems \in BOOLEAN
      /\ IsKeyed(f) => "object" \in f[1].type
  BY <1>0 DEF GoodLayers, Layers, Halves, IsKeyed
<1>2. \A n \in DOMAIN v : n <= Len(f) =>
        /\ v[n] \in KindsNamed(NestedKind(f[n].type))
        /\ NestedKind(f[n].type) \in {"list", "map", "string", "integer", "number", "boolean"}
        /\ NestedKind(f[n].type) \notin {"list", "map"} => ScalarKind(f[n].type) = NestedKind(f[n].type)
        /\ "array" \in f[n].type <=> NestedKind(f[n].type) = "list"
        /\ "object" \in f[n].type <=> NestedKind(f[n].type) = "map"
  <2>1. ASSUME NEW n \in DOMAIN v, n <= Len(f)
        PROVE  /\ f[n] \in GoodLayers /\ OneType(f[n].type) /\ f[n].type # {}
               /\ LayerAdmits(f[n], v[n]) /\ v[n] # "null"
    <3>1. n \in DOMAIN f
      BY <1>0, <2>1 DEF Sized
    <3> QED
      BY <1>0, <2>1, <3>1 DEF Shaped, Admits
  <2> QED
    BY <2>1, LayerTellsKind
<1>3. /\ v[1] \in KindsNamed(NestedKind(f[1].type))
      /\ NestedKind(f[1].type) \in {"list", "map", "string", "integer", "number", "boolean"}
      /\ NestedKind(f[1].type) \notin {"list", "map"} => ScalarKind(f[1].type) = NestedKind(f[1].type)
      /\ "array" \in f[1].type <=> NestedKind(f[1].type) = "list"
      /\ "object" \in f[1].type <=> NestedKind(f[1].type) = "map"
  BY <1>0, <1>2 DEF Sized
<1>4. Len(v) > 1 /\ Len(f) > 1 =>
        /\ v[2] \in KindsNamed(NestedKind(f[2].type))
        /\ NestedKind(f[2].type) \in {"list", "map", "string", "integer", "number", "boolean"}
        /\ "array" \in f[2].type <=> NestedKind(f[2].type) = "list"
  BY <1>0, <1>2 DEF Sized
<1>5. \A k : k \in KindsNamed("list") => k = "list"
  BY DEF KindsNamed
<1>6. \A k : k \in KindsNamed("map") => k = "map"
  BY DEF KindsNamed
<1>7. CASE IsItems(f)
  <2>2. "array" \in f[1].type
    BY <1>7 DEF Shaped
  <2>5. ~IsKeyed(f)
    BY <2>2, <1>1, <1>3
  <2>1. WireKind(f) = Shape("items", "")
    BY <1>7, <2>2, <2>5 DEF WireKind
  <2>3. v[1] = "list"
    BY <2>2, <1>3, <1>5
  <2>4. Len(v) > 1 => v[2] = "map"
    BY <1>7 DEF Admits, ElementsAreObjects
  <2> QED
    BY <2>1, <2>3, <2>4, ShapeFields DEF IsBlock
<1>8. CASE ~IsItems(f) /\ IsKeyed(f)
  <2>1. v[1] = "map" /\ Len(f) > 1
    BY <1>8, <1>1, <1>3, <1>6 DEF Shaped
  <2>2. CASE IsKeyedItems(f)
    <3>1. WireKind(f) = Shape("map", "items")
      BY <1>8, <2>2 DEF WireKind
    <3>2. Len(v) > 1 => v[2] = "list"
      BY <2>1, <2>2, <1>4, <1>5 DEF Shaped
    <3>3. Len(v) > 2 => v[3] = "map"
      BY <2>2 DEF Admits, ElementsAreObjects
    <3> QED
      BY <2>1, <2>2, <3>1, <3>2, <3>3 DEF IsBlockMap, Shape
  <2>3. CASE ~IsKeyedItems(f)
    <3>1. WireKind(f) = Shape("map", ElemKind(f))
      BY <1>8, <2>3 DEF WireKind
    <3>2. f[1].properties # {}
      BY <1>8 DEF LayerIsSound, KeysAgree, IsKeyed
    <3>3. ElemKind(f) = NestedKind(f[2].type)
      BY <2>1, <3>2, <1>0 DEF ElemKind
    <3>4. NestedKind(f[2].type) # "items"
      BY DEF NestedKind, ScalarKind
    <3>5. WireKind(f).kind = "map" /\ WireKind(f).elem = NestedKind(f[2].type)
      BY <3>1, <3>3 DEF Shape
    <3> QED
      BY <1>8, <2>1, <2>3, <3>4, <3>5, <1>4 DEF IsMapOf, Elemwise
  <2> QED
    BY <2>2, <2>3
<1>9. CASE ~IsItems(f) /\ ~IsKeyed(f) /\ "array" \in f[1].type
  <2>1. v[1] = "list" /\ Len(f) > 1 /\ ~IsKeyedItems(f)
    BY <1>9, <1>1, <1>3, <1>5 DEF Shaped
  <2>2. WireKind(f) = Shape("list", ElemKind(f))
    BY <1>9 DEF WireKind
  <2>3. ElemKind(f) = NestedKind(f[2].type)
    BY <1>9, <2>1, <1>0 DEF ElemKind
  <2>4. NestedKind(f[2].type) # "items"
    BY DEF NestedKind, ScalarKind
  <2>5. WireKind(f).kind = "list" /\ WireKind(f).elem = NestedKind(f[2].type)
    BY <2>2, <2>3 DEF Shape
  <2> QED
    BY <1>9, <2>1, <2>4, <2>5, <1>4 DEF IsListOf, Elemwise
<1>10. CASE ~IsItems(f) /\ ~IsKeyed(f) /\ "array" \notin f[1].type
  <2>1. "object" \notin f[1].type
    BY <1>10 DEF Shaped
  <2>2. /\ NestedKind(f[1].type) \in {"string", "integer", "number", "boolean"}
        /\ ScalarKind(f[1].type) = NestedKind(f[1].type)
    BY <1>10, <2>1, <1>3
  <2>3. WireKind(f) = Shape(ScalarKind(f[1].type), "")
    BY <1>10 DEF WireKind
  <2>4. v[1] \notin Containers
    BY <1>3, <2>2, ScalarsAreFlat
  <2>5. Len(v) = 1
    BY <2>4, ValuesAreShort
  <2>6. WireKind(f).kind = ScalarKind(f[1].type)
    BY <2>3, ShapeFields
  <2> QED
    BY <1>3, <2>2, <2>5, <2>6 DEF IsScalarOf
<1> QED
  BY <1>7, <1>8, <1>9, <1>10

LEMMA HoldsList ==
    ASSUME NEW v, Sized(v), v[1] = "list", NEW E, Len(v) > 1 => v[2] \in E
    PROVE  Holds(v, <<"list">>, E)
BY DEF Holds, Sized

LEMMA HoldsMap ==
    ASSUME NEW v, Sized(v), v[1] = "map", NEW E, Len(v) > 1 => v[2] \in E
    PROVE  Holds(v, <<"map">>, E)
BY DEF Holds, Sized

LEMMA HoldsMapOfLists ==
    ASSUME NEW v, Sized(v), v[1] = "map", NEW E, Len(v) > 1 => v[2] = "list",
           Len(v) > 2 => v[3] \in E
    PROVE  Holds(v, <<"map", "list">>, E)
<1>1. \A n \in DOMAIN v : n = 1 \/ n = 2 \/ n = 3
  BY DEF Sized
<1>2. \A n \in DOMAIN v : n <= 2 => v[n] = <<"map", "list">>[n]
  BY <1>1 DEF Sized
<1> QED
  BY <1>2 DEF Holds, Sized

\* A scalar cell writes what its kind stands for, but for what it skips.
LEMMA TextsAreWritten ==
    ASSUME NEW t \in {"Text", "Str", "UUID"} \cup Timed
    PROVE  Texts \ Skipped(t) \subseteq ScalarKinds(t)
BY DEF Timed, Texts, Skipped, ScalarKinds, Format

LEMMA ScalarParses ==
    ASSUME NEW c \in ScalarCells
    PROVE  /\ c.parser # "ReadOnly" /\ Parser(c) = c.parser
           /\ c.wire.kind # "any" => KindsNamed(c.wire.kind) \ Skipped(c.parser) \subseteq ScalarKinds(c.parser)
           /\ c.wire.kind = "any" => ScalarKinds(c.parser) = Deepest
           /\ c.wire.kind \in {"string", "boolean", "integer", "number", "any"}
           /\ \A v : Parses(c, v) <=> v[1] \in ScalarKinds(c.parser)
<1>1. ASSUME NEW t \in {"Text", "Str", "UUID"} \cup Timed, c.parser = t
      PROVE  Parser(c) = t /\ t # "ReadOnly" /\ \A v : Parses(c, v) <=> v[1] \in ScalarKinds(t)
  BY <1>1 DEF Timed, Parser, Parses
<1>2. ASSUME NEW t \in {"Text", "Str", "UUID"} \cup Timed, c = Cell(t, "", "string", "")
      PROVE  /\ c.parser = t /\ c.wire.kind = "string"
             /\ KindsNamed("string") \ Skipped(t) \subseteq ScalarKinds(t)
  BY <1>2, TextsAreWritten, KindsArePlain DEF Cell, Shape
<1>3. CASE c = Cell("Bool", "", "boolean", "")
  BY <1>3, KindsArePlain DEF Cell, Shape, ScalarKinds, Timed, Parses, Parser
<1>4. CASE c = Cell("Int", "", "integer", "")
  BY <1>4, KindsArePlain DEF Cell, Shape, ScalarKinds, Timed, Parses, Parser, Skipped
<1>5. CASE c = Cell("Num", "", "number", "")
  BY <1>5, KindsArePlain DEF Cell, Shape, ScalarKinds, Timed, Parses, Parser
<1>6. CASE c = Cell("JSONEditable", "", "any", "")
  BY <1>6 DEF Cell, Shape, ScalarKinds, Timed, Parses, Parser
<1> QED
  BY <1>1, <1>2, <1>3, <1>4, <1>5, <1>6 DEF ScalarCells

\* A value of the kind that the wire names.
OfWire(w, v) == \/ IsBlock(w, v)
                \/ IsBlockMap(w, v)
                \/ IsMapOf(w, v) /\ Len(v) <= 2
                \/ IsListOf(w, v) /\ Len(v) <= 2
                \/ IsScalarOf(w, v)

LEMMA ToldKinds ==
    ASSUME NEW w, NEW v, OfWire(w, v)
    PROVE  /\ w.kind \in {"items", "map", "list", "string", "integer", "number", "boolean"}
           /\ w.kind = "items" => IsBlock(w, v)
           /\ w.kind = "map"   => IsBlockMap(w, v) \/ (IsMapOf(w, v) /\ Len(v) <= 2)
           /\ w.kind = "list"  => IsListOf(w, v) /\ Len(v) <= 2
           /\ w.kind \notin {"items", "map", "list"} => v[1] \in KindsNamed(w.kind)
<1>1. CASE IsBlock(w, v)
  BY <1>1 DEF IsBlock
<1>2. CASE IsBlockMap(w, v)
  BY <1>2 DEF IsBlockMap
<1>3. CASE IsMapOf(w, v) /\ Len(v) <= 2
  BY <1>3 DEF IsMapOf
<1>4. CASE IsListOf(w, v) /\ Len(v) <= 2
  BY <1>4 DEF IsListOf
<1>5. CASE IsScalarOf(w, v)
  BY <1>5 DEF IsScalarOf
<1> QED
  BY <1>1, <1>2, <1>3, <1>4, <1>5 DEF OfWire

LEMMA ListMatch ==
    ASSUME NEW c, NEW w, NEW v, Match(c.wire, w), OfWire(w, v), c.wire.kind = "list"
    PROVE  /\ v[1] = "list" /\ Len(v) <= 2
           /\ Len(v) > 1 /\ c.wire.elem # "any" => v[2] \in KindsNamed(c.wire.elem)
<1>1. w.kind = "list"
  <2>1. w.kind # "any"
    BY ToldKinds
  <2> QED
    BY <2>1 DEF Match
<1>2. IsListOf(w, v) /\ Len(v) <= 2
  BY <1>1, ToldKinds
<1>3. Len(v) > 1 => w.elem # "any"
  BY <1>2 DEF IsListOf, Elemwise
<1>4. "any" \in {c.wire.elem, w.elem} \/ c.wire.elem = w.elem
  BY <1>1 DEF Match
<1> QED
  BY <1>2, <1>3, <1>4 DEF IsListOf, Elemwise

LEMMA MapMatch ==
    ASSUME NEW c, NEW w, NEW v, Match(c.wire, w), OfWire(w, v), c.wire.kind = "map",
           c.wire.elem # "any"
    PROVE  /\ v[1] = "map"
           /\ c.wire.elem # "items" =>
                Len(v) <= 2 /\ (Len(v) > 1 => v[2] \in KindsNamed(c.wire.elem))
           /\ c.wire.elem = "items" => /\ Len(v) > 1 => v[2] = "list"
                                       /\ Len(v) > 2 => v[3] = "map"
<1>1. w.kind = "map"
  <2>1. w.kind # "any"
    BY ToldKinds
  <2> QED
    BY <2>1 DEF Match
<1>2. IsBlockMap(w, v) \/ (IsMapOf(w, v) /\ Len(v) <= 2)
  BY <1>1, ToldKinds
<1>3. "any" \in {c.wire.elem, w.elem} \/ c.wire.elem = w.elem
  BY <1>1 DEF Match
<1>4. CASE IsBlockMap(w, v)
  <2>1. w.elem = "items"
    BY <1>4 DEF IsBlockMap
  <2>2. c.wire.elem = "items"
    BY <1>3, <2>1
  <2> QED
    BY <1>4, <2>2 DEF IsBlockMap
<1>5. CASE IsMapOf(w, v) /\ Len(v) <= 2
  <2>1. Len(v) > 1 => w.elem # "any"
    BY <1>5 DEF IsMapOf, Elemwise
  <2>2. c.wire.elem = "items" => w.elem = "any"
    BY <1>3, <1>5 DEF IsMapOf
  <2> QED
    BY <1>3, <1>5, <2>1, <2>2 DEF IsMapOf, Elemwise
<1> QED
  BY <1>2, <1>4, <1>5

LEMMA BlocksMatch ==
    ASSUME NEW c, NEW w, NEW v, Match(c.wire, w), OfWire(w, v), c.wire.kind = "items"
    PROVE  v[1] = "list" /\ (Len(v) > 1 => v[2] = "map")
<1>1. w.kind # "any"
  BY ToldKinds
<1>2. w.kind = "items"
  BY <1>1 DEF Match
<1>3. IsBlock(w, v)
  BY <1>2, ToldKinds
<1> QED
  BY <1>3 DEF IsBlock

LEMMA CellParses ==
    ASSUME NEW c \in AllCells, c.writable, NEW w, NEW v \in Values,
           Match(c.wire, w), OfWire(w, v), \A n \in DOMAIN v : v[n] \notin Skipped(Parser(c))
    PROVE  Parses(c, v)
<1>0. /\ Sized(v) /\ v[1] \in Deepest
      /\ v[1] \notin Skipped(Parser(c)) /\ (Len(v) > 1 => v[2] \notin Skipped(Parser(c)))
  BY ValuesAreShort DEF Sized
<1>1. c \in WritableCells
  <2>1. \A d \in WritableCells : \E p, e, k, m : d = Cell(p, e, k, m)
    <3>1. \A d \in ScalarCells \cup OtherCells : \E p, e, k, m : d = Cell(p, e, k, m)
      BY DEF ScalarCells, OtherCells
    <3>2. \A d \in ListCells \cup MapCells : \E p, e, k, m : d = Cell(p, e, k, m)
      BY DEF ListCells, MapCells
    <3> QED
      BY <3>1, <3>2 DEF WritableCells
  <2>2. \A p, e, k, m : Frozen(Cell(p, e, k, m)).writable = FALSE
    BY DEF Frozen, Cell
  <2> QED
    BY <2>1, <2>2 DEF AllCells
<1>2. c \in ScalarCells => Parses(c, v)
  <2> SUFFICES ASSUME c \in ScalarCells PROVE Parses(c, v)
    OBVIOUS
  <2>1. CASE c.wire.kind = "any"
    BY <1>0, <2>1, ScalarParses
  <2>2. CASE c.wire.kind # "any"
    <3>1. w.kind # "any"
      BY ToldKinds
    <3>2. w.kind = c.wire.kind
      BY <2>2, <3>1 DEF Match
    <3>3. w.kind \in {"string", "boolean", "integer", "number"}
      BY <2>2, <3>2, ScalarParses
    <3>4. v[1] \in KindsNamed(w.kind)
      BY <3>3, ToldKinds
    <3> QED
      BY <1>0, <2>2, <3>2, <3>4, ScalarParses
  <2> QED
    BY <2>1, <2>2
<1>3. c = Cell("Strings", "", "list", "string") => Parses(c, v)
  <2> SUFFICES ASSUME c = Cell("Strings", "", "list", "string") PROVE Parses(c, v)
    OBVIOUS
  <2>1. /\ c.wire.kind = "list" /\ c.wire.elem = "string" /\ c.parser = "Strings"
        /\ Parser(c) = "Strings"
    BY DEF Cell, Shape, Parser
  <2>2. v[1] = "list" /\ (Len(v) > 1 => v[2] \in Texts)
    BY <1>0, <2>1, ListMatch, KindsArePlain
  <2>3. Holds(v, <<"list">>, Texts)
    BY <1>0, <2>2, HoldsList
  <2> QED
    BY <2>1, <2>3 DEF Parses
<1>4. c = Cell("Ints", "", "list", "integer") => Parses(c, v)
  <2> SUFFICES ASSUME c = Cell("Ints", "", "list", "integer") PROVE Parses(c, v)
    OBVIOUS
  <2>1. /\ c.wire.kind = "list" /\ c.wire.elem = "integer" /\ c.parser = "Ints"
        /\ Parser(c) = "Ints"
    BY DEF Cell, Shape, Parser
  <2>2. v[1] = "list" /\ (Len(v) > 1 => v[2] \in {"integer"})
    BY <1>0, <2>1, ListMatch, KindsArePlain DEF Skipped, Timed
  <2>3. Holds(v, <<"list">>, {"integer"})
    BY <1>0, <2>2, HoldsList
  <2> QED
    BY <2>1, <2>3 DEF Parses
<1>14. c = Cell("Floats", "", "list", "number") => Parses(c, v)
  <2> SUFFICES ASSUME c = Cell("Floats", "", "list", "number") PROVE Parses(c, v)
    OBVIOUS
  <2>1. /\ c.wire.kind = "list" /\ c.wire.elem = "number" /\ c.parser = "Floats"
        /\ Parser(c) = "Floats"
    BY DEF Cell, Shape, Parser
  <2>2. v[1] = "list" /\ (Len(v) > 1 => v[2] \in {"integer", "huge", "fraction"})
    BY <1>0, <2>1, ListMatch, KindsArePlain
  <2>3. Holds(v, <<"list">>, {"integer", "huge", "fraction"})
    BY <1>0, <2>2, HoldsList
  <2> QED
    BY <2>1, <2>3 DEF Parses
<1>15. c = Cell("Timestamps", "", "list", "string") => Parses(c, v)
  <2> SUFFICES ASSUME c = Cell("Timestamps", "", "list", "string") PROVE Parses(c, v)
    OBVIOUS
  <2>1. /\ c.wire.kind = "list" /\ c.wire.elem = "string" /\ c.parser = "Timestamps"
        /\ Parser(c) = "Timestamps"
    BY DEF Cell, Shape, Parser
  <2>2. v[1] = "list" /\ (Len(v) > 1 => v[2] \in {"instant"})
    BY <1>0, <2>1, ListMatch, KindsArePlain DEF Skipped, Timed, Format
  <2>3. Holds(v, <<"list">>, {"instant"})
    BY <1>0, <2>2, HoldsList
  <2> QED
    BY <2>1, <2>3 DEF Parses
<1>16. c = Cell("Rels", "", "list", "string") => Parses(c, v)
  <2> SUFFICES ASSUME c = Cell("Rels", "", "list", "string") PROVE Parses(c, v)
    OBVIOUS
  <2>1. /\ c.wire.kind = "list" /\ c.wire.elem = "string" /\ c.parser = "Rels"
        /\ Parser(c) = "Rels"
    BY DEF Cell, Shape, Parser
  <2>2. v[1] = "list" /\ (Len(v) > 1 => v[2] \in Texts \ {"blank"})
    BY <1>0, <2>1, ListMatch, KindsArePlain DEF Skipped, Timed
  <2>3. Holds(v, <<"list">>, Texts \ {"blank"})
    BY <1>0, <2>2, HoldsList
  <2> QED
    BY <2>1, <2>3 DEF Parses
<1>5. c = Cell("DeferredList", "", "list", "string") => Parses(c, v)
  <2> SUFFICES ASSUME c = Cell("DeferredList", "", "list", "string") PROVE Parses(c, v)
    OBVIOUS
  <2>1. /\ c.wire.kind = "list" /\ c.wire.elem = "string" /\ c.parser = "DeferredList"
        /\ Parser(c) = "DeferredList"
    BY DEF Cell, Shape, Parser
  <2>2. v[1] = "list" /\ (Len(v) > 1 => v[2] \in Texts)
    BY <1>0, <2>1, ListMatch, KindsArePlain
  <2>3. Holds(v, <<"list">>, Texts)
    BY <1>0, <2>2, HoldsList
  <2> QED
    BY <2>1, <2>3 DEF Parses
<1>6. ASSUME NEW s \in ScalarCells, c = Cell("ChildValues", s.parser, "list", s.wire.kind)
      PROVE  Parses(c, v)
  <2>1. /\ c.wire.kind = "list" /\ c.wire.elem = s.wire.kind /\ c.parser = "ChildValues"
        /\ c.elem = s.parser /\ Parser(c) = s.parser
    BY <1>6 DEF Cell, Shape, Parser
  <2>2. v[1] = "list" /\ (Len(v) > 1 => v[2] \in ScalarKinds(s.parser))
    <3>1. v[1] = "list"
      BY <2>1, ListMatch
    <3>3. CASE Len(v) > 1 /\ s.wire.kind = "any"
      <4>1. v[2] \in Deepest
        BY <3>3, ValuesAreShort
      <4> QED
        BY <3>1, <3>3, <4>1, ScalarParses
    <3>4. CASE Len(v) > 1 /\ s.wire.kind # "any"
      <4>1. v[2] \in KindsNamed(s.wire.kind)
        BY <2>1, <3>4, ListMatch
      <4> QED
        BY <1>0, <2>1, <3>1, <3>4, <4>1, ScalarParses
    <3> QED
      BY <3>1, <3>3, <3>4
  <2>3. Holds(v, <<"list">>, ScalarKinds(c.elem))
    BY <1>0, <2>1, <2>2, HoldsList
  <2> QED
    BY <2>1, <2>3 DEF Parses
<1>7. c = Cell("ChildRows", "", "items", "") => Parses(c, v)
  <2> SUFFICES ASSUME c = Cell("ChildRows", "", "items", "") PROVE Parses(c, v)
    OBVIOUS
  <2>1. c.wire.kind = "items" /\ c.parser = "ChildRows"
    BY DEF Cell, Shape
  <2>2. v[1] = "list" /\ (Len(v) > 1 => v[2] \in {"map"})
    BY <2>1, BlocksMatch
  <2>3. Holds(v, <<"list">>, {"map"})
    BY <1>0, <2>2, HoldsList
  <2> QED
    BY <2>1, <2>3 DEF Parses
<1>8. c = Cell("KeyedStrings", "", "map", "string") => Parses(c, v)
  <2> SUFFICES ASSUME c = Cell("KeyedStrings", "", "map", "string") PROVE Parses(c, v)
    OBVIOUS
  <2>1. c.wire.kind = "map" /\ c.wire.elem = "string" /\ c.parser = "KeyedStrings"
    BY DEF Cell, Shape
  <2>2. v[1] = "map" /\ (Len(v) > 1 => v[2] \in Texts \cup {"null"})
    BY <2>1, MapMatch, KindsArePlain
  <2>3. Holds(v, <<"map">>, Texts \cup {"null"})
    BY <1>0, <2>2, HoldsMap
  <2> QED
    BY <2>1, <2>3 DEF Parses
<1>9. c = Cell("KeyedChildRows", "", "map", "items") => Parses(c, v)
  <2> SUFFICES ASSUME c = Cell("KeyedChildRows", "", "map", "items") PROVE Parses(c, v)
    OBVIOUS
  <2>1. c.wire.kind = "map" /\ c.wire.elem = "items" /\ c.parser = "KeyedChildRows"
    BY DEF Cell, Shape
  <2>2. v[1] = "map" /\ (Len(v) > 1 => v[2] = "list") /\ (Len(v) > 2 => v[3] \in {"map"})
    BY <2>1, MapMatch
  <2>3. Holds(v, <<"map", "list">>, {"map"})
    BY <1>0, <2>2, HoldsMapOfLists
  <2> QED
    BY <2>1, <2>3 DEF Parses
<1>10. ASSUME NEW s \in ScalarCells, c = Cell("KeyedChildValues", s.parser, "map", "list")
       PROVE  Parses(c, v)
  <2>1. c.wire.kind = "map" /\ c.wire.elem = "list" /\ c.parser = "KeyedChildValues"
    BY <1>10 DEF Cell, Shape
  <2>2. v[1] = "map" /\ (Len(v) > 1 => v[2] = "list") /\ Len(v) <= 2
    BY <2>1, MapMatch, KindsArePlain
  <2>4. Len(v) > 2 => v[3] \in ScalarKinds(c.elem)
    BY <1>0, <2>2 DEF Sized
  <2>3. Holds(v, <<"map", "list">>, ScalarKinds(c.elem))
    BY <1>0, <2>2, <2>4, HoldsMapOfLists
  <2> QED
    BY <2>1, <2>3 DEF Parses
<1>11. c \in OtherCells => Parses(c, v)
  <2>0. \A p, e, k, m : Cell(p, e, k, m).parser = p
    BY DEF Cell
  <2>3. \A e, k, m : ~Cell("ReadOnly", e, k, m).writable
    BY DEF Cell
  <2>1. \A e, k, m : c # Cell("ReadOnly", e, k, m)
    BY <2>3
  <2>2. \A e, k, m : c = Cell("Deferred", e, k, m) => Parses(c, v)
    BY <2>0 DEF Parses
  <2> QED
    BY <2>1, <2>2, Zenon DEF OtherCells
<1>12. c \in ListCells => Parses(c, v)
  BY <1>3, <1>4, <1>5, <1>6, <1>7, <1>14, <1>15, <1>16 DEF ListCells
<1>13. c \in MapCells => Parses(c, v)
  BY <1>8, <1>9, <1>10 DEF MapCells
<1> QED
  BY <1>1, <1>2, <1>11, <1>12, <1>13 DEF WritableCells

LEMMA ShapedEntries ==
    ASSUME Typed, Linted, ShapedDecl, public, NEW e \in Entries
    PROVE  /\ e.ui \in Fields /\ Shaped(e.ui) /\ LayerIsSound(e.ui[1]) /\ e.col \in AllCells
           /\ WritesAgree(e) /\ ShapesAgree(e) /\ BlocksAgree(e)
<1>1. PICK n \in DOMAIN decl : e \in {decl[n]} \cup {decl[n].items[m] : m \in DOMAIN decl[n].items}
  BY DEF Entries
<1>2. decl[n] \in EntrySet
  BY DEF Typed, TypeOK
<1>3. e.ui \in Fields /\ LayerIsSound(e.ui[1])
  BY EntriesAreSound, FirstIsGood DEF IsSound, LintedLayers
<1>4. CASE e = decl[n]
  <2>1. Shaped(e.ui) /\ e.col \in Cells
    BY <1>2, <1>4 DEF ShapedDecl, EntrySet
  <2>2. EntryIsSound(decl, e)
    BY <1>4 DEF Linted, Clean, LevelIsSound
  <2> QED
    BY <1>3, <2>1, <2>2, CellsAssumption DEF EntryIsSound
<1>5. ASSUME NEW m \in DOMAIN decl[n].items, e = decl[n].items[m]
      PROVE  /\ Shaped(e.ui) /\ e.col \in AllCells
             /\ WritesAgree(e) /\ ShapesAgree(e) /\ BlocksAgree(e)
  <2>1. decl[n].items \in Blocks /\ decl[n].items \in Seq(Elements)
    BY <1>2, DeclarationAssumption DEF EntrySet
  <2>2. e \in Elements
    BY <1>5, <2>1
  <2>3. Shaped(e.ui) /\ e.col \in AllCells
    BY <1>5, <2>1, <2>2, BlocksAssumption, CellsAssumption DEF Elements
  <2>4. EntryIsSound(decl[n].items, e)
    BY <1>5 DEF Linted, Clean, LevelIsSound
  <2> QED
    BY <2>3, <2>4 DEF EntryIsSound
<1> QED
  BY <1>1, <1>3, <1>4, <1>5

LEMMA LintIsEnough == Typed /\ Linted /\ ShapedDecl => SentIsParsed
<1> SUFFICES ASSUME Typed, Linted, ShapedDecl, public, NEW e \in Entries, ~IsReadonly(e.ui),
                    NEW v \in Values, Admits(e.ui, v), Told(e, v)
             PROVE  Parses(e.col, v)
  BY DEF SentIsParsed
<1> DEFINE f == e.ui
           w == WireKind(f)
<1>1. /\ f \in Fields /\ Shaped(f) /\ LayerIsSound(f[1]) /\ e.col \in AllCells
      /\ WritesAgree(e) /\ ShapesAgree(e) /\ BlocksAgree(e)
  BY ShapedEntries
<1>2. e.col.writable /\ Match(e.col.wire, w)
  BY <1>1 DEF WritesAgree, ShapesAgree
<1>3. \/ IsBlock(w, v)
      \/ IsBlockMap(w, v)
      \/ IsMapOf(w, v) /\ ~IsKeyedItems(f) /\ ~IsItems(f)
      \/ IsListOf(w, v) /\ ~IsKeyedItems(f) /\ ~IsItems(f)
      \/ IsScalarOf(w, v)
  BY <1>1, WireTells DEF Told
<1>4. ~IsKeyedItems(f) /\ ~IsItems(f) => Len(v) <= 2
  BY <1>1 DEF BlocksAgree, Told
<1>5. OfWire(w, v)
  BY <1>3, <1>4 DEF OfWire
<1>6. \A n \in DOMAIN v : v[n] \notin Skipped(Parser(e.col))
  BY DEF Told
<1> HIDE DEF f, w
<1> QED
  BY <1>1, <1>2, <1>5, <1>6, CellParses

\* With a clean lint nothing else a client may send is lost on the way to storage:
\* whatever the schema of an editable field admits its cell writes, for fields
\* wrapped to any depth, every constructor of cells and any blocks, but for what
\* Told names: where the lint does not look (decl/lint.go, ui/wire.go), and the
\* texts, integers and ids that cells skip though the schema has let them through
\* (adapter/erjet/column.go, array.go, rels.go).
THEOREM NothingIsLost == Spec => []SentIsParsed
BY TypedAlways, LintedAlways, ShapedAlways, LintIsEnough, PTL
===============================================================================
