------------------------------- MODULE WriteBody -------------------------------
(***************************************************************************)
(* What the engine does to the body of a create or an update between       *)
(* decoding it and Entity.Save: the operators of package validate          *)
(* (readonly.go, unknown.go, media.go, write.go) and the injection of      *)
(* uploads in Handler.write.                                               *)
(*                                                                         *)
(* A body is a function from the names it carries to values, its files a   *)
(* function from names to the number of parts sent for them.  The schema   *)
(* of an entity, with its uiSchema, is a record:                           *)
(*   props     the names declared under properties                         *)
(*   readonly  the names whose entry says ui:readonly                      *)
(*   widget    "keyed", "single" or "multi" for the names whose ui:field   *)
(*             is keyed, or media with one file or several                 *)
(*   direct    there is no combinator at the root of the schema            *)
(***************************************************************************)
EXTENDS Naturals, Sequences, Overriding

CONSTANTS Null,         \* JSON null
          Absent,       \* no data: the create form
          KeyedMaps,    \* the values that are JSON objects
          IdLists,      \* the values that are JSON arrays
          Policy,       \* "allow", "reject" or "strip": unknown keys
          Admits(_, _)  \* Admits(s, data): the JSON schema of s accepts data

\* The read-only keys are cut first of all.
StripReadonly(s, in) == [f \in DOMAIN in \ s.readonly |-> in[f]]

UnknownKeys(s, in) == DOMAIN in \ s.props
StripUnknown(s, in) == IF Policy = "strip" THEN [f \in DOMAIN in \cap s.props |-> in[f]] ELSE in

\* Fault: a read-only media field takes files.
MediaFieldKindAnyway(s, f) == IF f \notin DOMAIN s.widget \/ s.widget[f] = "keyed"
                              THEN "none" ELSE s.widget[f]

\* A read-only field takes no files: they are injected after StripReadonly.
MediaFieldKind(s, f) ==
    IF f \in s.readonly \/ f \notin DOMAIN s.widget \/ s.widget[f] = "keyed"
    THEN "none" ELSE s.widget[f]

\* The fields whose files go on: one for a single field, any number for a multi.
\* Files for any other are an error.
Accepted(s, files) == {f \in DOMAIN files : \/ MediaFieldKind(s, f) = "multi"
                                            \/ MediaFieldKind(s, f) = "single" /\ files[f] = 1}
Stray(s, files) == DOMAIN files \ Accepted(s, files)

\* A pending upload: the marker the validator sees and the Upload Save gets.
Upload(f, k) == [file |-> f, part |-> k]
Uploads(f, files) == [k \in 1..files[f] |-> Upload(f, k)]
AsList(in, f) == IF f \in DOMAIN in /\ in[f] \in IdLists THEN in[f] ELSE <<>>

\* Fault: the files take the place of the list they were added to.
InjectReplacing(s, in, files) ==
    Over([f \in Accepted(s, files) |->
              IF MediaFieldKind(s, f) = "single" THEN Upload(f, 1) ELSE Uploads(f, files)], in)

\* Handler.write: a single upload becomes the value, several go to the tail of
\* the list of the body, after validation.
Inject(s, in, files) ==
    Over([f \in Accepted(s, files) |->
              IF MediaFieldKind(s, f) = "single" THEN Upload(f, 1)
              ELSE AsList(in, f) \o Uploads(f, files)], in)

Loaded(current) == IF current = Absent THEN <<>> ELSE current

\* The row as it would be: the submitted keys over the loaded ones, a keyed map
\* merged key by key.
Overlay(s, current, in) ==
    LET old == Loaded(current)
        merges(f) == /\ f \in DOMAIN s.widget /\ s.widget[f] = "keyed"
                     /\ f \in DOMAIN old /\ old[f] \in KeyedMaps /\ in[f] \in KeyedMaps
    IN Over([f \in DOMAIN in |-> IF merges(f) THEN Over(in[f], old[f]) ELSE in[f]], old)

\* Fault: the schema is not asked about the files.
EffectiveWithoutFiles(s, current, in, files) == Overlay(s, current, in)

\* validate.Write: what the schema is asked about.  A value of a multi field
\* that is neither a list nor null is shown to it as it is.
Effective(s, current, in, files) ==
    Over([f \in Accepted(s, files) |->
              IF MediaFieldKind(s, f) = "single" THEN Upload(f, 1)
              ELSE IF f \in DOMAIN in /\ in[f] \notin IdLists \cup {Null} THEN in[f]
              ELSE AsList(in, f) \o Uploads(f, files)],
         Overlay(s, current, in))

\* It refuses to judge uploads to a field it cannot widen the schema for.
CannotJudge(s, files) == /\ Accepted(s, files) # {}
                         /\ ~s.direct \/ ~(Accepted(s, files) \subseteq s.props)
===============================================================================
