------------------------------- MODULE MCHandler -------------------------------
(***************************************************************************)
(* The instance of Handler for TLC: an entity with a required title, a     *)
(* note that a final row must have and that is read-only once it is final, *)
(* a map by language, a cover (one file) and a gallery (several).          *)
(***************************************************************************)
EXTENDS Handler, TLC

CONSTANTS r1, r2, r3, i1, i2, x, y, draft, final, pic

CONSTANTS title, note, state, names, cover, gallery, rank, extra

MCKeyedMaps == UNION {[S -> {x, y, Null}] : S \in SUBSET {"en", "ru"}}
MCIdLists == {<<>>, <<pic>>}

MCSchema(data) ==
    [props |-> {title, note, state, names, cover, gallery, rank},
     readonly |-> {rank} \cup (IF data # Absent /\ data[state] = final THEN {note, cover} ELSE {}),
     widget |-> (names :> "keyed") @@ (cover :> "single") @@ (gallery :> "multi"),
     direct |-> TRUE]

\* Of the schema's own checks those the bodies can fail, and a rule between two
\* fields.
MCAdmits(s, d) ==
    /\ title \in DOMAIN d /\ d[title] # Null
    /\ state \in DOMAIN d /\ d[state] \in {draft, final}
    /\ d[state] = final => note \in DOMAIN d /\ d[note] # Null
    /\ names \in DOMAIN d => "en" \in DOMAIN d[names]
    /\ gallery \in DOMAIN d => d[gallery] \in {<<pic>>, <<pic, Upload(gallery, 1)>>}
                                 \cup {Uploads(gallery, gallery :> n) : n \in 0..2}

\* Validate decodes an uploaded cover, or leaves it to Save.
MCPrepares(in) ==
    {in} \cup IF cover \in DOMAIN in /\ in[cover] = Upload(cover, 1)
              THEN {[in EXCEPT ![cover] = pic]} ELSE {}

MCPut(in, row) == Overlay(MCSchema(Absent), row, in)
MCBlank == (state :> draft)
MCSeed == (title :> x) @@ (note :> x) @@ (names :> ("en" :> x))

Body(in, files) == [in |-> in, files |-> files]
NoFiles == <<>>

\* Bodies that create a row, change single fields, carry files, or must be
\* refused.
MCBodies == {Body((title :> y) @@ (rank :> y) @@ (extra :> y), NoFiles),
             Body((title :> y) @@ (state :> draft), NoFiles),
             Body(title :> Null, NoFiles),
             Body(state :> final, NoFiles),
             Body(note :> Null, NoFiles),
             Body((title :> y) @@ (names :> ("ru" :> y)), NoFiles),
             Body((title :> y) @@ (names :> ("en" :> y)), cover :> 1),
             Body((title :> x) @@ (gallery :> <<pic>>), (gallery :> 1) @@ (cover :> 1)),
             Body(title :> x, gallery :> 2),
             Body(title :> x, gallery :> 3),
             Body(title :> x, cover :> 2),
             Body(title :> x, rank :> 1)}

\* Two fields that the rule ties together.
MCTied == {Body(state :> final, NoFiles), Body(note :> Null, NoFiles)}
===============================================================================
