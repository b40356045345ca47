---------------------------- MODULE Handler_proofs ----------------------------
(***************************************************************************)
(* Theorems about the engine, for any number of requests, rows and fields  *)
(* and any schema.                                                         *)
(*                                                                         *)
(* One invariant carries them.  Ordered says what a request has done by    *)
(* the time it is at a stage; Judged, that what Validate was handed is     *)
(* still the injection of the uploads into the body that was checked, and  *)
(* what Save was given is what Validate made of it.                        *)
(***************************************************************************)
EXTENDS Handler, TLAPS

\* The stages before a call of Save or Delete.
Unsaved == {"idle", "form", "load", "decode", "drain", "payload", "parts", "check", "validate",
            "delete"}

\* The stages of decodeBody.
Reading == {"decode", "drain", "payload", "parts"}
Decoding(r) == Decode(r) \/ Drain(r) \/ Payload(r) \/ Parts(r)

\* What the stage of a request says of its verb, its call and its response.
Ordered(r) ==
    /\ pc[r] \in Unsaved => call[r] = None
    /\ call[r] = None => answer[r] = None
    /\ pc[r] = "form" => Verb(r) = "schema"
    /\ pc[r] = "load" => Verb(r) \in {"load", "update", "delete"} /\ req[r].id \in Ids
    /\ pc[r] \in Reading \cup {"check", "validate", "save", "reload"}
           => Verb(r) \in {"create", "update"}
    /\ pc[r] \in {"delete", "deleting"} => Verb(r) = "delete"
    /\ pc[r] = "envelope" => \/ Verb(r) = "load" /\ call[r] = None
                             \/ Verb(r) \in {"create", "update"} /\ answer[r] = "ok"
    /\ pc[r] = "reload" => answer[r] = "ok"
    /\ pc[r] = "done" /\ call[r] # None => answer[r] # None
    /\ status[r] # None => pc[r] = "done"

\* Validate has what was checked, with the files in it, and Save what Validate has
\* made of it.
Handed(r) == pc[r] = "validate" \/ r \in Saves
Judged(r) ==
    /\ given[r].in = Inject(SchemaOf(r), Checked(r), req[r].files)
    /\ given[r].clean => Valid(r)
    /\ ~CannotJudge(SchemaOf(r), req[r].files)
    /\ r \in Saves => given[r].clean /\ call[r].in \in Prepares(given[r].in)

\* A request that has a form on disk is between the parsing of it and the response.
FormsInUse == \A r \in temp : pc[r] \notin {"idle", "load", "decode", "done"}

Inv == /\ TypeOK
       /\ \A r \in Requests : Ordered(r)
       /\ StatusTellsTheTruth
       /\ FormsInUse

-------------------------------------------------------------------------------
LEMMA InitTypeOK == Init => TypeOK
  BY DEF Init, Store!Init, TypeOK, Stage

\* decodeBody fills in the body and the files, the request stays what it was.
LEMMA TakeKeepsRequest ==
    ASSUME TypeOK, NEW r \in Requests, pc[r] # "idle", NEW b, Take(r, b)
    PROVE  /\ DOMAIN req' = Requests
           /\ \A q \in Requests \ {r} : req'[q] = req[q]
           /\ DOMAIN req'[r] = DOMAIN req[r]
           /\ req'[r].verb = req[r].verb /\ req'[r].id = req[r].id
           /\ req'[r].in = b.in /\ req'[r].files = b.files
<1>1. req'[r] = [req[r] EXCEPT !.in = b.in, !.files = b.files]
  BY DEF TypeOK, Take
<1>2. DOMAIN req[r] = {"verb", "id", "in", "files"}
  BY DEF TypeOK
<1> QED
  BY <1>1, <1>2 DEF TypeOK, Take

LEMMA DecodeKeepsRequest ==
    ASSUME TypeOK, NEW r \in Requests, Decoding(r)
    PROVE  /\ pc[r] \in Reading
           /\ DOMAIN req' = Requests
           /\ \A q \in Requests \ {r} : req'[q] = req[q]
           /\ DOMAIN req'[r] = DOMAIN req[r]
           /\ req'[r].verb = req[r].verb /\ req'[r].id = req[r].id
           /\ temp' \cup {r} = temp \cup {r}
           /\ UNCHANGED <<rows, call, answer, current, given, shown>>
           /\ \/ /\ \E l \in {"drain", "payload", "parts", "check"} : Goto(r, l)
                 /\ UNCHANGED status
              \/ /\ Goto(r, "done") /\ \E s \in {400, 413} : status' = [status EXCEPT ![r] = s]
                 /\ r \notin temp' \/ (pc[r] = "decode" /\ temp' = temp)
<1>1. pc[r] \in Reading /\ UNCHANGED stored
  BY DEF Decoding, Decode, Drain, Payload, Parts, Reading
<1>2. \/ \E s \in {400, 413} : Abandon(r, s) \/ (pc[r] = "decode" /\ Reject(r, s))
      \/ \E b \in Bodies : Take(r, b)
      \/ /\ temp' \in {temp, temp \cup {r}}
         /\ \E l \in {"drain", "payload", "parts"} : Goto(r, l)
         /\ UNCHANGED <<req, current, given, shown, status>>
  <2>1. CASE Decode(r)
    BY <2>1 DEF Decode, Goto
  <2>2. CASE Drain(r)
    BY <2>2 DEF Drain, Goto
  <2>3. CASE Payload(r)
    BY <2>3 DEF Payload, Goto
  <2>4. CASE Parts(r)
    BY <2>4 DEF Parts
  <2> QED
    BY <2>1, <2>2, <2>3, <2>4 DEF Decoding
<1>3. ASSUME NEW s \in {400, 413}, Abandon(r, s) \/ (pc[r] = "decode" /\ Reject(r, s))
      PROVE  /\ Goto(r, "done") /\ status' = [status EXCEPT ![r] = s]
             /\ r \notin temp' \/ (pc[r] = "decode" /\ temp' = temp)
             /\ temp' \cup {r} = temp \cup {r}
             /\ UNCHANGED <<req, current, given, shown>>
  BY <1>3 DEF Abandon, Reject, Answered
<1>4. ASSUME NEW b \in Bodies, Take(r, b)
      PROVE  Goto(r, "check") /\ UNCHANGED <<current, given, shown, status, temp>>
  BY <1>4 DEF Take
<1>5. pc[r] # "idle"
  BY <1>1 DEF Reading
<1> QED
  BY <1>1, <1>2, <1>3, <1>4, <1>5, TakeKeepsRequest DEF TypeOK, stored

LEMMA NextTypeOK == TypeOK /\ [Next]_vars => TypeOK'
<1> SUFFICES ASSUME TypeOK, [Next]_vars PROVE TypeOK'
  OBVIOUS
<1> USE DEF TypeOK, Verb, Goto, Respond, Answered, stored
<1>1. ASSUME NEW r \in Requests, Arrive(r) PROVE TypeOK'
  BY <1>1 DEF Arrive, Stage, Verbs
<1>2. ASSUME NEW r \in Requests, Form(r) PROVE TypeOK'
  BY <1>2 DEF Form, Stage
<1>3. ASSUME NEW r \in Requests, LoadRow(r) PROVE TypeOK'
  BY <1>3 DEF LoadRow, Stage
<1>4. ASSUME NEW r \in Requests, Decoding(r) PROVE TypeOK'
  BY <1>4, DecodeKeepsRequest DEF Stage, Reading
<1>5. ASSUME NEW r \in Requests, Check(r) \/ Validate(r) PROVE TypeOK'
  BY <1>5 DEF Check, Validate, Stage
<1>6. ASSUME NEW r \in Requests, Storage(r) PROVE TypeOK'
  BY <1>6 DEF Storage, Store!SaveCreate, Store!SaveUpdate, Store!SaveNotFound,
              Store!Remove, Store!Refuse, Store!Answer
<1>7. ASSUME NEW r \in Requests, Saved(r) PROVE TypeOK'
  BY <1>7 DEF Saved, Stage
<1>8. ASSUME NEW r \in Requests, Reload(r) PROVE TypeOK'
  BY <1>8 DEF Reload, Stage
<1>9. ASSUME NEW r \in Requests, Envelope(r) PROVE TypeOK'
  BY <1>9 DEF Envelope, Stage
<1>10. ASSUME NEW r \in Requests, CallDelete(r) PROVE TypeOK'
  BY <1>10 DEF CallDelete, Stage
<1>11. ASSUME NEW r \in Requests, Deleted(r) PROVE TypeOK'
  BY <1>11 DEF Deleted, Stage
<1>12. CASE UNCHANGED vars
  BY <1>12 DEF vars
<1> QED
  BY <1>1, <1>2, <1>3, <1>4, <1>5, <1>6, <1>7, <1>8, <1>9, <1>10, <1>11, <1>12
     DEF Next, Step, Decoding, Finished

\* A step of r is no step of q.
Same(q) == /\ pc'[q] = pc[q] /\ req'[q] = req[q] /\ status'[q] = status[q]
           /\ call'[q] = call[q] /\ answer'[q] = answer[q]
           /\ current'[q] = current[q] /\ given'[q] = given[q]
           /\ q \in temp' <=> q \in temp

LEMMA OneStepsOthersStay ==
    ASSUME TypeOK, NEW r \in Requests, Arrive(r) \/ Step(r),
           NEW q \in Requests, q # r
    PROVE  Same(q)
<1> USE DEF TypeOK, Goto, Respond, Answered, stored, Same
<1>1. CASE Arrive(r)
  BY <1>1 DEF Arrive
<1>2. CASE Form(r) \/ LoadRow(r)
  BY <1>2 DEF Form, LoadRow
<1>3. CASE Decoding(r)
  BY <1>3, DecodeKeepsRequest DEF Reading
<1>4. CASE Check(r) \/ Validate(r)
  BY <1>4 DEF Check, Validate
<1>5. CASE Storage(r)
  BY <1>5 DEF Storage, Store!SaveCreate, Store!SaveUpdate, Store!SaveNotFound,
              Store!Remove, Store!Refuse, Store!Answer
<1>6. CASE Saved(r) \/ Reload(r) \/ Envelope(r)
  BY <1>6 DEF Saved, Reload, Envelope
<1>7. CASE CallDelete(r) \/ Deleted(r)
  BY <1>7 DEF CallDelete, Deleted
<1> QED
  BY <1>1, <1>2, <1>3, <1>4, <1>5, <1>6, <1>7 DEF Step, Decoding

LEMMA InitOrdered == Init => \A r \in Requests : Ordered(r)
  BY DEF Init, Store!Init, Ordered, Unsaved, Reading

LEMMA OrderedStep ==
    ASSUME TypeOK, NEW r \in Requests, Ordered(r), Arrive(r) \/ Step(r)
    PROVE  Ordered(r)'
<1> USE DEF TypeOK, Ordered, Unsaved, Reading, Goto, Respond, Answered, stored, Verb
<1>1. CASE Arrive(r)
  BY <1>1 DEF Arrive, Verbs
<1>2. CASE Form(r)
  BY <1>2 DEF Form
<1>3. CASE LoadRow(r)
  BY <1>3 DEF LoadRow
<1>4. CASE Decoding(r)
  BY <1>4, DecodeKeepsRequest
<1>5. CASE Check(r) \/ Validate(r)
  BY <1>5 DEF Check, Validate
<1>6. CASE Storage(r)
  BY <1>6, NoneIsNoAnswer
     DEF Storage, Store!SaveCreate, Store!SaveUpdate, Store!SaveNotFound,
         Store!Remove, Store!Refuse, Store!Answer, Store!Pending
<1>7. CASE Saved(r)
  BY <1>7 DEF Saved
<1>8. CASE Reload(r) \/ Envelope(r)
  BY <1>8, NoneIsNoAnswer DEF Reload, Envelope
<1>9. CASE CallDelete(r)
  BY <1>9 DEF CallDelete
<1>10. CASE Deleted(r)
  BY <1>10 DEF Deleted
<1> QED
  BY <1>1, <1>2, <1>3, <1>4, <1>5, <1>6, <1>7, <1>8, <1>9, <1>10 DEF Step, Decoding

LEMMA NextOrdered == TypeOK /\ (\A r \in Requests : Ordered(r)) /\ [Next]_vars
                        => \A r \in Requests : Ordered(r)'
<1> SUFFICES ASSUME TypeOK, \A r \in Requests : Ordered(r), [Next]_vars,
                    NEW q \in Requests
             PROVE  Ordered(q)'
  OBVIOUS
<1>1. ASSUME NEW r \in Requests, Arrive(r) \/ Step(r) PROVE Ordered(q)'
  <2>1. CASE q = r
    BY <1>1, <2>1, OrderedStep
  <2>2. CASE q # r
    <3>1. Same(q)
      BY <1>1, <2>2, OneStepsOthersStay
    <3> QED
      BY <3>1 DEF Same, Ordered, Verb
  <2> QED
    BY <2>1, <2>2
<1>2. CASE UNCHANGED vars
  BY <1>2 DEF vars, Ordered, Verb
<1> QED
  BY <1>1, <1>2 DEF Next, Finished
-------------------------------------------------------------------------------
LEMMA NextTruthful == Inv /\ [Next]_vars => StatusTellsTheTruth'
<1> SUFFICES ASSUME Inv, [Next]_vars, NEW q \in Requests
             PROVE  /\ status'[q] \in {201, 204} \/ (status'[q] = 200 /\ Verb(q)' = "update")
                          => answer'[q] = "ok"
                    /\ status'[q] \in 400..499 => answer'[q] # "ok"
  BY DEF StatusTellsTheTruth
<1> USE NoneIsNoAnswer DEF Inv, TypeOK, Ordered, Unsaved, Reading, StatusTellsTheTruth, Goto,
        Respond, Answered, stored, Verb
<1>1. CASE Arrive(q)
  <2>1. answer'[q] = None
    BY <1>1 DEF Arrive
  <2>2. status'[q] \in {None, 400, 405}
    <3>1. status[q] = None
      BY <1>1 DEF Arrive
    <3>2. CASE status' = status
      BY <3>1, <3>2
    <3>3. CASE \E s \in {400, 405} : status' = [status EXCEPT ![q] = s]
      BY <3>3
    <3> QED
      BY <1>1, <3>2, <3>3 DEF Arrive
  <2> QED
    BY <2>1, <2>2
<1>2. CASE Form(q)
  BY <1>2 DEF Form
<1>3. CASE LoadRow(q)
  BY <1>3 DEF LoadRow
<1>4. CASE Decoding(q)
  BY <1>4, DecodeKeepsRequest
<1>5. CASE Check(q) \/ Validate(q)
  BY <1>5 DEF Check, Validate
<1>6. CASE Storage(q)
  BY <1>6 DEF Storage, Store!SaveCreate, Store!SaveUpdate, Store!SaveNotFound,
              Store!Remove, Store!Refuse, Store!Answer, Store!Pending
<1>7. CASE Saved(q)
  BY <1>7 DEF Saved
<1>8. CASE Reload(q)
  BY <1>8 DEF Reload
<1>9. CASE Envelope(q)
  BY <1>9 DEF Envelope
<1>10. CASE CallDelete(q)
  BY <1>10 DEF CallDelete
<1>11. CASE Deleted(q)
  BY <1>11 DEF Deleted
<1>12. ASSUME NEW r \in Requests, r # q, Arrive(r) \/ Step(r)
       PROVE  Same(q)
  BY <1>12, OneStepsOthersStay
<1>13. CASE UNCHANGED vars
  BY <1>13 DEF vars
<1>14. CASE Same(q)
  BY <1>14 DEF Same
<1> QED
  BY <1>1, <1>2, <1>3, <1>4, <1>5, <1>6, <1>7, <1>8, <1>9, <1>10, <1>11, <1>12, <1>13, <1>14
     DEF Next, Step, Decoding, Finished

LEMMA NextFormsInUse == Inv /\ [Next]_vars => FormsInUse'
<1> SUFFICES ASSUME Inv, [Next]_vars, NEW q \in Requests, q \in temp'
             PROVE  pc'[q] \notin {"idle", "load", "decode", "done"}
  BY NextTypeOK DEF Inv, FormsInUse, TypeOK
<1> USE DEF Inv, TypeOK, FormsInUse, Goto, Respond, Answered, stored
<1>1. CASE Arrive(q)
  BY <1>1 DEF Arrive
<1>2. CASE Form(q) \/ LoadRow(q)
  BY <1>2 DEF Form, LoadRow
<1>3. CASE Decoding(q)
  BY <1>3, DecodeKeepsRequest
<1>4. CASE Check(q) \/ Validate(q)
  BY <1>4 DEF Check, Validate
<1>5. CASE Storage(q)
  BY <1>5 DEF Storage
<1>6. CASE Saved(q) \/ Reload(q) \/ Envelope(q)
  BY <1>6 DEF Saved, Reload, Envelope
<1>7. CASE CallDelete(q) \/ Deleted(q)
  BY <1>7 DEF CallDelete, Deleted
<1>8. ASSUME NEW r \in Requests, r # q, Arrive(r) \/ Step(r)
      PROVE  Same(q)
  BY <1>8, OneStepsOthersStay
<1>9. CASE Same(q)
  BY <1>9 DEF Same
<1>10. CASE UNCHANGED vars
  BY <1>10 DEF vars
<1> QED
  BY <1>1, <1>2, <1>3, <1>4, <1>5, <1>6, <1>7, <1>8, <1>9, <1>10
     DEF Next, Step, Decoding, Finished

LEMMA Invariance == Spec => []Inv
<1>1. Init => Inv
  BY InitTypeOK, InitOrdered, NoneIsNoAnswer
     DEF Inv, Init, StatusTellsTheTruth, FormsInUse
<1>2. Inv /\ [Next]_vars => Inv'
  BY NextTypeOK, NextOrdered, NextTruthful, NextFormsInUse DEF Inv
<1> QED
  BY <1>1, <1>2, PTL DEF Spec

\* The engine's state keeps its types: every request is at one of its stages, and
\* every response is one of the statuses that the code can write.
THEOREM TypeCorrect == Spec => []TypeOK
<1>1. Inv => TypeOK
  BY DEF Inv
<1> QED
  BY <1>1, Invariance, PTL

\* Whatever the storage answers and however requests overlap, a success is only
\* told of a write that happened and a refusal only of one that did not.
THEOREM StatusIsTrue == Spec => []StatusTellsTheTruth
<1>1. Inv => StatusTellsTheTruth
  BY DEF Inv
<1> QED
  BY <1>1, Invariance, PTL

\* No path out of decodeBody or of a handler leaves the files of a multipart form on
\* disk.
THEOREM FilesAreRemoved == Spec => []NoFilesLeftBehind
<1>1. Inv => NoFilesLeftBehind
  BY DEF Inv, FormsInUse, NoFilesLeftBehind
<1> QED
  BY <1>1, Invariance, PTL
-------------------------------------------------------------------------------
(* What Validate is handed.  First what Inject makes of a body that was cut. *)

Cut(s, in) == StripUnknown(s, StripReadonly(s, in))

LEMMA InjectNothingReadonly ==
    ASSUME NEW s, NEW in, NEW files
    PROVE  DOMAIN Inject(s, Cut(s, in), files) \cap s.readonly = {}
<1>1. DOMAIN Cut(s, in) \cap s.readonly = {}
  BY DEF Cut, StripUnknown, StripReadonly
<1>2. Accepted(s, files) \cap s.readonly = {}
  BY DEF Accepted, MediaFieldKind
<1> QED
  BY <1>1, <1>2 DEF Inject, Over

LEMMA InjectOnlyBody ==
    ASSUME NEW s, NEW in, NEW files, NEW f \in DOMAIN Inject(s, Cut(s, in), files)
    PROVE  \/ f \in DOMAIN files
           \/ f \in DOMAIN in /\ Inject(s, Cut(s, in), files)[f] = in[f]
<1>1. Accepted(s, files) \subseteq DOMAIN files
  BY DEF Accepted
<1>2. CASE f \notin Accepted(s, files)
  <2>1. f \in DOMAIN Cut(s, in) /\ Inject(s, Cut(s, in), files)[f] = Cut(s, in)[f]
    BY <1>2 DEF Inject, Over
  <2> QED
    BY <2>1 DEF Cut, StripUnknown, StripReadonly
<1> QED
  BY <1>1, <1>2

LEMMA InjectAllFiles ==
    ASSUME NEW s, NEW in, NEW files, Stray(s, files) = {}, ~CannotJudge(s, files),
           NEW f \in DOMAIN files
    PROVE  /\ f \in DOMAIN Inject(s, Cut(s, in), files)
           /\ Inject(s, Cut(s, in), files)[f] =
                 IF s.widget[f] = "single" /\ files[f] = 1
                 THEN Upload(f, 1) ELSE AsList(in, f) \o Uploads(f, files)
<1>1. f \in Accepted(s, files)
  BY DEF Stray
<1>2. /\ f \notin s.readonly /\ f \in s.props /\ s.widget[f] = MediaFieldKind(s, f)
      /\ (s.widget[f] = "single" /\ files[f] = 1) \/ s.widget[f] = "multi"
  BY <1>1 DEF Accepted, CannotJudge, MediaFieldKind
<1>3. AsList(Cut(s, in), f) = AsList(in, f)
  BY <1>2 DEF AsList, Cut, StripUnknown, StripReadonly
<1> QED
  BY <1>1, <1>2, <1>3 DEF Inject, Over

\* What the schema is asked about is the row as Save will leave it, unless a
\* multi field holds something that is no list.
LEMMA EffectiveIsOverlay ==
    ASSUME NEW s, NEW row, NEW in, NEW files,
           \A f \in Accepted(s, files) \cap DOMAIN in :
               MediaFieldKind(s, f) = "multi" => in[f] \in IdLists \cup {Null}
    PROVE  Effective(s, row, in, files) = Overlay(s, row, Inject(s, in, files))
<1> DEFINE E == Effective(s, row, in, files)
           O == Overlay(s, row, Inject(s, in, files))
           A == Accepted(s, files)
<1>1. DOMAIN Inject(s, in, files) = A \cup DOMAIN in
  BY DEF Inject, Over
<1>2. DOMAIN E = DOMAIN O
  BY <1>1 DEF Effective, Overlay, Over
<1>3. ASSUME NEW f \in DOMAIN E PROVE E[f] = O[f]
  <2>1. CASE f \in A
    <3>1. /\ MediaFieldKind(s, f) \in {"single", "multi"}
          /\ f \in DOMAIN s.widget /\ s.widget[f] # "keyed"
      BY <2>1 DEF Accepted, MediaFieldKind
    <3>2. O[f] = Inject(s, in, files)[f]
      BY <1>1, <2>1, <3>1 DEF Overlay, Over
    <3>3. E[f] = Inject(s, in, files)[f]
      BY <2>1, <3>1 DEF Effective, Inject, Over
    <3> QED
      BY <3>2, <3>3
  <2>2. CASE f \notin A
    <3>1. E[f] = Overlay(s, row, in)[f]
      BY <2>2 DEF Effective, Over
    <3>2. f \in DOMAIN in => Inject(s, in, files)[f] = in[f]
      BY <2>2 DEF Inject, Over
    <3> QED
      BY <1>1, <1>2, <2>2, <3>1, <3>2 DEF Effective, Overlay, Over
  <2> QED
    BY <2>1, <2>2
<1> QED
  BY <1>2, <1>3 DEF Effective, Overlay, Over
-------------------------------------------------------------------------------
AllJudged == \A r \in Requests : Handed(r) => Judged(r)

LEMMA NextJudged == Inv /\ AllJudged /\ [Next]_vars => AllJudged'
<1> SUFFICES ASSUME Inv, AllJudged, [Next]_vars, NEW q \in Requests, Handed(q)'
             PROVE  Judged(q)'
  BY DEF AllJudged
<1>1. ASSUME UNCHANGED <<call[q], current[q], req[q], given[q]>>, Handed(q)
      PROVE  Judged(q)'
  BY <1>1 DEF AllJudged, Judged, Handed, Saves, SchemaOf, Checked, Stripped, Valid
<1>2. CASE (Arrive(q) \/ Form(q) \/ LoadRow(q) \/ Decoding(q))
  <2>1. pc[q] \in Unsaved /\ call' = call /\ pc'[q] # "validate"
    <3>1. CASE Decoding(q)
      BY <3>1, DecodeKeepsRequest DEF Inv, TypeOK, Reading, Unsaved, Goto
    <3> QED
      BY <1>2, <3>1 DEF Arrive, Form, LoadRow, stored, Unsaved, Inv, TypeOK, Goto, Respond,
                        Answered, Verb
  <2> QED
    BY <2>1 DEF Inv, Ordered, Handed, Saves
<1>3. CASE Check(q)
  <2>1. call' = call /\ call[q] = None /\ req' = req /\ current' = current
    BY <1>3 DEF Check, stored, Respond, Answered, Inv, Ordered, Unsaved
  <2>2. pc'[q] = "validate"
    BY <2>1 DEF Handed, Saves
  <2>3. /\ ~CannotJudge(SchemaOf(q), req[q].files)
        /\ given' = [given EXCEPT ![q] =
                [in |-> Inject(SchemaOf(q), Checked(q), req[q].files), clean |-> Valid(q)]]
    BY <1>3, <2>2 DEF Check, Respond, Answered, Goto, Inv, TypeOK
  <2>4. given'[q] = [in |-> Inject(SchemaOf(q), Checked(q), req[q].files), clean |-> Valid(q)]
    BY <2>3 DEF Inv, TypeOK
  <2>5. q \notin Saves'
    BY <2>1 DEF Saves
  <2> QED
    BY <2>1, <2>3, <2>4, <2>5 DEF Judged, SchemaOf, Checked, Stripped, Valid
<1>4. CASE Validate(q)
  <2>1. pc[q] = "validate" /\ UNCHANGED <<given, req, current>>
    BY <1>4 DEF Validate, Respond, Answered
  <2>2. Handed(q) /\ call[q] = None
    BY <2>1 DEF Handed, Inv, Ordered, Unsaved
  <2>3. CASE call' = call
    BY <1>1, <2>1, <2>2, <2>3
  <2>4. CASE call' # call
    <3>1. /\ given[q].clean
          /\ \E i \in IF Verb(q) = "create" THEN Ids \ Store!Used ELSE {req[q].id},
                out \in Prepares(given[q].in) :
               call' = [call EXCEPT ![q] = [op |-> Verb(q), id |-> i, in |-> out]]
      BY <1>4, <2>4 DEF Validate, stored
    <3>2. call'[q].in \in Prepares(given[q].in)
      BY <3>1 DEF Inv, TypeOK
    <3> QED
      BY <2>1, <2>2, <3>1, <3>2
         DEF AllJudged, Judged, SchemaOf, Checked, Stripped, Valid
  <2> QED
    BY <2>3, <2>4
<1>5. CASE CallDelete(q)
  <2>1. pc'[q] = "deleting" /\ call'[q].op = "delete"
    BY <1>5 DEF CallDelete, Store!Delete, Goto, Inv, TypeOK
  <2> QED
    BY <2>1 DEF Handed, Saves
<1>6. CASE Storage(q) \/ Saved(q) \/ Reload(q) \/ Envelope(q) \/ Deleted(q)
  <2>1. UNCHANGED <<call, current, req, given>>
    BY <1>6 DEF Storage, Saved, Reload, Envelope, Deleted, Respond, Answered, stored,
                Store!SaveCreate, Store!SaveUpdate, Store!SaveNotFound, Store!Remove,
                Store!Refuse, Store!Answer
  <2>2. pc'[q] = pc[q] \/ pc'[q] # "validate"
    BY <1>6 DEF Storage, Saved, Reload, Envelope, Deleted, Respond, Answered, Goto, Inv, TypeOK
  <2> QED
    BY <1>1, <2>1, <2>2 DEF Handed, Saves
<1>7. ASSUME NEW r \in Requests, r # q, Arrive(r) \/ Step(r)
      PROVE  Judged(q)'
  <2>1. Same(q)
    BY <1>7, OneStepsOthersStay DEF Inv
  <2> QED
    BY <1>1, <2>1 DEF Same, Handed, Saves
<1>8. CASE UNCHANGED vars
  BY <1>1, <1>8 DEF vars, Handed, Saves
<1> QED
  BY <1>2, <1>3, <1>4, <1>5, <1>6, <1>7, <1>8 DEF Next, Step, Decoding, Finished

LEMMA SavesAreJudged == Spec => []AllJudged
<1>1. Init => AllJudged
  BY DEF Init, Store!Init, AllJudged, Handed, Saves
<1>2. Inv /\ AllJudged /\ [Next]_vars => AllJudged'
  BY NextJudged
<1> QED
  BY <1>1, <1>2, Invariance, PTL DEF Spec

LEMMA SavesOfJudged ==
    ASSUME AllJudged, NEW r \in Saves
    PROVE  /\ given[r].in = Inject(SchemaOf(r), Cut(SchemaOf(r), req[r].in), req[r].files)
           /\ Valid(r) /\ ~CannotJudge(SchemaOf(r), req[r].files)
           /\ call[r].in \in Prepares(given[r].in)
  BY DEF AllJudged, Handed, Judged, Checked, Stripped, Cut, Saves

\* Validate is never handed a key that the schema of the loaded row calls read-only,
\* neither from the body nor as a file: Save sees one only if Validate makes it up.
THEOREM ReadonlyIsCut == Spec => []NothingReadonlySaved
<1>1. AllJudged => NothingReadonlySaved
  BY InjectNothingReadonly, SavesOfJudged DEF NothingReadonlySaved
<1> QED
  BY <1>1, SavesAreJudged, PTL

\* Nothing that was loaded and nothing that the validator made up gets to Validate,
\* and Save gets what Validate leaves.
THEOREM OnlyTheBodyIsSaved == Spec => []SaveGetsOnlyTheBody
<1>1. AllJudged => SaveGetsOnlyTheBody
  <2> SUFFICES ASSUME AllJudged, NEW r \in Saves
               PROVE  /\ call[r].in \in Prepares(given[r].in)
                      /\ \A f \in DOMAIN given[r].in :
                            \/ f \in DOMAIN req[r].files
                            \/ f \in DOMAIN req[r].in /\ given[r].in[f] = req[r].in[f]
    BY DEF SaveGetsOnlyTheBody
  <2> QED
    BY SavesOfJudged, InjectOnlyBody
<1> QED
  BY <1>1, SavesAreJudged, PTL

\* Of a request that gets as far as Save every file has been handed to Validate, in
\* order, behind the list of the body.
THEOREM FilesReachSave == Spec => []NoFileLost
<1>1. AllJudged => NoFileLost
  <2> SUFFICES ASSUME AllJudged, NEW r \in Saves, NEW f \in DOMAIN req[r].files
               PROVE  /\ f \in DOMAIN given[r].in
                      /\ given[r].in[f] =
                            IF SchemaOf(r).widget[f] = "single" /\ req[r].files[f] = 1
                            THEN Upload(f, 1)
                            ELSE AsList(req[r].in, f) \o Uploads(f, req[r].files)
    BY DEF NoFileLost
  <2>1. /\ given[r].in = Inject(SchemaOf(r), Cut(SchemaOf(r), req[r].in), req[r].files)
        /\ Stray(SchemaOf(r), req[r].files) = {}
        /\ ~CannotJudge(SchemaOf(r), req[r].files)
    BY SavesOfJudged DEF Valid
  <2> QED
    BY <2>1, InjectAllFiles
<1> QED
  BY <1>1, SavesAreJudged, PTL

\* What is being checked, and what Validate was handed, is a body a client has sent.
Posed(r) == Handed(r) \/ pc[r] = "check" =>
                \E b \in Bodies : req[r].in = b.in /\ req[r].files = b.files
AllPosed == \A r \in Requests : Posed(r)

LEMMA NextPosed == Inv /\ AllPosed /\ [Next]_vars => AllPosed'
<1> SUFFICES ASSUME Inv, AllPosed, [Next]_vars, NEW q \in Requests PROVE Posed(q)'
  BY DEF AllPosed
<1> USE DEF Inv, TypeOK, Ordered, Unsaved, stored, Goto, Respond, Answered, Handed, Saves
<1>1. CASE Arrive(q)
  BY <1>1 DEF Arrive, Posed
<1>2. CASE Decoding(q)
  <2>1. pc[q] \in Reading /\ call'[q] = None
    BY <1>2, DecodeKeepsRequest DEF Reading
  <2>2. CASE pc'[q] # "check"
    <3>1. pc'[q] # "validate"
      BY <1>2, DecodeKeepsRequest
    <3> QED
      BY <2>1, <2>2, <3>1 DEF Posed
  <2>3. CASE pc'[q] = "check"
    <3>1. PICK b \in Bodies : Take(q, b)
      BY <1>2, <2>1, <2>3
         DEF Decoding, Decode, Drain, Payload, Parts, Reject, Abandon, Reading
    <3> QED
      BY <2>1, <3>1, TakeKeepsRequest DEF Posed, Reading
  <2> QED
    BY <2>2, <2>3
<1>3. CASE Check(q) \/ Validate(q)
  <2>1. pc[q] \in {"check", "validate"} /\ req' = req
    BY <1>3 DEF Check, Validate
  <2> QED
    BY <2>1 DEF AllPosed, Posed
<1>4. CASE Storage(q)
  BY <1>4 DEF Storage, Store!SaveCreate, Store!SaveUpdate, Store!SaveNotFound, Store!Remove,
              Store!Refuse, Store!Answer, AllPosed, Posed
<1>5. CASE Saved(q) \/ Reload(q) \/ Envelope(q) \/ Form(q) \/ LoadRow(q)
  BY <1>5 DEF Saved, Reload, Envelope, Form, LoadRow, AllPosed, Posed
<1>6. CASE CallDelete(q) \/ Deleted(q)
  BY <1>6 DEF CallDelete, Deleted, Store!Delete, AllPosed, Posed
<1>7. ASSUME NEW r \in Requests, r # q, Arrive(r) \/ Step(r) PROVE Same(q)
  BY <1>7, OneStepsOthersStay
<1>8. CASE Same(q)
  BY <1>8 DEF Same, AllPosed, Posed
<1>9. CASE UNCHANGED vars
  BY <1>9 DEF vars, AllPosed, Posed
<1> QED
  BY <1>1, <1>2, <1>3, <1>4, <1>5, <1>6, <1>7, <1>8, <1>9 DEF Next, Step, Decoding, Finished

LEMMA SavesArePosed == Spec => []AllPosed
<1>1. Init => AllPosed
  BY DEF Init, Store!Init, AllPosed, Posed, Handed, Saves
<1>2. Inv /\ AllPosed /\ [Next]_vars => AllPosed'
  BY NextPosed
<1> QED
  BY <1>1, <1>2, Invariance, PTL DEF Spec

\* The schema lets a value through in a multi field that takes files only if it
\* is a list or null: it says that the field is an array.
MultisAreLists ==
    \A data : \A b \in Bodies :
        LET s  == Schema(data)
            in == Cut(s, b.in)
        IN Admits(s, Effective(s, data, in, b.files)) =>
               \A f \in Accepted(s, b.files) \cap DOMAIN in :
                   MediaFieldKind(s, f) = "multi" => in[f] \in IdLists \cup {Null}

\* The row as Save will leave it, if Validate changes nothing, has been before the
\* validator, files included.
THEOREM SavedIsValid ==
    ASSUME MultisAreLists
    PROVE  Spec => []SavedWasValidated
<1>1. AllJudged /\ AllPosed => SavedWasValidated
  <2> SUFFICES ASSUME AllJudged, AllPosed, NEW r \in Saves
               PROVE  Admits(SchemaOf(r), Overlay(SchemaOf(r), current[r], given[r].in))
    BY DEF SavedWasValidated
  <2> DEFINE in == Cut(SchemaOf(r), req[r].in)
             files == req[r].files
  <2>1. /\ given[r].in = Inject(SchemaOf(r), in, files)
        /\ Admits(SchemaOf(r), Effective(SchemaOf(r), current[r], in, files))
    BY SavesOfJudged DEF Valid, Checked, Stripped, Cut
  <2>2. PICK b \in Bodies : req[r].in = b.in /\ req[r].files = b.files
    BY DEF AllPosed, Posed, Handed, Saves
  <2>3. \A f \in Accepted(SchemaOf(r), files) \cap DOMAIN in :
            MediaFieldKind(SchemaOf(r), f) = "multi" => in[f] \in IdLists \cup {Null}
    BY <2>1, <2>2 DEF MultisAreLists, SchemaOf
  <2> QED
    BY <2>1, <2>3, EffectiveIsOverlay
<1> QED
  BY <1>1, SavesAreJudged, SavesArePosed, PTL
-------------------------------------------------------------------------------
(* The rows the engine asks for.                                            *)

Created == {call[c].id : c \in {d \in Store!Creates : answer[d] = "ok"}}

HasFound(r) == \/ pc[r] \in Reading \cup {"check", "validate"} /\ Verb(r) = "update"
               \/ pc[r] = "delete"

\* Every row was there at the start or was created, and a request that has found
\* a row names one of these.
RowsAreKnown ==
    /\ DOMAIN rows = Ids
    /\ \A i \in Ids : rows[i] # Absent => i \in InitialIds \cup Created
    /\ \A r \in Requests : HasFound(r) => req[r].id \in InitialIds \cup Created

LEMMA CallsStay ==
    ASSUME Inv, [Next]_vars, NEW q \in Requests
    PROVE  /\ call[q] # None => call'[q] = call[q]
           /\ answer[q] # None => answer'[q] = answer[q]
<1> USE DEF Inv, TypeOK, Ordered, Unsaved, Respond, Answered, stored
<1>1. CASE Check(q) \/ Validate(q)
  BY <1>1 DEF Check, Validate
<1>2. CASE CallDelete(q)
  BY <1>2 DEF CallDelete
<1>3. CASE Storage(q)
  BY <1>3 DEF Storage, Store!SaveCreate, Store!SaveUpdate, Store!SaveNotFound,
              Store!Remove, Store!Refuse, Store!Answer, Store!Pending
<1>4. CASE Arrive(q) \/ Form(q) \/ LoadRow(q) \/ Decoding(q)
  BY <1>4, DecodeKeepsRequest DEF Arrive, Form, LoadRow
<1>5. CASE Saved(q) \/ Reload(q) \/ Envelope(q) \/ Deleted(q)
  BY <1>5 DEF Saved, Reload, Envelope, Deleted
<1>6. ASSUME NEW r \in Requests, r # q, Arrive(r) \/ Step(r) PROVE Same(q)
  BY <1>6, OneStepsOthersStay
<1>7. CASE UNCHANGED vars
  BY <1>7 DEF vars
<1>8. CASE Same(q)
  BY <1>8 DEF Same
<1> QED
  BY <1>1, <1>2, <1>3, <1>4, <1>5, <1>6, <1>7, <1>8 DEF Next, Step, Decoding, Finished

LEMMA CreatedGrows == Inv /\ [Next]_vars => Created \subseteq Created'
  BY CallsStay, NoneIsNoAnswer DEF Created, Store!Creates

LEMMA NextRowsKnown == Inv /\ RowsAreKnown /\ [Next]_vars => RowsAreKnown'
<1> SUFFICES ASSUME Inv, RowsAreKnown, [Next]_vars PROVE RowsAreKnown'
  OBVIOUS
<1>1. Created \subseteq Created'
  BY CreatedGrows
<1>2. DOMAIN rows' = Ids /\ \A i \in Ids : rows'[i] # Absent => i \in InitialIds \cup Created'
  <2>1. CASE rows' = rows
    BY <1>1, <2>1 DEF RowsAreKnown
  <2>2. ASSUME NEW r \in Requests, Store!SaveCreate(r)
        PROVE  /\ DOMAIN rows' = Ids
               /\ \A i \in Ids : rows'[i] # Absent => i \in InitialIds \cup Created'
    <3>1. call[r].id \in Created'
      BY <2>2 DEF Store!SaveCreate, Store!Answer, Store!Pending, Created, Store!Creates, Inv, TypeOK
    <3>2. DOMAIN rows' = Ids /\ \A i \in Ids : i # call[r].id => rows'[i] = rows[i]
      BY <2>2 DEF Store!SaveCreate, RowsAreKnown
    <3> QED
      BY <1>1, <3>1, <3>2 DEF RowsAreKnown
  <2>3. ASSUME NEW r \in Requests, Store!SaveUpdate(r) \/ Store!Remove(r)
        PROVE  DOMAIN rows' = Ids /\ \A i \in Ids : rows'[i] # Absent => rows[i] # Absent
    BY <2>3 DEF Store!SaveUpdate, Store!Remove, RowsAreKnown
  <2>4. \/ rows' = rows
        \/ \E r \in Requests : Store!SaveCreate(r) \/ Store!SaveUpdate(r) \/ Store!Remove(r)
    <3>1. ASSUME NEW r \in Requests,
                 \/ Arrive(r) \/ Form(r) \/ LoadRow(r) \/ Decoding(r) \/ Check(r) \/ Validate(r)
                 \/ Saved(r) \/ Reload(r) \/ Envelope(r) \/ CallDelete(r) \/ Deleted(r)
          PROVE  rows' = rows
      BY <3>1, DecodeKeepsRequest
         DEF Inv, Arrive, Form, LoadRow, Check, Validate, Saved, Reload, Envelope, CallDelete,
             Deleted, stored
    <3>2. ASSUME NEW r \in Requests, Storage(r)
          PROVE  \/ rows' = rows
                 \/ Store!SaveCreate(r) \/ Store!SaveUpdate(r) \/ Store!Remove(r)
      BY <3>2 DEF Storage, Store!SaveNotFound, Store!Refuse
    <3>3. UNCHANGED vars => rows' = rows
      BY DEF vars
    <3> QED
      BY <3>1, <3>2, <3>3 DEF Next, Step, Decoding, Finished
  <2> QED
    BY <1>1, <2>1, <2>2, <2>3, <2>4 DEF RowsAreKnown
<1>3. ASSUME NEW q \in Requests, HasFound(q)'
      PROVE  req'[q].id \in InitialIds \cup Created'
  <2>1. CASE LoadRow(q)
    BY <1>1, <1>3, <2>1
       DEF LoadRow, RowsAreKnown, HasFound, Inv, TypeOK, Ordered, Goto, Respond,
           Answered, stored, Verb, Reading
  <2>2. CASE Decoding(q)
    <3>1. pc[q] \in Reading /\ req'[q].verb = req[q].verb /\ req'[q].id = req[q].id
      BY <2>2, DecodeKeepsRequest DEF Inv
    <3>2. pc'[q] # "delete"
      BY <2>2, DecodeKeepsRequest DEF Inv, TypeOK, Goto
    <3> QED
      BY <1>1, <1>3, <3>1, <3>2 DEF RowsAreKnown, HasFound, Verb
  <2>3. CASE Arrive(q)
    BY <1>3, <2>3 DEF HasFound, Arrive, Inv, TypeOK, Goto, stored, Verb, Reading
  <2>4. CASE Form(q) \/ Validate(q) \/ Saved(q) \/ Reload(q) \/ Envelope(q)
             \/ CallDelete(q) \/ Deleted(q)
    <3>1. DOMAIN pc = Requests
      BY DEF Inv, TypeOK
    <3>2. pc'[q] \in {"save", "reload", "envelope", "deleting", "done"}
      BY <2>4, <3>1 DEF Form, Validate, Saved, Reload, Envelope, CallDelete, Deleted, Goto,
                        Respond, Answered
    <3> QED
      BY <1>3, <3>2 DEF HasFound, Reading
  <2>5. CASE Storage(q) \/ UNCHANGED vars
    <3>1. UNCHANGED <<pc, req>>
      BY <2>5 DEF Storage, vars
    <3> QED
      BY <1>1, <1>3, <3>1 DEF RowsAreKnown, HasFound, Verb
  <2>6. ASSUME NEW r \in Requests, r # q, Arrive(r) \/ Step(r) PROVE Same(q)
    BY <2>6, OneStepsOthersStay DEF Inv
  <2>7. CASE Same(q)
    BY <1>1, <1>3, <2>7 DEF Same, RowsAreKnown, HasFound, Verb
  <2>8. CASE Check(q)
    <3>1. pc[q] = "check" /\ req' = req
      BY <2>8 DEF Check, Respond, Answered
    <3>2. pc'[q] # "delete"
      BY <2>8 DEF Check, Respond, Answered, Goto, Inv, TypeOK
    <3> QED
      BY <1>1, <1>3, <3>1, <3>2 DEF RowsAreKnown, HasFound, Verb
  <2> QED
    BY <2>1, <2>2, <2>3, <2>4, <2>5, <2>6, <2>7, <2>8 DEF Next, Step, Decoding, Finished
<1> QED
  BY <1>2, <1>3 DEF RowsAreKnown

LEMMA RowsStayKnown == Spec => []RowsAreKnown
<1>1. Init => RowsAreKnown
  BY DEF Init, Store!Init, RowsAreKnown, HasFound, Reading
<1>2. Inv /\ RowsAreKnown /\ [Next]_vars => RowsAreKnown'
  BY NextRowsKnown
<1> QED
  BY <1>1, <1>2, Invariance, PTL DEF Spec

\* The engine never asks for a Save or a Delete of a row that the storage has not
\* had: it is a row that a Load has found, and rows come from nowhere else.
THEOREM OnlyKnownRowsAreAsked == Spec => OnlyKnownRows
<1> DEFINE Asks == \A r \in Requests : call[r] = None /\ call'[r] # None
                       => call'[r].op = "create" \/ call'[r].id \in Store!Known
<1>1. Inv /\ RowsAreKnown /\ [Next]_vars => [Asks]_vars
  <2> SUFFICES ASSUME Inv, RowsAreKnown, [Next]_vars, NEW q \in Requests,
                      call[q] = None, call'[q] # None
               PROVE  call'[q].op = "create" \/ call'[q].id \in Store!Known
    OBVIOUS
  <2>1. InitialIds \cup Created \subseteq Store!Known
    BY DEF Created, Store!Known
  <2> USE DEF Inv, TypeOK, Ordered, Respond, Answered, stored, Verb
  <2>2. CASE Validate(q)
    BY <2>1, <2>2 DEF Validate, RowsAreKnown, HasFound
  <2>3. CASE CallDelete(q)
    BY <2>1, <2>3 DEF CallDelete, Store!Delete, RowsAreKnown, HasFound
  <2>4. CASE Arrive(q) \/ Form(q) \/ LoadRow(q) \/ Decoding(q) \/ Check(q)
    BY <2>4, DecodeKeepsRequest DEF Arrive, Form, LoadRow, Check
  <2>5. CASE Saved(q) \/ Reload(q) \/ Envelope(q) \/ Deleted(q)
    BY <2>5 DEF Saved, Reload, Envelope, Deleted
  <2>6. CASE Storage(q)
    BY <2>6 DEF Storage, Store!SaveCreate, Store!SaveUpdate, Store!SaveNotFound,
                Store!Remove, Store!Refuse, Store!Answer, Store!Pending
  <2>7. ASSUME NEW r \in Requests, r # q, Arrive(r) \/ Step(r) PROVE Same(q)
    BY <2>7, OneStepsOthersStay
  <2>8. CASE Same(q)
    BY <2>8 DEF Same
  <2>9. CASE UNCHANGED vars
    BY <2>9 DEF vars
  <2> QED
    BY <2>2, <2>3, <2>4, <2>5, <2>6, <2>7, <2>8, <2>9
       DEF Next, Step, Decoding, Finished
<1> QED
  BY <1>1, Invariance, RowsStayKnown, PTL DEF Spec, OnlyKnownRows
===============================================================================
