-------------------------------- MODULE Handler --------------------------------
(***************************************************************************)
(* The engine: the handlers of handler.go for one registered entity, many  *)
(* requests at a time, over any storage that keeps EntityContract.         *)
(*                                                                         *)
(* A request is a sequence of calls of the entity's hooks.  Between two of *)
(* them the rows may change: what a request has loaded is in current[r],   *)
(* the row is in rows.  The storage answers Save and Delete with actions   *)
(* of EntityContract.                                                      *)
(***************************************************************************)
EXTENDS WriteBody, FiniteSets

CONSTANTS Requests,     \* requests, one HTTP exchange each
          Ids, InitialIds, Seed, BlankRow, Put(_, _),  \* of EntityContract
          None,
          Bodies,       \* what a body may decode to: [in, files]
          Disabled,     \* verbs the entity does not offer
          Schema(_),    \* Schema(data): the schema of a row, or of the create form
          Prepares(_),  \* Prepares(in): the bodies Entity.Validate may make of in
          MaxOpen       \* bound: requests in progress at a time

\* None is no answer of a storage and no status.
ASSUME NoneIsNoAnswer == None # "ok" /\ None \notin 100..599

VARIABLES rows, call, answer,   \* the storage and the calls of its hooks
          pc,                   \* where each request is
          req,                  \* what was asked
          current,              \* what the first Load of the request found
          given,                \* what Validate is handed: [in, clean]
          shown,                \* the data of the response
          status,               \* the response
          temp                  \* requests whose multipart form is on disk

vars == <<rows, call, answer, pc, req, current, given, shown, status, temp>>
stored == <<rows, call, answer>>

Store == INSTANCE EntityContract WITH Calls <- Requests, Payloads <- {}, NoBody <- <<>>

Verbs == {"schema", "load", "create", "update", "delete"}

Init == /\ Store!Init
        /\ pc = [r \in Requests |-> "idle"]
        /\ req = [r \in Requests |-> None]
        /\ current = [r \in Requests |-> Absent]
        /\ given = [r \in Requests |-> None]
        /\ shown = [r \in Requests |-> None]
        /\ status = [r \in Requests |-> None]
        /\ temp = {}

Verb(r) == req[r].verb
Id(r) == IF Verb(r) = "create" THEN call[r].id ELSE req[r].id
Goto(r, l) == pc' = [pc EXCEPT ![r] = l]

Answered(r, s) == /\ status' = [status EXCEPT ![r] = s]
                  /\ Goto(r, "done")
                  /\ UNCHANGED <<req, current, given, shown>>

\* The response, and the return from the handler with the cleanup it deferred: it
\* has something to remove only once decodeBody has returned a form.
Respond(r, s) == Answered(r, s) /\ temp' = temp \ {r}

\* The error exits of decodeBody: before there is a form nothing is removed, after
\* that the form is removed by hand, for no cleanup is deferred yet.
Reject(r, s)  == Answered(r, s) /\ UNCHANGED temp
Abandon(r, s) == Answered(r, s) /\ temp' = temp \ {r}
-------------------------------------------------------------------------------
(* The steps of a request.                                                  *)

\* The route: an unregistered name, a method the entity does not offer, or the
\* first hook the verb calls.
Arrive(r) ==
    /\ pc[r] = "idle"
    /\ Cardinality({q \in Requests : pc[q] \notin {"idle", "done"}}) < MaxOpen
    /\ \E v \in Verbs, known \in BOOLEAN :
       \E i \in IF v \in {"schema", "create"} THEN {None} ELSE Ids :
         /\ req' = [req EXCEPT ![r] = [verb |-> v, id |-> i, in |-> <<>>, files |-> <<>>]]
         /\ IF ~known \/ v \in Disabled
            THEN /\ status' = [status EXCEPT ![r] = IF ~known THEN 400 ELSE 405]
                 /\ Goto(r, "done")
            ELSE /\ Goto(r, CASE v = "schema" -> "form"
                              [] v = "create" -> "decode"
                              [] OTHER -> "load")
                 /\ UNCHANGED status
    /\ UNCHANGED <<stored, current, given, shown, temp>>

\* Schema: the create form.
Form(r) == /\ pc[r] = "form"
           /\ \E s \in {200, 500} : Respond(r, s)
           /\ UNCHANGED stored

\* Fault: no one looks whether the first Load has found a row.
LoadRowUnseen(r) ==
    /\ pc[r] = "load"
    /\ current' = [current EXCEPT ![r] = rows[req[r].id]]
    /\ Goto(r, CASE Verb(r) = "load" -> "envelope"
                 [] Verb(r) = "update" -> "decode"
                 [] OTHER -> "delete")
    /\ UNCHANGED <<stored, req, given, shown, status, temp>>

\* The first Load: no row is 404.
LoadRow(r) ==
    /\ pc[r] = "load"
    /\ \/ Respond(r, 500)
       \/ rows[req[r].id] = Absent /\ Respond(r, 404)
       \/ /\ rows[req[r].id] # Absent
          /\ current' = [current EXCEPT ![r] = rows[req[r].id]]
          /\ Goto(r, CASE Verb(r) = "load" -> "envelope"
                       [] Verb(r) = "update" -> "decode"
                       [] OTHER -> "delete")
          /\ shown' = [shown EXCEPT ![r] = IF Verb(r) = "load" THEN rows[req[r].id] ELSE @]
          /\ UNCHANGED <<req, given, status, temp>>
    /\ UNCHANGED stored

Take(r, b) == /\ req' = [req EXCEPT ![r].in = b.in, ![r].files = b.files]
              /\ Goto(r, "check")
              /\ UNCHANGED <<current, given, shown, status, temp>>

\* decodeBody: too large or malformed, a JSON body, or a multipart form that has
\* been parsed and is on disk from here on, whether there are files in it or not.
Decode(r) ==
    /\ pc[r] = "decode"
    /\ \/ \E s \in {400, 413} : Reject(r, s)
       \/ \E b \in Bodies : b.files = <<>> /\ Take(r, b)
       \/ /\ temp' = temp \cup {r}
          /\ Goto(r, "drain")
          /\ UNCHANGED <<req, current, given, shown, status>>
    /\ UNCHANGED stored

\* What follows the closing boundary is read too: it counts for the limit.
Drain(r) ==
    /\ pc[r] = "drain"
    /\ \/ \E s \in {400, 413} : Abandon(r, s)
       \/ Goto(r, "payload") /\ UNCHANGED <<req, current, given, shown, status, temp>>
    /\ UNCHANGED stored

\* Fault: the exit for a payload that is no JSON forgets the form.
PayloadAndForm(r) ==
    /\ pc[r] = "payload"
    /\ \/ Reject(r, 400)
       \/ Goto(r, "parts") /\ UNCHANGED <<req, current, given, shown, status, temp>>
    /\ UNCHANGED stored

Payload(r) ==
    /\ pc[r] = "payload"
    /\ \/ Abandon(r, 400)
       \/ Goto(r, "parts") /\ UNCHANGED <<req, current, given, shown, status, temp>>
    /\ UNCHANGED stored

\* The file parts are opened and read; that may fail while there are any.
Parts(r) ==
    /\ pc[r] = "parts"
    /\ \E b \in Bodies : \/ b.files # <<>> /\ Abandon(r, 400)
                        \/ Take(r, b)
    /\ UNCHANGED stored

SchemaOf(r) == Schema(current[r])
Stripped(r) == StripReadonly(SchemaOf(r), req[r].in)

\* Fault: Save is given the whole row as it would be.
CheckedWhole(r) == Overlay(SchemaOf(r), current[r], Stripped(r))

Checked(r) == StripUnknown(SchemaOf(r), Stripped(r))

RejectsUnknown(r) == Policy = "reject" /\ UnknownKeys(SchemaOf(r), Stripped(r)) # {}
Valid(r) == /\ Admits(SchemaOf(r), Effective(SchemaOf(r), current[r], Checked(r), req[r].files))
            /\ Stray(SchemaOf(r), req[r].files) = {}

\* From Schema to the injection: nothing of it is seen by others.  Errors of the
\* validator and stray files are collected; they do not keep the body from Validate.
Check(r) ==
    /\ pc[r] = "check"
    /\ LET judged == ~RejectsUnknown(r) /\ ~CannotJudge(SchemaOf(r), req[r].files)
       IN \/ Respond(r, 500)
          \/ (RejectsUnknown(r) \/ judged) /\ Respond(r, 422)
          \/ /\ judged
             /\ given' = [given EXCEPT ![r] =
                    [in |-> Inject(SchemaOf(r), Checked(r), req[r].files), clean |-> Valid(r)]]
             /\ Goto(r, "validate")
             /\ UNCHANGED <<req, current, shown, status, temp>>
    /\ UNCHANGED stored

\* Entity.Validate may refuse any body and may change what it is handed; what it
\* leaves of a body with no error goes to Save.
Validate(r) ==
    /\ pc[r] = "validate"
    /\ \/ Respond(r, 422) /\ UNCHANGED stored
       \/ /\ given[r].clean
          /\ \E i \in IF Verb(r) = "create" THEN Ids \ Store!Used ELSE {req[r].id},
                out \in Prepares(given[r].in) :
               call' = [call EXCEPT ![r] = [op |-> Verb(r), id |-> i, in |-> out]]
          /\ Goto(r, "save")
          /\ UNCHANGED <<rows, answer, req, current, given, shown, status, temp>>

\* The storage answers a Save or a Delete.
Storage(r) == /\ \/ Store!SaveCreate(r)
                 \/ Store!SaveUpdate(r)
                 \/ Store!SaveNotFound(r)
                 \/ Store!Remove(r)
                 \/ Store!Refuse(r)
              /\ UNCHANGED <<pc, req, current, given, shown, status, temp>>

\* Fault: an error of Save is logged and nothing else.
SavedOrLogged(r) == /\ pc[r] = "save" /\ answer[r] = "ok"
                    /\ Goto(r, "reload")
                    /\ UNCHANGED <<stored, req, current, given, shown, status, temp>>

\* What Save returned; on success the row is loaded again.
Saved(r) == /\ pc[r] = "save" /\ answer[r] # None
            /\ IF answer[r] = "ok"
               THEN Goto(r, "reload") /\ UNCHANGED <<req, current, given, shown, status, temp>>
               ELSE Respond(r, CASE answer[r] = "ferr" -> 422
                                 [] answer[r] = "notfound" -> 404
                                 [] OTHER -> 500)
            /\ UNCHANGED stored

\* Fault: 404 when the row that was just written has been deleted.
ReloadOrNotFound(r) == /\ pc[r] = "reload"
                       /\ IF rows[Id(r)] = Absent THEN Respond(r, 404)
                          ELSE /\ shown' = [shown EXCEPT ![r] = rows[Id(r)]]
                               /\ Goto(r, "envelope")
                               /\ UNCHANGED <<req, current, given, status, temp>>
                       /\ UNCHANGED stored

\* The second Load.  That there is no row any more makes no difference.
Reload(r) == /\ pc[r] = "reload"
             /\ \/ Respond(r, 500)
                \/ /\ shown' = [shown EXCEPT ![r] = rows[Id(r)]]
                   /\ Goto(r, "envelope")
                   /\ UNCHANGED <<req, current, given, status, temp>>
             /\ UNCHANGED stored

\* buildEnvelope.
Envelope(r) == /\ pc[r] = "envelope"
               /\ \/ Respond(r, 500)
                  \/ Respond(r, IF Verb(r) = "create" THEN 201 ELSE 200)
               /\ UNCHANGED stored

\* The call of Delete, and what it returned.
CallDelete(r) == /\ pc[r] = "delete"
                 /\ call' = [call EXCEPT ![r] = Store!Delete(req[r].id)]
                 /\ Goto(r, "deleting")
                 /\ UNCHANGED <<rows, answer, req, current, given, shown, status, temp>>

\* Fault: an error of Delete is answered with nothing.
DeletedUnmapped(r) == /\ pc[r] = "deleting" /\ answer[r] # None
                      /\ Respond(r, IF answer[r] = "ok" THEN 204 ELSE 0)
                      /\ UNCHANGED stored

Deleted(r) == /\ pc[r] = "deleting" /\ answer[r] # None
              /\ Respond(r, CASE answer[r] = "ok" -> 204
                              [] answer[r] = "conflict" -> 409
                              [] OTHER -> 500)
              /\ UNCHANGED stored

Step(r) == \/ Form(r)
           \/ LoadRow(r)
           \/ Decode(r)
           \/ Drain(r)
           \/ Payload(r)
           \/ Parts(r)
           \/ Check(r)
           \/ Validate(r)
           \/ Storage(r)
           \/ Saved(r)
           \/ Reload(r)
           \/ Envelope(r)
           \/ CallDelete(r)
           \/ Deleted(r)

Finished == (\A r \in Requests : pc[r] = "done") /\ UNCHANGED vars

Next == (\E r \in Requests : Arrive(r) \/ Step(r)) \/ Finished

Spec == Init /\ [][Next]_vars

\* The server runs a request it has accepted to its end, and hooks return.
FairSpec == Spec /\ \A r \in Requests : WF_vars(Step(r))
-------------------------------------------------------------------------------
(* Properties.                                                              *)

Stage == {"idle", "form", "load", "decode", "drain", "payload", "parts", "check", "validate",
          "save", "reload", "envelope", "delete", "deleting", "done"}

\* The types of the engine's own state.
TypeOK ==
    /\ pc \in [Requests -> Stage]
    /\ DOMAIN req = Requests /\ DOMAIN call = Requests /\ DOMAIN answer = Requests
    /\ DOMAIN current = Requests /\ DOMAIN given = Requests /\ DOMAIN shown = Requests
    /\ \A r \in Requests : pc[r] # "idle" =>
           /\ DOMAIN req[r] = {"verb", "id", "in", "files"}
           /\ req[r].verb \in Verbs /\ req[r].id \in Ids \cup {None}
    /\ status \in [Requests -> {None, 200, 201, 204, 400, 404, 405, 409, 413, 422, 500}]
    /\ temp \subseteq Requests

Saves == {r \in Requests : call[r] # None /\ call[r].op \in {"create", "update"}}

\* handler.go:238, "Entity.Save physically never sees" a read-only key: what
\* Validate is handed has none, neither from the body nor as a file, so that Save
\* can get one only from Validate.
NothingReadonlySaved ==
    \A r \in Saves : DOMAIN given[r].in \cap SchemaOf(r).readonly = {}

\* What is saved was validated, but for what Validate itself makes of it: what it
\* is handed, laid over the row that was loaded, is admitted by the schema, though
\* the files came in afterwards.
SavedWasValidated ==
    \A r \in Saves : Admits(SchemaOf(r), Overlay(SchemaOf(r), current[r], given[r].in))

\* handler.go:283, "a lost file is indistinguishable from a successful save", and
\* :270, no file gets past Validate: of every request that is saved, Validate has
\* been handed every file, in the order of its parts, behind the list that came
\* with it.
NoFileLost ==
    \A r \in Saves : \A f \in DOMAIN req[r].files :
        /\ f \in DOMAIN given[r].in
        /\ given[r].in[f] = IF SchemaOf(r).widget[f] = "single" /\ req[r].files[f] = 1
                            THEN Upload(f, 1)
                            ELSE AsList(req[r].in, f) \o Uploads(f, req[r].files)

\* handler.go:254: neither loaded values nor the validator's markers get into
\* Save.  A field that was not sent stays out, a sent one arrives as sent, a
\* keyed map with its own keys only; and Save gets what Validate left of it.
SaveGetsOnlyTheBody ==
    \A r \in Saves :
        /\ call[r].in \in Prepares(given[r].in)
        /\ \A f \in DOMAIN given[r].in :
              \/ f \in DOMAIN req[r].files
              \/ f \in DOMAIN req[r].in /\ given[r].in[f] = req[r].in[f]

\* The status tells whether the request changed the rows: a success that it
\* did, a refusal (4xx) that it did not.  500 says nothing.
StatusTellsTheTruth ==
    \A r \in Requests :
        /\ status[r] \in {201, 204} \/ (status[r] = 200 /\ Verb(r) = "update") => answer[r] = "ok"
        /\ status[r] \in 400..499 => answer[r] # "ok"

\* upload.go:42: the temporary files of a multipart form go with the request, on
\* every path out of decodeBody and out of the handler.
NoFilesLeftBehind == \A r \in temp : pc[r] \notin {"idle", "done"}

\* The engine calls Save and Delete only for ids the storage has had a row
\* for: what Store.Delete relies on when it does not look (store.go:235), and
\* what EntityContract assumes of its callers.
OnlyKnownRows ==
    [][\A r \in Requests : call[r] = None /\ call'[r] # None
           => call'[r].op = "create" \/ call'[r].id \in Store!Known]_vars

\* handler.go:178, Update answers "404 when the row does not exist": a 200 or a
\* 201 shows a row.
SuccessShowsARow == \A r \in Requests : status[r] \in {200, 201} /\ Verb(r) # "schema"
                                           => shown[r] # Absent

\* Every request that is accepted is answered.
EveryRequestAnswered == \A r \in Requests : pc[r] # "idle" ~> status[r] # None
===============================================================================
