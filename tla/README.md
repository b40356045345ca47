# editrig-go: specifications

TLA+ models of editrig-go, the configurations TLC checks them with, and proofs
TLAPS checks. editrig-go is a server-side engine for admin forms: it serves the
JSON Schema and the data of an entity, takes a form back, validates it and calls
the entity's hooks. `adapter/erjet` is a storage behind those hooks that writes
a declared table, and the side tables of its fields, in one PostgreSQL
transaction. `decl` declares an entity once, each field beside the cell that
stores it, and `ui` has the vocabulary of fields.

Paths below are relative to the repository. To check a run, `tlc -config
X.cfg M` for the pair in the table of runs; to check the proofs, `tlapm M` for
each `*_proofs.tla`, `ErjetStore_lists.tla` and `ErjetStore_contract.tla`.

## The system

| Component | State | Operations | Interacts by |
|---|---|---|---|
| Engine: `handler.go`, `upload.go` | none across requests; per request the loaded row, the body, files on disk | Schema, Load, Create, Update, Delete | calls the entity's Load, Schema, Validate, Save, Delete hooks one after another; anything may happen in storage between two of them |
| Validation: `validate/` | none | strip read-only, strip or reject unknown, overlay, judge | pure functions, called by the engine on what it loaded and what was sent |
| Storage contract: `types.go` | the rows | Save, Delete | what the engine relies on; the store of `examples/memory` is a map under one mutex |
| Store: `store.go`, `table.go`, `rels.go`; `deferred_list.go`, the lists of `child.go` that are replaced | main table, list tables; per call an open transaction | Save (create, update), Delete, OnWrite | statements of concurrent transactions, row locks, the foreign key of a side table; OnWrite is a callback after the commit |
| Keyed satellites: `satellite.go` | side tables with a row per parent and key | write of all fields of each table, read of each field | called inside the transaction of Save |
| Child tables: `child.go` | a side table with a row per list element | read, write of the lists that were sent | called inside the transaction of Save; ids come from the client |
| Column cells: `column.go`, `array.go`, `normalize.go` | one column | decode on read, parse and echo on write | the store writes the parsed value and reports the echo |
| Declaration: `decl/`, `ui/` | the entries of an entity: a package variable that an author writes and requests read at the same time | constructors, wrappers, modifiers of a field; Lint; Fields, Groups | the engine's Schema hook; `decl.Cell` is a cell of erjet; ui fields are maps that are shared unless copied |
| `options.go`, registry, routers | none, or built once at startup | | not modelled, see below |

The code starts no goroutines and has one mutex, in an example. What is hard in
it is concurrency between requests, which meet in the database and between the
hook calls:

- **A request acts on what it read earlier.** The engine validates against a row
  it loaded two calls ago; the store reports old values that it read before it
  took a lock; a child table decides which ids are the parent's own before it
  writes them.
- **READ COMMITTED.** A DELETE or UPDATE sees only what was committed when it
  started and waits only for rows that are there. Whether two saves of a list
  merge depends on whether an earlier statement happened to lock the parent.
- **One save is many writes**: an INSERT by a hook, up to two UPDATEs of the main
  row, keyed upserts, a DELETE and INSERTs for each list. Any of them may fail.
  A commit may succeed and its answer be lost. Orders of locks may cross.
- **What is not sent must stay.** Absent, null, empty and unparsable mean four
  different things, on every level: field, key, element, cell.
- **Three conversions per cell** (read, write, echo) must agree, or the journal
  reports changes that did not happen, and forms change data nobody touched.
- **One declaration, four readers.** The schema that judges a form, the widget that
  fills it, the cell that parses it and the lint that compares them each look at a
  field on their own; wrappers nest them, modifiers come in any order. And
  what requests label are shallow copies of maps they share.

`PROJECT.json` lists the hazards one by one at their lines, each with the
properties that are about it.

## Modules

| Module | Models |
|---|---|
| `Overriding` | `Over(new, old)`: the one helper all modules share |
| `EntityContract` | what Entity.Save and Entity.Delete promise: each takes effect at one instant or not at all |
| `ErjetStore` | Store.Save and Store.Delete, a statement an action; implements `EntityContract` |
| `WriteBody` | the operators of package `validate` |
| `Handler` | the five handlers, a hook call an action, over any storage that keeps `EntityContract`; composes `WriteBody` and the contract |
| `KeyedTable` | the keyed fields of several side tables, written table by table and key by key |
| `ChildTable` | ChildRows and KeyedChildRows |
| `ColumnCell` | eleven kinds of cell: decode, parse, echo |
| `FormField` | a field: constructors, wrappers, modifiers, its shape on the wire, its lint, what its two documents let a client send |
| `Declaration` | entries beside cells, the lint of the whole, the documents requests put together at the same time; extends `FormField` |
| `MC*` | their instances for TLC |
| `*_proofs` | their theorems |
| `ErjetStore_lists`, `ErjetStore_contract` | further theorems of `ErjetStore`: its lists, the refinement, the journal |

So the engine is checked against the contract, the contract is implemented by
the store, and the cells the store treats as opaque are modelled one by one.
`Declaration` is what all of them start from: that a cell and a form field agree.

**ErjetStore.** `pc[c]` is the statement call `c` is at; `tx[c]` is its
transaction: `before` (the old values `Table.Row` returned), `todo` (deferred
fields still to write), the list rows it sees, has deleted and has inserted.
`lock[i]` and `share[i]` are the row lock on main row `i` and the key-share
locks that inserts of list rows take through the foreign key; a lock stands for
the uncommitted row as well. Save of an update is `ReadBefore`,
`ReadBeforeList`..., `UpdateRow` (only when the body has plain columns),
`ResolveDeferred` and `StartReplace`/`FinishReplace`/`InsertList`, `ReadBack` in the order of
the declaration, `UpdateBack`, `Commit`, `Report` (OnWrite). A create starts at
`CreateHook` and ends with all its plain columns in `UpdateBack`. A body with
nothing to write goes to `CheckExists`. Delete is `RemoveRow` or `RefuseRemove`
(conflictErr), and `Cascade`. DELETE of a list has two actions, since it chooses
its rows before it waits for them. What is left to write are steps `<<cell, key>>`: a column or a plain list has one
key, `Whole`, a `KeyedChildValues` one for each key that was sent, in sorted order, and all lists
but those of `Rels` end with a SELECT (`Reread`) of what they report. `Elements` is the
DeferredList: its function is applied to the whole list before the first statement.
Positions count from 0 in a relations table and from 1 in the others. `Return` is every early return, with the
deferred rollback. `effect[c]` is history: the row before and after the commit
of `c`. `Report` compares as `diff` does, by the text of what was read (`Text` is `fmt.Sprint`, a constant;
`Reading` is what a SELECT gives, with every row as often as it is there), and its `twice` are the
fields a create's report names two times.

**Handler.** `pc[r]` is the hook call request `r` is at, `current[r]` the row of
its first Load, `status[r]` and `shown[r]` the response, `temp` the requests
whose multipart form is on disk. `decodeBody` is `Decode` (a JSON body, or
`ParseMultipartForm`, from which on the form is on disk), `Drain` (the epilogue), `Payload` and
`Parts`; its error exits before there is a form are `Reject`, those after that, which call the
cleanup by hand, `Abandon`, and the returns of the handler, which has deferred it, `Respond`.
`Check` is what happens in memory before Validate: read-only stripping, the unknown-field
policy, validation with file markers, injection of uploads; its errors are collected.
`given[r]` is what Validate is then handed and whether there were errors, for Validate
is called either way. `Validate` may refuse any body, and hands on one of `Prepares(given[r].in)`,
since it may change what it is handed (`types.go:56`). `Schema` (a function of the
row, as the hook is), `Admits` and `Prepares` are constants: the engine's logic does not
depend on what a schema says or an entity prepares, only on when they are asked.

**WriteBody.** A body maps names to values; a file is a value `Upload(field, n)`.
The three policies for unknown names, the merge of a keyed map, the overlay of a
PATCH over the loaded row, markers for files that are judged but not yet there.

**KeyedTable and ChildTable** model PostgreSQL as ErjetStore does: uncommitted
rows are in `tx[c].writes` and visible to their own transaction, `held` is who has
written a row. In KeyedTable `TakeKey` is the next iteration of the loops, over the tables in the order of
the first field of each that was sent and over the sorted keys (`Precedes`);
`Clear` is one clearing statement by policy, `Upsert` the one upsert of the cells
that are set, `Echo` the read-back of one field. `Fits` is what a table admits: all its
columns, NULL only where it may be. In ChildTable `ReadOwned` reads the parent's ids and
resolves those that were sent, `StartDelete`/`FinishDelete` remove what is not in
the list, `Upsert` writes an element and its satellites, `Echo` reads back.
`home` is history: the parent and partition each id was issued under.

**ColumnCell** is one column and a form over it. `Decode` is what a load shows, `Parse`
the value and the echo. Numbers are scaled: a float64 is exact to `MaxSafe` (2^53
in the code), then rounds to the even neighbour. Time is counted in ticks, with
`Second`, `Minute`, `Day` and the server's `Zone` as constants.

**FormField and Declaration.** A `ui.Field` is one map with the keys of both
documents. Here it is a sequence of layers, the field, what its list or keys hold, and
so on, each a record of the keys that a document, a wrapper or a lint reads. Constructors
that differ from a modelled one by a `format` or a renderer alone (TimeOfDay, Date,
Icon, Emoji, GeoPoint) have its shape. Values are paths of kinds (`<<"map", "list",
"integer">>`), since all that is asked of a value is its kind at each depth; a text has the kind of the
time format that reads it, and an integer beyond 2^53 is `"huge"`, since cells tell these apart and schemas do not. `ControlSends` is
external: the client, as the ui document drives it. In `Declaration` an author
takes the steps `Construct`, `WrapList`, `WrapKeyed`, `Constrain`, `Dress`, `Mark`, `Attach`,
`ReplaceOptions` and `Declare`; `Publish` needs a clean lint, as the entity's test does.
Then requests `Compose` entry by entry and `Answer`. A field there is three
maps, the field, its options and its properties; `Labelling` says which of them each step of
`Fields` copies and which it writes labels into, `doc` who owns the maps a request uses and
`words` whose labels are in them.

Definitions marked `Fault` are wrong variants of the definition below them: with
one in its place the run must find the property violated that guards against it.

## Runs

| Run | Instance | Bounds | Shows |
|---|---|---|---|
| `StoreContract` | MCErjetStore | 3 calls, 2 at a time; 2 ids; a plain and a deferred column, both filled by the create hook, a relations list in a DeferredList, a map of lists; two values that read like others | `KeepsContract` (refinement), `WholeLists`, `JournalTellsTheTruth` |
| `StoreRaces` | MCErjetStore | 2 calls, lost commit answers, crossing lock orders | types, `OnlyCommitsShow`, `NoResurrection`, `ReturnedHoldsNothing`, `EveryCallReturns` |
| `HandlerRaces` | MCHandler | 2 requests, 2 ids, 12 bodies, JSON or a form with and without files, an admissible create among them; a Validate that may decode a file; policy `reject` | nine properties of what Validate and Save are given, what is answered and what is left on disk |
| `ChildLists` | MCChildTable | 2 calls, 2 parents, 2 partitions, 8 ids, nested cells; saves of a parent one at a time, and two crossing ones of one list | `RowsStayHome`, `ListsAsSent`, `UnsentIsUntouched`, `OthersUntouched`, `EchoIsCommitted`, `EverySaveReturns` |
| `KeyedForms` | MCKeyedTable | 3 saves, all open at once; 2 parents, 2 languages and the empty key; a table of 2 columns, one NOT NULL, and a table of one that is cleared by deleting its row; bodies of the first, of the second and of both | `FullFormsAreSaved`, `NoneStuck`, `WaitsAscend`, `PatchIsSaved`, `EchoIsCommitted` |
| `CellRoundTrips` | MCColumnCell | 11 kinds; numbers -7..7 with `MaxSafe` 4; times -9..9, a second 2 ticks, a minute 4, a day 8 | `SavedIsShown`, `UntouchedIsUnreported`, `UntouchedIsKept` |
| `Declarations` | MCDeclaration | 2 entries; every field of 2 calls on a constructor, beside each of 23 cells; 3 sets of sections, 3 blocks; 2 requests of 2 locales | `SentIsParsed`, `FormIsAccepted`, `EveryFieldShown`, `OwnWordsOnly` |
| `StoreMissingRow`, `StoreMergedList`, `HandlerGoneRow`, `KeyedClearRefused`, `CellDateDrift` | | | disagreements of code and docs, one each; see below |

Why the bounds suffice. Two actors that overlap are enough for each race in the
code, since a step reads at most one thing another actor wrote; the third call
of StoreContract is what creates a row that two others then share or deletes what
they wrote, and the third save of KeyedForms makes a circle of more than two
possible. Two languages are the fewest for which lock orders can cross, and two list
elements the fewest with an order. Eight child ids are the four at the start and
a fresh one for each element two saves can insert. For
numbers the instance reaches one, two and three past `MaxSafe`, where rounding
goes up, down or not at all; for times every offset within a day, and
the day before the epoch. Two tables with two keys are the fewest for which the order of the tables and that
of the keys can each go wrong alone; with bodies of one table and of both a save that others
wait for is itself waiting. Two calls on a field reach every pair of modifiers, a
list of what was modified and a modified list; what wraps a wrapper has depth three, the
depth no cell goes beyond. Two entries are enough for what the lint compares across
entries: names, parents and sections. Every component has its `TypeOK` in one of these runs.

Named bounds and assumptions of the instances:

- `MaxOpen`: calls in progress at a time. `LossyCommit`: may an answer to a COMMIT
  be lost (StoreRaces only: with it an error may have left its write, and the
  contract says it has not).
- `LocksParent`: has the save written its main row before the side table, which
  makes saves of one parent wait for each other.
- `AloneNext` (an action constraint) keeps a body whose save takes no lock on the
  parent first from overlapping others. It restricts what clients do, not what
  the code does, and what happens without it is listed under Disagreements.
  In ChildLists `Selected` does the same, has the crossing saves at the parent whose list is long
  enough to cross in, and takes ids that no row has at the start in one order.
- `MaxEntries` and `MaxEffort` bound what an author writes. `Promising` (an action
  constraint) cuts entries that already break the lint and limits a second field to what
  a first can be compared with; deadlock is not checked there, since an author may stop anywhere.
- Symmetry is used where calls differ only by name: in StoreContract and
  KeyedForms. No liveness property is checked in these runs.

## Fairness

`FairSpec` asks weak fairness of each call's next statement, request's next step
or save's next statement: the code runs in a request's goroutine, has no
loop that waits, and a statement that need not wait is executed. It asks it also
of the database's deadlock victim, which PostgreSQL guarantees. Failing is never
due, and no fairness is asked of starting a call. Statements that wait for a
lock are not enabled, so nothing is assumed of the order in which locks are
granted.

## Proofs

TLAPS proves these for every value of the constants, from the named assumptions
of the modules (sentinels differ from values, declared columns and lists are
disjoint, the order of fields and keys is total, bodies are made of what cells are sent).

- `ErjetStore_proofs`: `NothingIsHeld` (`ReturnedHoldsNothing`) and `DeletedStaysDeleted`
  (`NoResurrection`). The invariant `Inv` says: where a call is, what its `tx`
  holds (`Shaped`, `Staged`); a lock or uncommitted list row belongs to an open call
  and to its row (`Owned`); a create has its id to itself (`Named`); a row is there from the start or
  from a committed create, and no other row is asked for (`Rooted`); what is written is a row, and a create holds the
  lock of its own (`Rowed`); where there is no row there are no list rows and none to come,
  and a Delete that holds its row has it to itself until it is gone (`Emptied`). `NoResurrection` needs all of
  it: what stops the insert of a list row after the delete is the key-share lock, what stops
  an update is that it never makes a row, and what stops a create is that ids are not reused. The steps are first
  classified by what they change (`Shapes`, `StepActs`), so that each part of `Inv`
  is proved over ten shapes of step instead of nineteen actions. `ErrorsLeaveNothing`
  (`OnlyCommitsShow`) adds which calls have committed (`Told`) and whose the committed
  list rows are (`Seen`).
  `TypeCorrect` (`TypeOK`) takes, beyond `Inv`, what `Save` worked out of the body
  before its first statement (`Typed`): the deferred cells left are cells of the body, and
  the one whose list is being replaced was sent as a list. That it is still the same one when
  the `INSERT`s run rests on the order of the declaration (`RankAssumption`: two cells have two positions).
- `ErjetStore_lists`: `ListsAreWhole` (`WholeLists`), under `LocksFirst`: a body that replaces a list
  assigns a column of the first UPDATE too, which then locks the row. The run
  StoreMergedList is what happens to other bodies. The invariant `ListInv` says what a save has deleted and inserted as a
  function of its body and of the steps left (`Planned`, `Listing`, `Assigned`), which no other call can
  change; that it holds the row it has written (`Locking`); and that while it does, the lists it has
  deleted are empty but for its own rows, since whoever else would insert has to hold that row too (`Covered`).
  Then each list in the table is one that one save sent (`Sorted`).
- `ErjetStore_contract`: `ImplementsContract` (`KeepsContract`), under `LocksFirst` and without lost answers to
  commits (`~LossyCommit`: an error after such a commit has left its write, which the contract excludes). The commit is the
  one step seen from outside (`CommitMakes`, `OthersStay`): the row with its lists becomes what `Put` makes of the body
  and the row before; all others map to starting a call, refusing it or a stutter. It has one
  proviso, `[]NoneMissed`: that no save writes a row that was deleted under it, the flaw of StoreMissingRow. It can be had from the bodies: where each
  inserts a list row (`AlwaysInserts`), the foreign key finds the row gone and the save fails
  (`InsertsAreNotMissed`, which also gives `MissingRowIsNotReported`), so that for these
  the refinement holds with no proviso (`InsertsImplementContract`).
  `JournalIsTrue` (`JournalTellsTheTruth`), under `LocksFirst` too, takes what each list cell returned (`Echoed`), which old values were
  read (`Read`), and what both come to at the commit (`Settled`), for any `Text`; it needs finitely many languages (`IsFiniteSet(Keys)`),
  because a map of lists is compared as a whole and its rows are counted: a list that is whole has each of its rows once,
  so that what is read of it is a function of what it holds (`GoodReading`).
- `Handler_proofs`: `TypeOK`, `StatusTellsTheTruth`, `NoFilesLeftBehind`,
  `NothingReadonlySaved`, `SaveGetsOnlyTheBody`, `NoFileLost`, `SavedWasValidated` and
  `OnlyKnownRows`, for any schema, policy, body, preparation by Validate and number of requests. Those about
  bodies rest on lemmas about the operators of `WriteBody`, and say what Validate is handed: the engine does not look
  again at what it returns. `SavedWasValidated` assumes `MultisAreLists`: the schema of a
  field for several files says that it is an array. The invariants beside `Inv`: a form is on disk at the steps that
  use it only (`FormsInUse`), what Validate is handed is the injection of what was
  checked (`Judged`), and what was checked is a body (`Posed`).
- `ChildTable_proofs`: `TypeOK`, `RowsStayHome` and `OthersUntouched`, for any ids clients
  submit. The invariant: every row a call can see or is about to write lies in
  the partition its id was issued under, and no id has two homes. It needs the
  history of ids, since an id that another save has deleted is still in the
  list of ids this one took for its own.
  Where the saves of the field write their main row first (`Patches \subseteq Locking`) also
  `ListsAsSent` (`ListsRight`), `UnsentIsUntouched` (`UnsentStays`) and `EchoIsCommitted` (`EchoRight`). Open saves then have
  parents of their own (`Apart`), so that no step of another disturbs what one has read (`Aside`).
  What a save has written is in partitions it has turned to (`Reached`), elements keep their ids and have
  distinct ones (`IdsKept`), and the parent's own differ only in what was sent (`OwnSpared`). A list that is
  being written has a row of its own for each element written so far (`Begun`), and besides
  those only the ones that wait to be updated; after the last element this is a bijection (`Done`).
- `KeyedTable_proofs`: `TypeOK` (`TypeCorrect`), `FullFormsAreSaved` (`FullFormsPass`) and `WaitsAscend`
  (`WaitsRise`), for any number of saves, tables, fields and keys. A save holds rows only at
  steps up to the one it is at (`Ascending`), what is left to do comes after it (`Behind`), and it waits
  only for a row at that step; where the fields of a table are declared side by side
  (`Together`) the order of two saves agrees, so that along a circle of waits the step
  would rise for ever. `NoCircle` (`NoneStuck`) concludes that there is none: of finitely many calls
  (`IsFiniteSet(Calls)`) the one with the fewest steps above its own waits for nobody.
  `PatchIsSaved` (`PatchRight`) and `EchoIsCommitted` (`EchoRight`), where the save has
  written its main row (`LocksParent`). Then open saves have parents of their
  own (`Apart`), and what a save sees of each field and key is what is committed or what it was
  sent, depending on whether the loops have been there (`Staged`, `Progress`): a field that is cleared is
  half way between the two while its key is being written, since the clearing runs first and the
  upsert leaves it alone.
- `Declaration_proofs`: `TypeOK`, `FormIsAccepted`, `SentIsParsed`, `EveryFieldShown` and `OwnWordsOnly`, for any
  number of entries, calls on a field, cells, sections, blocks and requests. `TypeOK` says that every
  constructor, wrapper and modifier keeps the two halves of each layer in agreement (`Halves`), to any
  depth; with the lint it gives `FormIsAccepted`. The invariant for `OwnWordsOnly` is that labels go only
  into maps the request has copied, and that nobody else has those. `EveryFieldShown` counts
  sections, which the lint makes a bijection with the registry. `SentIsParsed` (`NothingIsLost`) is about the cells
  there are (`CellsAssumption`: `AllCells`, where a list holds scalars) and needs that fields have the shape the
  vocabulary gives them (`Shaped`: one type beside null, a keyed field says what its keys hold, and fields of blocks have the layers
  `Items` and `Keyed` give them); every constructor,
  wrapper and modifier keeps that, and `BlocksAssumption` asks it of the fields of blocks. Then the wire shape
  the lint compares tells the kinds a value has at each depth (`WireTells`), and for each cell these are the kinds it
  parses (`CellParses`), but for the texts and integers it skips (`Skipped`) and the other exceptions in `Told`. Three lemmas are listed too: the comments at
  `Nullable` and `Readonly` that promise one result for both orders and for a second call.
- `ColumnCell_proofs`: `TypeOK` (`WritesFit`) and `SavedIsShown` (`EchoIsRead`), under three
  hypotheses: the server is not west of Greenwich (`Eastern`), uuids are sent as they are read, and
  no numeric is -0 (`Fits`). The invariant adds that what is in the form is what a form can
  send, numbers having been rounded once already. `UntouchedIsUnreported` (`NoFalseChanges`) and
  `UntouchedIsKept` (`NothingIsDistorted`) need a fourth (`Legible`): a column of `Str` with a default for the empty text holds
  no empty text, which is what the default is for. Their invariant is that a form nobody has typed in still shows what the
  column holds (`Open`); with it each cell parses what it decoded to what it was (`LeftAlone`), because rounding
  a number or a clock twice is rounding it once.

`Distinct`, `NoneAssumption`, `AbsentAssumption` and their like say that a sentinel is none of the values it stands beside, as nil
in the code is none of them.

Only model-checked: `EveryCallReturns`, `EveryRequestAnswered` and `EverySaveReturns`, the liveness properties,
which are out of reach of the prover; and `SentFormsAreSaved` and `SuccessShowsARow`, which
the code breaks. `KeepsContract`, `WholeLists` and `JournalTellsTheTruth` are checked by StoreContract also for bodies that do not
lock first, one save at a time, where the theorems do not speak of them.
Where an argument counts (calls along a circle of waits, rows of a list) it is made with finite sets and their
cardinalities, since induction over data is out of reach too.

## Disagreements

What the code does and what its docs say differ in these places. Five have a run
of their own, with a trace:

1. **A deleted row is reported as updated** (`StoreMissingRow`, `store.go:145`). The number of
   rows of the UPDATE is not looked at, so a row deleted after the `before` read gives
   success and a report instead of ErrNotFound.
2. **Two lists merge** (`StoreMergedList`, `rels.go:132`). Saves that write only a list do not
   lock the parent, and the DELETE of one does not see the rows of the other.
3. **200 with no data** (`HandlerGoneRow`, `handler.go:339`). The Load after Save is not checked for nil.
4. **A form with a cleared NOT NULL field is refused** (`KeyedClearRefused`, `satellite.go:276`) when
   another field of the same row is filled: the upsert names that one alone.
5. **Dates drift west of Greenwich** (`CellDateDrift`, `column.go:530`).

The others are excluded by a named hypothesis of a property, or by how an instance is
chosen. Where it says what to lift, TLC gives a counterexample as soon as
that is done:

- **Stale old values** (`store.go:133`; lift `UpToDate` in `JournalTellsTheTruth`). With two
  overlapping saves of one column the second reports as old a value the first had
  replaced, although `change.go:3` calls it the value before.
- **Empty reports** (`store.go:272-282`). The comment of OnWrite at `store.go:45-46` has it called
  "only when something actually changed"; `wrote` calls it for every commit.
- **Two valid PATCHes, an invalid row** (`handler.go:262`; put `rows[req[r].id]`, while it is there, for the
  `current[r]` of an update in `SavedWasValidated`). Two fields a rule ties together, changed by two overlapping requests: each is valid over the
  row it has loaded.
- **What Validate makes is not validated** (`handler.go:304-312`, `types.go:56`; put `call[r].in` for `given[r].in` in
  `SavedWasValidated` and let `Prepares` clear the title). Validate runs after the structural validation and may put in what the schema does not admit, or
  a read-only key, which Save then sees after all (`handler.go:238-240` has it that it "physically never" does). It is also handed bodies that the
  structural validation has refused.
- **Changes the journal does not hear of** (`store.go:301`; put `before` and `after` themselves for their `Text` in
  `JournalTellsTheTruth`). `diff` compares `fmt.Sprint` of both values: from one element `a b` to two, `a` and `b`, or from null
  to the text `<nil>`, is a change that is committed and not reported.
- **A change the journal hears of twice** (`store.go:184`, `store.go:223-230`; demand `twice = {}` in `JournalTellsTheTruth`). "A field must have one source or the
  journal reports it twice" is kept for what Assignments writes. A deferred column that the create hook has filled
  and the body gives as well is appended by both.
- **A deleted element returns in part** (`child.go:672`; let saves of ChildLists overlap on a
  parent). Ids are read without a lock; an element another save has deleted since
  is inserted again with NULL in what was not sent.
- **A clearing that clears nothing** (`satellite.go:347`; drop `AloneNext` in KeyedForms). The UPDATE
  neither sees nor waits for a row another open save has inserted, and the save leaves half of its
  form. Without the parent's lock the journal of a save may also miss what another has
  committed between its read-back and its commit (`EchoIsCommitted`).
- **2^53** (`column.go:338`; let `Expressible` of `Int` be all integers). The bound is inclusive, and
  2^53 is what 2^53 + 1 is read as: a form saved untouched changes the column.
- **Uuids in capitals** (`column.go:385`; let clients send them). Echoed as sent, read back in
  lower case, hence reported as changed on every save.
- **-0** (`column.go:314`; let clients send it to `Num`). Echoed as -0, read back as 0.
- **Maps of lists of anything** (`ui/wire.go:138`; lift the depth in `Told`). "No cell of that shape exists
  in the store" is said of maps of lists, and the lint compares their keys alone. `KeyedChildValues` is such a
  cell (`child.go:234`): `Keyed(List(Integer()))` over `KeyedChildValues(Text)` is clean, and
  every element is dropped.
- **Admitted and not written** (`column.go:405-408`, `column.go:337`, `rels.go:194`; lift `Skipped` in `Told`). "Structural validation does not assert
  formats", so a text that is no time of its format passes it and is skipped by `Time`, `TimeLocal`, `Date`, `TimeOfDay` and
  `Timestamps`; an integer beyond 2^53 by `Int` and `Ints`, an empty id by `Rels`. Save succeeds without the field, or
  without the element.
- **A null that clears nothing** (`decl/lint.go`; lift null in `Told`). `Nullable` over `Str`, `Bool` or a
  list is clean, its schema admits null, and the cell writes nothing for it. Fields without a
  type match every cell and are not compared either.
- **A create nobody can fill** (`decl/lint.go`). `Required().Hidden()` is clean; the form requires a field it does
  not show. No property asks for it.
- **Tables declared apart** (`satellite.go:155`; in the instance of KeyedForms declare the slug between the title and the
  note, and lift `Together` in `NoneStuck`). When other fields stand between
  those of one side table, two saves that do not lock the parent first may take two
  tables in different orders, and wait for each other until the database ends one.

## Not modelled

- PostgreSQL, the driver and other writers of the same tables are external and
  modelled as far as the code leans on them: READ COMMITTED, row locks, the foreign
  key, NOT NULL, deadlock detection.
- `renderConflict`, error texts and logging: wording. `TakenByOther`: a query for hooks of an application.
- What a JSON Schema admits (`Admits` is a constant) and the rewriting of nested array
  schemas for uploads (`uploadArraySchema`), which only serves that judgement.
- Cells `JSON`, `JSONEditable`, `Strings`, `Floats`, `Timestamps`: the arrays differ from `Ints` in
  their element, JSON is passed through. `Declaration` has their shapes and the kinds they parse.
- Keyed tables, lists and child tables in one save: each is modelled with the main
  row, and the save runs them one after another in its one transaction.
- Of `ui`: `Prop`, titles and columns of groups, layouts, label texts, `Decimals` and limits, which are copied
  into a document and read by nobody else. Of the lint: its wording and the order of findings.
- `options.go`: a stateless read whose limit is clamped. Registry,
  catalog, configuration: built once, then read. Routers: six routes. `storetest`: a test suite.
- Panics of misdeclared cells: the models start from a declaration that was accepted.

## Plan

The order is by how much of the system's correctness hangs on the part. Done:

1. `EntityContract`, `ErjetStore` and the refinement; `NothingIsHeld`, `DeletedStaysDeleted`,
   `ErrorsLeaveNothing`, `TypeCorrect`, `ListsAreWhole`, `ImplementsContract`, `JournalIsTrue`.
2. `WriteBody`, `Handler` over the contract, `decodeBody` exit by exit; its eight theorems.
3. `KeyedTable`, `ChildTable`, `ColumnCell`, each with theorems for every property but liveness.
4. The lists of `KeyedChildValues` and of `ChildValues`, and `DeferredList`, in `ErjetStore`, with
   its proofs extended to them.
5. Several keyed tables in one save with each policy of clearing; `TypeCorrect`, `FullFormsPass`,
   `EchoRight`, `PatchRight`, `NoCircle`.
6. `FormField`, `Declaration`: the lint, what a clean one guarantees, and the sharing of the
   declaration between requests; its eight theorems.

Next:

7. The unknown-field policies and the create form in further instances of Handler.
8. Keyed tables and lists after one another in one save: the order of locks across both.
   Registry and options.
9. Proofs: `KeepsContract` without `LocksFirst` where saves do not overlap; `PatchIsSaved` and the theorems of
   `ChildTable` that assume the parent's lock, for saves that do not have it but are alone.
