# Verification of the Core Provenance Library

TLA+ models of prov-cpl, the TLC runs that check them, and TLAPS proofs of what
matters most. Paths are relative to `src/`; `standalone` stands for
`cpl-standalone/cpl-standalone.cpp` and `odbc` for
`backends/cpl-odbc/cpl-odbc.cpp`.

Every module is written from the code. What a comment or a header says beyond
the code appears only as a property, and where the code breaks it, as a finding.

## 1. Inventory

prov-cpl is a C/C++ library that stores provenance (objects, and relations
between them) in an SQL database through ODBC. A process *attaches* one backend;
after that any thread of it calls the library, and any number of processes and
hosts use the database at the same time. No SQL transaction spans two
statements: every statement commits by itself.

| Part | Code | State | Operations | What is hard | What makes it correct |
|---|---|---|---|---|---|
| Lookup-or-create | `standalone` 459-615, `cpl-standalone/cpl-lock.cpp` 198-307, `odbc` 1287-1421 | rows of `cpl_objects`; a named POSIX semaphore shared by all processes of a host | `cpl_lookup_or_create_object`, `cpl_lookup_object`, `cpl_create_object` | processes that interleave, die in the section, retry an INSERT | the permit is never duplicated; no object is made that is there; answers agree |
| Statement pool | `odbc` 831-871, 886-1036 | for each operation: `CPL_STMT_MAX` (4) statements, a mutex, a semaphore | `cpl_acquire_stmt`, `cpl_release_stmt` around every operation | the lock is a copy; loads and stores interleave | one user for each statement; no stall; nobody is handed NULL |
| Lifecycle | `standalone` 104-143, 158-418 | `cpl_initialized`, `cpl_db_backend`, the open semaphore, `cpl_backend_lock` | `cpl_attach`, `cpl_detach`, `CPL_ENSURE_INITIALIZED` in all others | unlocked reads, early returns under the lock, misuse | operations find a live backend; one destroy for each backend; the lock comes back |
| Import | `standalone` 1791-2168 | rows inserted, `lookup_tbl`, local ids | `validate_json`, `import_document_json` | many INSERTs without a transaction, names shared with other clients, failure half-way | the bundle is the document; imports do not mix; a DAG stays one |
| Export | `standalone` 2250-2486 | id table, fetched rows, fetched info | `export_bundle_json` | two SELECTs without a snapshot; ownership of fetched info | an import is given back; nothing foreign is freed |
| Tables | `odbc` 617-770, `scripts/postgresql-setup.sql` | `cpl_objects`, `cpl_relations`, their sequences | one SQL statement each | ids of objects and of relations are two sequences | members of a bundle are relations that exist |
| Properties, prefixes | `standalone` 627-924, 1102-1421, 1890-2088; `odbc` 1698-1935, 2450-3038; `postgresql-setup.sql` 88-151 | three tables of one shape, with rules that ignore duplicates and without unique keys | `cpl_add_*_property`, `cpl_add_prefix`, the imports that call them, `cpl_get_*_properties`, `cpl_get_prefixes`, `cpl_lookup_object_by_*_property` | the rule's test and the insertion are two steps; retries; results the import ignores; conversions on the way in and out | the first value of a key stays; a call adds at most one row; what is imported comes back |
| Queries, reconnection | `standalone` 949-1089, 1360-1395, 1439-1562; `odbc` 134-283, 470-829, 1438-3465 | the pools of statements of the connection, open cursors, the stack of calls | `cpl_get_*`, `cpl_lookup_*_ext`, their callbacks, `SQL_EXECUTE_EXT`, `cpl_odbc_reconnect` | callbacks that ask further queries, to any depth; errors between execution and release; statements that are freed and prepared anew under a call | statements come back to their pools with their cursors closed; answers are complete and of rows that exist; calls end |
| Sessions, platform, bindings, REST, build | `bindings/`, `make/`, ... | none that matters here | forwarding, packaging | - | not modelled, see section 8 |

How the parts interact: every public function tests `cpl_initialized`
(lifecycle) and calls the backend, which takes a statement from a pool, executes
it, reconnects and retries if the link is broken, and gives the statement back.
Import and export are sequences of such calls. Lookup-or-create puts two of them
between a wait and a post. The only things that processes share are the database
and the semaphore. `PROJECT.json` lists the hazards line by line.

## 2. Modules

| Module | Models | Extends / instantiates |
|---|---|---|
| `AtomicLookupOrCreate` | what lookup-or-create promises: one indivisible step between call and return | - |
| `LookupOrCreate` | the call step by step, its environment, its properties | INSTANCE `AtomicLookupOrCreate` |
| `LookupOrCreate_proofs` | theorems, refinement proof | `LookupOrCreate`, TLAPS |
| `StmtPool`, `StmtPool_proofs` | one pool of prepared statements; theorems | |
| `Lifecycle`, `Lifecycle_proofs` | attach, detach, operations; theorems | |
| `ProvStore` | the two tables and the statements on them | |
| `ImportDocument` | `import_document_json`, `validate_json` | `ProvStore` |
| `ExportBundle` | `export_bundle_json` | `ProvStore` |
| `AtomicDocuments` | what import and export promise each other: documents that are published at once and come back | - |
| `Documents` | imports, exports and `cpl_create_object` on one database | both, INSTANCE `AtomicDocuments` |
| `Documents_proofs` | theorems: imports by themselves | `Documents`, TLAPS |
| `Documents_complete_proofs` | theorems: imports against their documents, anchors, exports, refinement proof | `Documents_proofs` |
| `PropertyMap` | what the tables of properties promise: a map in which the first value stays | - |
| `Properties` | writers, imports, rules, retries and readers of the three tables | INSTANCE `PropertyMap` |
| `Properties_proofs` | theorems: writers, refinement proof | `Properties`, TLAPS |
| `Properties_readers_proofs` | theorems: exports, getters and lookups | `Properties_proofs` |
| `Queries` | the queries of a client, their statements, callbacks and reconnections | `ProvStore` |
| `Queries_proofs` | theorems | `Queries`, TLAPS |
| `MC...` | constants for TLC | |

The definitions that are marked *Faulty variant* are not part of any
specification. Each is a plausible bug in the place of the definition below it,
kept so that every property can be seen to fail (`mutants` in `PROJECT.json`).

### LookupOrCreate
One `pc` for each process follows `standalone` 593-615: `wait` (604), `lookup`
(606), `create` (609), `post` (612-614). A row of `cpl_objects` is an id, a name
(prefix and name together), a type, and, as history, its maker. `SemWait` and
`SemPost` change the one semaphore. `LookupFinds`, `LookupMisses` and
`LookupFails` are the three outcomes that line 607 tells apart; `RejectType` is
`CPL_ENSURE_O_TYPE` (type 0 passes the lookup and not the creation);
`InsertFails` includes the row that is there although its id could not be
fetched; `LoseReply` is `SQL_EXECUTE_EXT`'s `goto retry` after 08S01, with
`retries_left` counted down. `AssertFails` is the assertion of `odbc` 1294-1295,
which a default (debug) build fails for `CPL_BUNDLE`. `Die` is the end of a
process anywhere. A process stands for a process or a thread: the semaphore
treats them alike.

### StmtPool
One pool; the pools of different operations share nothing. `pc` follows the two
loops of `odbc` 831-865 at the grain of single loads and stores, since mutex
and semaphore are passed **by value** and exclude nobody. `SharedSema` says
whether the semaphore is a pointer (`dispatch_semaphore_t` on macOS) or copied
(`sem_t`), the variable `oneLoad`, which never changes, whether the compiler
reads `stmt_array[i]` once or twice. `crowded` remembers whether there were ever
more operations in progress than statements.
`Store` has no return behind it (860): the scan goes on and posts again.

### Lifecycle
One action for each assignment to a shared variable (`standalone` 158-418) under
`cpl_backend_lock`, and `EnsurePasses` / `Operate` for any other function, which
test without the lock. `misuses` says what a program may do beyond the header:
attach NULL, detach without having attached, detach while operations run. It
never changes; `TypeOK` and the properties say which misuse spoils which
guarantee. The code the source has commented out (sessions, 182-376) is not
there.

### ProvStore, ImportDocument, ExportBundle, Documents
The tables are sets of rows, numbered by two sequences. Each statement is one
step. `import[i]` and `export[e]` are records of the local variables, with `at`
for the control: `bundle` (2120), `prefixes` (2124), `objects` (2128-2134),
`anchors` / `anchor` / `linkAnchor` (2139-2155), `relations` / `dest` / `relate`
/ `link` (1995-2045). `lookup_tbl` is a function from the document's keys.
`Tokens` is `name_to_tokens`: "a" and ":a" are stored as one name, which is why
it is not the identity. `ImportFails` stands for every failure of a statement or
of a lookup, with its INSERT executed or not; `RepeatInsert` is `goto retry`
after 08S01 with the INSERT executed by the server, which leaves a second
bundle, object, relation or membership. In the export, `FreesWild` is the
combination of `is_from_info`, `from_info` and `to_info` of 2401-2436 in which
an unassigned pointer is freed.

`AtomicDocuments` knows no tables: an import publishes the relations of its
document in the step that answers `CPL_OK`, and an export that asks for that
bundle alone, and begins later, answers with what was published. Relations are a
type and two names, as exports write them; those to anchors may come on top. In
`Documents` what an import that is not done has inserted so far maps to nothing.

### PropertyMap, Properties
`rows` is the union of `cpl_object_properties`, `cpl_relation_properties` and
`cpl_prefixes`; an item, a name and a kind tell their rows apart. A writer is a
call of `cpl_add_*` (a job of one entry) or an import's loop over the entries of
one object, one relation or the prefixes. `at` is `next` (the head of the loop),
`sent` (`SQLExecute`), `checked` (the rule's `EXISTS` has been evaluated, on the
snapshot of its statement), `stored` (the server has committed; the reply is on
its way), `ok`, `failed`. `BreakLink` is `goto retry` after 08S01, with the
statement committed or not. `Float`, `Stored` and `Collected` are the
conversions: `val_json.get<float>()`, `std::to_string`, and buffers of
`CPL_VALUE_LEN` bytes with the final 0 (`Cut`). `ImportRelationProperties`
prepends the ends of the relation, because the test of 2051 that is to leave
them out compares `it.key()` in the place of `it2.key()`. `AfterError` tells the
imports apart: the one of prefixes looks at results (1900), those of properties
do not (1948-1965, 2057-2079). An export reads the three kinds with three
SELECTs (`GetProperties`) and lets the last row of a name win (`LastOfEach`),
then writes the ends.

A retry is a second `Commit` of the same call. `PropertyMap` has no word for
that: `Properties` implements it, with `rows` mapped to the set of their keys
and values.

### Queries
All queries of `odbc` 1438-3465 follow one scheme, which the actions spell out:
`Acquire`, `Execute`, `Fetch` (rows into a local list, cursor closed),
`Release`, and only then `Callback`, row by row. `Statements` names the arrays,
`Rows(k, q)` is the SELECT prepared in them, `Lists` and `Singles` tell the
queries with callbacks from those that fetch one row. `calls` is the call stack
of one thread: a callback that calls the library pushes a call. `link` numbers
the connections, and a statement knows its array, its connection and its place;
a statement of an old connection is freed. After `Reconnect` the local variable
`stmt` is either still freed (`ExecuteFails` is then the only way on) or its
address has been given to a new statement of any array. `dangling` is the state
after a failed reconnection (`odbc` 782-791): the arrays are freed, and nothing
is said of what follows.

## 3. Runs

| Run | Shows | Bounds |
|---|---|---|
| `LoC_retries` | `TypeOK`, `PermitAccounting`, `OneMaker`, `AnswersAgree`, `SectionIsLeft`, `PermitReturns`, with deaths, errors, broken links, assertions and a direct creator | 2 callers, 1 creator, 1 name, 2 types (one that asserts) and "any", 2 retries, 3 ids |
| `LoC_atomic` | `UniqueObject`, and that the protocol implements `AtomicLookupOrCreate` | 3 callers, no broken links, no direct creator, 3 ids |
| `Pool` | `TypeOK`, `PermitsNeverLost`, `Served`, `Refilled`, `PermitComesBack` | 3 threads, 2 statements, one load and two, shared semaphore |
| `Pool_exclusive` | *violates* `Exclusive` | 2 threads, 2 statements, Linux |
| `Lifecycle_all` | `TypeOK`, `NoLeftoverBackend`, `OperationsFindBackend`, `OneAttached`, `DestroyedOnce`, `LockComesBack` | 3 threads, 2 backends, all 8 kinds of programs |
| `Lifecycle_refused` | *violates* `LockAlwaysComesBack` | 1 thread |
| `Documents_imports` | `ImportsStayApart`, `MembersOfBundle`, `AnchorsComeLater` | 2 imports, 4 documents |
| `Documents_exports` | `TypeOK`, `MembersOfBundle`, `ImportIsComplete`, `ValidStaysAcyclic`, `RoundTrip`, and that the calls implement `AtomicDocuments` | 1 import with 1 repeated INSERT, 1 export of one or two bundles, a creator of objects and bundles, 4 documents |
| `Documents_wild_free` | *violates* `FreesWhatItGot` | 1 import, 1 export |
| `Properties` | `TypeOK`, `OneRowPerCall`, `ImportIsStored`, `PropertyRoundTrip`, `EndsPrevail`, `Retrievable`, and that the tables implement `PropertyMap` | 2 writers, 1 export; 1 object, 1 relation, 1 bundle; 9 jobs; 1 retry |
| `Queries` | `TypeOK`, `PoolIsWhole`, `Answered`, `LineageIsSymmetric`, `CallsEnd` | a query in a callback of a query, 2 statements, 2 objects, 2 relations, 2 connections, 1 retry |
| `Queries_stale` | *violates* `ExecutesPrepared` | 1 query, 1 object |

Why the bounds are enough:

* `MaxId` (object ids) is 3: two objects of one name need two, and a third lets
  an answer go stale between them. Where it is reached only further INSERTs are
  cut off; their failure stays possible. One name suffices since rows of
  different names never meet in a query.
* `Retries` is 2 or 1 in place of 3: a retry after a retry behaves like the
  first.
* `MaxSem` bounds the free permits of the pool, which grow with every call
  (section 4): beyond the number of threads more permits change nothing.
  `N` is 2 in place of 4, so that both fewer and more threads than places fit.
* Two backends: one alive and one that races with it; three threads: attach,
  detach and operation at the same time.
* The documents are: two keys of one stored name (`Twins`); one key in two
  sections and a loop (`Loop`); a relation that leads out of the document
  (`Outward`), of a type that any object may be the end of; a relation without
  its end (`Endless`). At most one anchor, an
  object that exists and is not a bundle. `MaxObjects` bounds the objects that
  other clients create; they have the name that `Outward` leads to, and one is
  a bundle. `MaxRepeats` bounds the INSERTs of one import that are
  executed again: what one leaves behind, a second one leaves behind, too, and
  the theorems hold for any number. (The code allows three in each statement.)
* Properties: the jobs have a name with two spellings ("a", ":a"), a property
  named like an end of the relation, an integer that a float holds and one that
  it does not (`Exact` = 8 in place of 2^24), a text of maximal length, all
  three scalar types and one that is none. Two writers suffice for the race of
  the rules, which is between a test and an insertion of one key.
* Queries: with `MaxNesting` 2 a call is between two others of the same pool;
  `Inner`, `AskedTypes` and `Reused` keep the arguments few. Two relations are
  one and its membership, and ids of objects and relations collide.
* Symmetry is used on callers, threads and imports, which are interchangeable,
  and never with a liveness property.

## 4. Findings

1. `Pool_exclusive` (`odbc` 832): mutex and semaphore are passed by value, so
   two threads use one prepared statement at the same time. What survives is
   remarkable: no permit is lost, the pool never stalls, and as long as no more
   than `CPL_STMT_MAX` operations are in progress (with one load) nobody is
   handed NULL. On macOS the semaphore grows with every call, as a release posts
   once for each place it fills and once more.
2. `Lifecycle_refused` (`standalone` 407): `cpl_detach` on a library that is not
   attached returns with `cpl_backend_lock` held, as does `cpl_attach(NULL)`
   (163): the next call of either blocks for ever. The repository's own tests
   end that way, harmlessly, because they detach twice and exit
   (`test/standalone-test/test-simple.cpp` 945, `standalone-test.cpp` 382).
3. `Documents_wild_free` (`standalone` 2424): `is_from_info` in the place of
   `is_to_info`: an export that sees a bundle grow frees an unassigned pointer.
4. `Queries_stale` (`odbc` 186): after a reconnection `goto retry` goes on with
   the local variable `stmt`, which has been freed. At best the retry fails; at
   worst it binds and executes the statement of another query.

Disagreements seen while modelling, without a run of their own:

* The INSERT of an object is executed again after a broken link although the
  first one may have been committed: `UniqueObject` holds in `LoC_atomic` only
  because links do not break there (`LinkFails`, and the theorem
  `UniqueWithoutBrokenLinks` says so).
* The name of an anchor is looked up in the whole database instead of in
  `lookup_tbl` (`standalone` 2144): `AnchorsComeLater` says what remains.
* `cpl_lookup_relation` "get the latest one" (`standalone` 855-858): its SELECT
  has `LIMIT 1` without an order (`odbc` 662-666), so any of them may come.
* `has_immediate_ancestor` binds its arguments the other way round than
  `get_object_relations` understands ancestors; it has no caller.
* The ends of relations are stored as properties (`standalone` 2051), and a
  property of an end's name is overwritten on export (`EndsPrevail`).
* `get_prefixes` with a key reads a table that no script creates and waits on a
  semaphore that nobody initializes (`odbc` 767, 2927).

## 5. Fairness

* `LookupOrCreate`: weak fairness of each caller's steps inside the library. A
  process that is not killed and not blocked runs on. Nothing is assumed of the
  semaphore's order, so a particular waiter need not get in, and no property
  says it does; `Call`, `Die` and the other clients owe nothing.
* `StmtPool`, `Lifecycle`: weak fairness of each thread's steps. The operations
  themselves are assumed to end, as ODBC calls with a live server do.
* `Queries`: weak fairness of the client's steps inside the library, the
  callbacks' returns among them. A retry is bounded by `retries_left` alone.
* `Documents` and `Properties` have no fairness and no liveness property: their
  calls are sequences of statements, each of which ends.

Where a configuration says `CHECK_DEADLOCK FALSE` the system really may stop:
callers stop calling, every modelled call has ended, a misuse has left the
lock behind, or a reconnection has failed.

## 6. Proofs

All eight proof modules are checked by tlapm without omitted steps, and state
every invariant and every action property that a passing run checks. The only
assumptions are the named `ASSUME`s of the constants (sentinels differ from
values; sets of threads are finite; bounds are natural numbers; in `Properties`,
the two ends of a relation have different keys, as in each row of `rdata_array`,
and ids are told apart by the table they are in).

*LookupOrCreate.* The inductive invariant `Inv` is `TypeOK` with `MutexInv` (the
permit is in the semaphore, with exactly one process in the section, or leaked,
spelled out process by process), `CallInv` (a call has a request, and an answer
from `post` on), `IdInv` (ids in the table are below `nextId`), `CreateInv` and
`OneMaker`. `OneMaker` alone is not inductive: a process that inserts must know
that what matches its request by now was made by itself (by an INSERT whose
reply was lost) or by a caller of `cpl_create_object`. That is `CreateInv`, and
it lasts from the lookup to the INSERT only because nobody else is in the
section (`MutexInv`). `TypeOK`, `PermitAccounting` and `OneMaker` follow at once,
the accounting with the cardinality of a set of at most one process.
`UniqueObject` needs `UniqueInv`, which strengthens `CreateInv` to "nothing but
direct creations matches" where links do not break. `AnswersAgree` needs
`AnswerInv`: as long as nobody disturbs a request by a direct creation, every
answer given or about to be given is the *latest* match, and a process that
creates knows that no answer has been given yet. `IsAtomic` is shown step by
step under `UniqueInv`: the wait and the lookup that
misses are stutters, the step that decides the answer is the abstract one, and
the post is part of the abstract return.

*StmtPool.* `PermitsNeverLost` is inductive with the types and the fact that a
copied semaphore keeps its value (`PermitInv`): whoever leaves `Holders` posts.
`Served` and `Refilled` need a counting argument (`FewInv`), as long as the pool
has not been crowded. A thread has reached
level i when its scan is at place i or has found its statement there. A scan
goes on from i to i + 1 only if place i is empty; then a thread that emptied it
and has not refilled it (`Covers`, `EmptyInv`) is at level i and not beyond. So at
most N + 1 - i threads are at level i or beyond (`LevelInv`), none at N + 1, and
none leaves the scan with nothing.

*Lifecycle.* `Inv` ties the place of the lock's holder to the three globals
(`LockInv`, `GlobalsInv`), arguments of running attaches to backends that are not
destroyed, not attached and not each other's (`ArgInv`), operations past the test
to `initialized` and the absence of detaches (`OperateInv`), and the callers'
bookkeeping to `initialized` (`AttachedInv`). The last two hold under the
absence of one misuse each. The properties are read off `Inv`; `DestroyedOnce`,
an action property, is proved from it action by action.

*Documents.* `Inv` holds of the rows (`RowsInv`: ids below the sequence, one row
each), of the form of an import's record (`CallsInv`), and of each import by
itself (`LocalInv`). What others do leaves `LocalInv` alone, because rows only
come and each row has a maker (`OthersKeep`); so the proof looks at one import at
a time. `TableInv` says that `lookup_tbl` is injective and leads to objects of
the import's own, `EdgeInv` that without `CPL_J_EXTERN_OBJ` and anchors the ends
of its relations are those objects, `MemberInv` that memberships are of its own
relations and that at most one relation for each broken link, not counting the
one at hand, is without. `ImportsStayApart` and `MembersOfBundle` follow.
`ValidStaysAcyclic` does because an injective renaming of a DAG is one: a set of
ids without a sink would be a set of names without a sink.

*Documents, complete.* `Inv` says that what is there is the import's own, not that
it is all of the document. `CompleteInv` adds, for each import, `StoryInv`, which
ties each position it has come to in the document to the rows before it:

* `StoredInv`: an object with name and type for each entry before the position
  (all entries from `anchors` on), and the bundle.
* `LinkedInv`: a row for each relation before the position, with its type and
  the names of its ends, that is a member of the bundle. The ends are compared by
  name because `lookup_tbl` and, with `CPL_J_EXTERN_OBJ`, the database lead to
  ids of some object of the name (`NamesInv`, `HandInv`).
* `CountInv`: the number of members, not counting the relation at hand. A
  membership that is inserted twice joins the same relation, a relation that is
  inserted twice joins once, so broken links do not count, and at `ok` there is
  one member for each relation and at most one for each anchor.
* `RowsOf`, `AnchorsInv`: where rows come from at any time, also after a failure.
  Anchors are rows that were there before the import had any, which gives
  `AnchorsComeLater`.

Rows of others matter only through `MembersByMaker`: whoever adds a member to a
bundle has made the bundle. `ImportIsComplete` is `CompleteInv` at `ok`.

`ExportsInv` follows an export of the bundle of an import that was done when it
began. From then on the members of the bundle and the rows of their ends do not
change (`DoneSettles`): the import takes no further step, and nobody else may
add a member. So the two SELECTs, although made at different times, are of one
state: the table has the ids of all ends, none is asked for by itself, and
nothing unassigned is freed. `RoundTrip` and the export's part of `TypeOK` follow.
The objects that come out are the ends of the relations but for bundles; a
relation can end at a bundle, by an anchor or by a name outside of the document,
and is then exported without a section for that end, which `RoundTrip` says.

`IsAtomicDocuments` is shown step by step from the same facts. The end of the
loop over the relations is the abstract publication: by `CompleteInv` each
relation of the document is in the bundle, and if the request has no anchors
nothing else is. No later step takes that back (`DoneSettles`), which every step
must show for the imports it is not about. The last step of an export is the
abstract answer, and by `ExportsInv` what it has collected is what was
published. All other steps, retries and what other clients add among them, are
stutters. An import that fails has inserted rows, but published nothing; that
exports of *its* bundle find some of them is not excluded.

*Properties.* `Inv` is `TypeOK`, `OneRowPerCall` and, for each writer, what it
may rely on although the rule's test and the insertion are two steps: a key that
had a value keeps one (`Knows`), a call that is executed again finds its own row
(`Leaves`), and the entries of an import before the current one are stored or
failed (`Stores`). `IsPropertyMap` is shown step by step: sending the statement
is the abstract begin, a commit that is not ignored the abstract taking of
the key, the answer the abstract return, and everything else, the repeated
commit among it, a stutter.

*Properties, readers.* `ReadersInv` follows a value from the document to a later
export. Each row is that of one entry of its writer's document, converted, and
of a kind its table takes (`Comes`). An import that has succeeded is `Lone` if
all rows of its item are its own, which follows from `Undisturbed`. Rows only
come, so it has been so since it ended, and what an export has collected of it
section by section shows its entries (`Shown`): an entry that is `Alone` has one
row, and what is merged over it has other names. `EndsPrevail` needs that the
ends are merged last and have different keys. `Retrievable` is about the rows
alone.

*Queries.* `Inv` says where each statement is: in its place, but for the first
of the array whose call is inside the library, unless a reconnection has filled
the arrays behind that call's back; and the only open cursor is that of the
statement it has executed (`PoolInv`). All calls but the innermost are in a
callback, with nothing taken (`CallsInv`). `PoolIsWhole` follows for any depth.
`AnswersInv` follows the rows of each call: what was there when it began is
among what it has fetched and told, which is among what is there, as rows only
come (`RowsGrow`), and as long as the call has its own statement (`reused`).
`Answered` and `LineageIsSymmetric` are read off it.

## 7. Only model-checked

Liveness (`SectionIsLeft`, `PermitReturns`, `PermitComesBack`, `LockComesBack`,
`CallsEnd`):
out of reach of the prover. All invariants and action properties of the passing
runs are proved, and all three refinements. The findings are counterexamples of TLC.

## 8. Assumed and not modelled

* The order of `creation_time` is the order of ids. The database server executes
  a statement atomically. `sem_post` does not fail.
* Fetch loops and callbacks on local lists touch no shared state; in `StmtPool`
  and `Lifecycle` they are part of `EndUse` and `Operate`, in `Queries` they are
  steps of one thread.
* In `Documents` the INSERTs of properties and prefixes happen inside a step and
  may make it fail; what they leave behind is in `Properties`, where objects and
  relations are given.
* A reconnection while *other* threads use the connection: their statements, the
  arrays and the connection are freed under them, which is undefined from the
  first use on.
* Clients that call `cpl_add_relation` on bundles themselves while a document is
  imported, and anchors that are bundles or do not exist.
* `cpl_lookup_object_property_wildcard` (a LIKE pattern, one id of any order),
  `get_prefixes` with a key (see section 4), `create_session` (its only call is
  commented out), host-unique ids (not compiled), platform wrappers, the SWIG,
  Java, Python and R bindings and the REST service (they forward and keep no
  state), build and packaging.

## 9. What could follow

* Properties in the abstract documents: `Properties` and `Documents` composed,
  with an export that gives back both.
* The composition of `StmtPool` with a reconnection by one of its threads, if
  the library is given a lock that makes it defined.

## 10. Running

    tlc -workers 2 -config LoC_retries.cfg MCLookupOrCreate
    tlapm LookupOrCreate_proofs.tla

On two cores `Documents_exports` takes some minutes, every other run a minute or
so; the proofs some minutes.
