# Cot in TLA+

Cot is a web framework in Rust: an ORM with migrations, sessions and authentication, a router, forms,
an admin panel and the bootstrapping that ties them together. This directory holds TLA+ models of the
parts of it that are hard to test, TLC configurations that check them on small instances, and theorems
that TLAPS proves for every instance. Paths below are relative to the repository; short names
(`migrations.rs:180`) are files of `src/cot/src`, or of `src/cot-cli/src`, `src/cot-macros/src` and
`src/cot-codegen/src` where no such file is in `cot`.

    tlc -workers 2 -config engine_mysql.cfg MCMigrationEngine.tla     # model-check one run
    tlapm MigrationEngine_proofs.tla                                  # check the proofs of a module

`PROJECT.json` maps every definition that models code to its lines, and lists the runs, the mutants that
show that each property can fail, the hazards and the theorems.

## 1. Inventory

| Component | Source | State | Operations | Who calls whom | Hard behaviour | What makes it correct |
|---|---|---|---|---|---|---|
| Migration operations | `db/migrations.rs` 340–700 | the tables, columns and foreign keys of a database | `Operation::forwards`, `backwards` | run by the engine | a DDL statement that fails half way through a history; `IF NOT EXISTS` | backwards gives back what was before forwards; never refused in reverse order |
| Migration engine | `db/migrations.rs` 58–228 | the `cot__migrations` table, the schema; of each run, which migration and operation it is at | `run`, `is_migration_applied`, `mark_migration_applied` | `run_at` at every start of a server (`project.rs` 1668–1686) | several servers start together, no transaction; a crash between an operation and its record; restarts | a log in dependency order, every entry once, never ahead of the schema; serving servers are left alone |
| Migration sorter | `db/migrations/sorter.rs` | the list, the lookup table, the graph | `sort` | `MigrationEngine::new` | dependencies across apps, through models; four kinds of refusal | dependencies first, nothing lost, refusals have a reason |
| Graph algorithms | `utils/graph.rs` | visited status, stack, permutation | `toposort`, `apply_permutation` | the sorter and the generator | recursion, cycles, double edges; in-place swaps | topological order or a real cycle; items land where the permutation says |
| Migration generator | `cot-cli/src/migration_generator.rs` | the source's models, the migration files with their copies of the models | `generate_migrations`, cycle removal, file naming | the developer runs `cot make-migrations` | two sources of truth (operations and copied models), cycles of foreign keys, `todo!()` | files replay to the source, declare what they need, nothing is lost |
| Authentication and sessions | `auth.rs`, `auth/db.rs`, `middleware.rs` | the user table, the session store; per request a copy of the session and the cached user | `user`, `authenticate`, `login`, `logout`, `save` | views; session layer from `tower-sessions` | requests overlap; key rotation; password changes and hash upgrades race | a user is served exactly as long as the login is good |
| Router | `router.rs`, `router/path.rs` | the routes, nested; the recursion of a search | `with_urls`, `handle`, `get_handler`, `reverse` | the pipeline, views and templates | backtracking through nested routers, parameters collected inside out, escapes | first fit wins, parameters are the pieces of the path, reversed URLs lead back |
| Request data | `request.rs`, `request/path_params_deserializer.rs`, `body.rs` | the path parameters; the body, taken once | `PathParams::parse`, `form_data` | views, forms | parameters by name and by position; a body read twice | a view reads what was in the path and in the body |
| Bootstrapping | `project.rs` 902–1197, 1645–1771, `cli.rs` | stage of the bootstrapper, context, apps | `with_apps`, `boot`, `run_at`, `check`, `collect-static` | `main` | failure at each stage; clients that connect before the server is ready; apps taken out of the context while `init` runs | no stage runs before what it needs; who connects is answered or let go |
| Request pipeline, error pages | `project.rs` 1702–1826, `error_page.rs` | thread-locals with a panic's location and backtrace, the panic hook | `request_handler`, `build_cot_error_page`, `build_custom_error_page`, `error_page_panic_hook` | the HTTP server | panics in views and in handlers for errors; requests that change thread at an `await` | every request is answered, with its own diagnostics |
| Middleware, static files | `middleware.rs`, `static_files.rs` | a map of files, fixed after start | `call` | wraps the router | none beyond the pipeline's | a file is served or passed on |
| Forms | `form.rs`, `form/fields.rs`, `cot-macros/src/form.rs` | a context of values and errors | `build_context`, `from_request`, `clean_value`, `Display` of fields | views, admin | HTML and validation are written apart; values of one name several times | a form is accepted if its HTML accepts it |
| Admin panel | `admin.rs` | none of its own | `index`, `login`, `view_model` | router, forms, auth | body read twice on a failed login | its pages are for those who logged in |
| ORM statements | `db.rs`, `db/impl_*.rs`, `db/fields.rs` | rows, generated keys | `insert`, `save`, `update`, `delete`, `get`, `exists` | views, auth, engine | generated keys without `RETURNING`; upserts; several tasks; integer widths | the model in memory is the row that was written; no other row is touched |
| Foreign keys of models | `db/relations.rs` | a key, or the model read for it | `get` | views | a link to a model that has no key yet, or whose row is gone | links are lost for known reasons only |
| Queries | `cot-codegen/src/expr.rs`, `cot-macros/src/query.rs`, `db/query.rs` | none | `query!`, `Query::all`, `exists`, `delete` | views, ORM, auth | an expression is grouped by a parser of Cot's, by rustc and by the database | a query selects the rows its expression is true of |
| Macros and code generation | `cot-macros`, `cot-codegen` | none | text in, text out | compile time | what they write is above | — |
| Project creation, HTML, error types, test support | `cot-cli/src/new_project.rs`, `html.rs`, `error.rs`, `test.rs` | none | text in, text out | tests | none that depends on an order of steps | — |

How they interact: `make-migrations` writes files, which are compiled into the apps; at the start of a server the
sorter orders the migrations of all apps with `toposort` and `apply_permutation`, the engine runs them
against the database, which other servers may be doing at the same time; then the server answers requests,
each of which passes the static files, the session layer and the router; its view may read parameters, forms, sessions and users,
and read and write models.

## 2. Plan

The order was by how much depends on the part and how little tests reach it.

1. *Done.* Operations and engine (abstract `MigrationLog`, refinement, proofs), history of operations (proofs),
   `toposort` and `apply_permutation` (proofs), the sorter that composes them (proofs), the generator (proofs), authentication and sessions
   (proofs), the router (proofs).
2. *Done.* `Server` over `Forms`: start, requests on several threads, error pages, admin (proofs). `Orm` (proofs), and `OrmQuery` over `Orm` and `QueryExpr`: statements, foreign
   keys, queries. `PathParamsDeserializer` above the router.
3. *Done.* What the parser of patterns reads, what the parameters of a path are, and that reversed URLs lead back (proofs).
4. *Later, if wanted.* `MigrationGenerator` with two working copies that are merged, and files written by hand; `PathMatcher` with characters
   of two bytes.

## 3. Modules

| Module | Models | State, and what it is in the code |
|---|---|---|
| `SchemaOperation` | one `Operation`, forwards and backwards, as a function of the schema, with what the database refuses | a schema is a function from tables to columns and foreign keys |
| `MigrationLog` | what the engine promises: an append-only log of migrations in the sorted order | `log`, `loggable` (the migrations there are to log; never changed) |
| `MigrationEngine` | `MigrationEngine::run` by any number of servers | `migrations` (one of the lists in `Histories`; never changed), `schema`, `rows` (table `cot__migrations`), and per server `pc`, `migration`, `operation`: the awaits of `run` are the places where it can be interrupted. INSTANCEs `MigrationLog` with `log <- ` the migrations of `rows`, and `loggable <- ` those that have an operation |
| `OperationHistory` | operations run and undone in stack order | `schema`, `history` with the schema each entry was run on |
| `GraphToposort` | `Graph::toposort`; the recursion of `toposort_visit` is a stack of frames | `vertex_edges`, `visited`, `frames` (the vertex and the next edge), `finished` (`sorted_indices_stack`), `root`, `result` |
| `ApplyPermutation` | the two loops of `apply_permutation`, one swap per step | `items`, `order`, `i`, `current`, `inner` (which loop) |
| `MigrationSorter` | `MigrationSorter::sort`, composing the two modules above with INSTANCE | `migrations`, the lookup table, the graph, `pc`, `error` |
| `MigrationGenerator` | `make-migrations` on models that a developer edits | `source`, `files` with operations, dependencies and the copy of the models, `operations` under way |
| `AuthSession` | `AuthRequestExt` and `DatabaseUserBackend` under concurrent requests | `users` (table) with `hashes` and `password` (what was made and set so far), `store` (sessions), `cookie`, `config` (the keys of the running server, one of `Configs`), and per `request` its copy of the session, the cached user and the call it is in |
| `PathMatcher` | `PathMatcher::new`, `capture`, `reverse`, `Display` as operators on sequences of characters | none: folds over the characters and the parts |
| `PathParamsDeserializer` | `PathParams::parse`: what a type asks of the deserializer and what it is answered, with its errors; states what a view reads from a reversed URL, beside what `Router` says of it (`LeadsBack`) | the router's (EXTENDS `Router`); itself recursion over types |
| `Router` | the search for a handler or a URL, one route per step | `table` (the routers), `matchers` (their parsed patterns), `frames` (the recursion of `get_handler` or `reverse_option`), `path`, `params`, `asked` |
| `Forms` | derived forms: `clean_value` of each type, `build_context`, `from_request`, the controls fields are shown as, and what a browser accepts and sends for them | none: operators on forms and pairs |
| `Server` | the start of a project and the requests it serves | `phase` (the type parameter of `Bootstrapper`, then the stages of `run_at`), `apps`, `taken` (`std::mem::take`), `migrated`, `files`, `hook`; per request `at`, `body` (the pairs not yet taken), `outcome` (the result of `catch_unwind`), `answer`; per thread `polled` and `location` (the thread-local `PANIC_LOCATION`); `signed_in` |
| `DbNumber` | what a number is in memory and in a column of each database | none: `prepare_values`, `from_db_value` |
| `QueryExpr` | `query!`: the precedence-climbing parser, the code that is generated, the `Expr` it builds, and the truth of it in the database; beside it, how rustc reads the same tokens | none: recursion over tokens and trees |
| `Orm` | statements by tasks that share a database | `rows`, `counter` (generated keys), per task `object` (the model in memory), `call` (the last call and its result), `inserted` (between `INSERT` and `SELECT` on MySQL), and `backend`, `policy` |
| `OrmQuery` | `Query::all`, `exists` and `delete` with the filter that `QueryExpr` builds, on the tables of `Orm` | those of `Orm`, `asked` (the model and the expression) and `answer` |

`MC*` modules give the constants values: tables, migrations, patterns, requests, expressions. `*_proofs` hold the theorems.
Definitions whose comment begins with "Mutant" are wrong on purpose: each changes one definition as a plausible slip
would, and is used only to show that a property notices.

### Steps

A step is what no other actor can interrupt. In the engine and in `Orm` that is one SQL statement (there is no transaction around check, operation and
record, nor around `INSERT` and `SELECT`), in `AuthSession` one database or store call, or the code between two of them. In `Server` a thread that polls a
request goes on until the request waits or is answered; the steps in between are apart, because other threads run beside them. The recursion of
`toposort_visit` and `get_handler` is one step per iteration, so that invariants can be stated about the middle of a search; nothing runs beside them.
Pure functions (patterns, parameters, forms, expressions) are operators.

### What stands for code outside the repository

- *SQL.* A statement is atomic. `CREATE TABLE` of an existing table, `ADD COLUMN` of an existing column, and `DROP TABLE` of a table that is referenced are
  refused (the last one only with `StrictForeignKeys`, which stands for PostgreSQL, MySQL and SQLite with its checks on). An explicit
  0 in an auto-increment column is a generated value on MySQL only (`ZeroIsGenerated`). PostgreSQL's sequences do not know of keys that were given, and are
  used up by statements that fail. `ON CONFLICT` asks about the primary key, `ON DUPLICATE KEY UPDATE` about every unique key. MySQL's `/` does not round,
  the others' does. NULL is neither equal nor unequal to anything.
- *tower-sessions.* A request loads the whole record at its first use and writes it back whole at the end if it was modified; nothing is
  written when the request ended in an error or panic.
- *tokio and axum.* A future is polled by one thread at a time, and may be polled by another one after it waited. The system accepts connections as soon as the address is
  bound; dropping the listener closes them.
- *Password hashes.* Each hash is salted, so it is new; verification recognises the password; a hash made with old
  parameters is obsolete. The session's hash is an HMAC of the password hash under one of the keys, taken to be one-to-one.
- *Browsers.* A browser sends a form only if `required`, `maxlength`, `min` and `max` are met; it sends a box only if it is ticked. `maxlength`
  counts UTF-16 units. A number may be written in other ways than `str::parse` reads it.
- *rustc.* Operators bind as in the Rust reference; comparisons do not chain; a method call binds to the operand before it.
- *petgraph.* `greedy_feedback_arc_set` puts the vertices into some order and returns the edges that go backwards in it; every order is
  tried.

## 4. Runs

Passing:

| Run | Instance | What it shows |
|---|---|---|
| `engine_mysql` | three servers, crash at every step and restart; four lists of migrations: single operations and an empty one, several operations in the last, a second operation that a later migration refers to, and one whose table it changes | a migration is never recorded ahead of the schema (`RecordedInEffect`), in order and append-only (`ImplementsLog`); a server in service has all of them (`ServingMeansRecorded`) and is never disturbed (`NoChangeOnceRecorded`); a run fails only by repeating what was done, or because it waits for a table that a second operation makes, which is never run (`FailedForAReason`); a migration orphaned by a crash is never repaired (`OrphanIsPermanent`), and without one, and without a migration that waits for such a table, each server that starts serves in the end, also after a failed start, unless it dies (`StartedServes`) |
| `history_plain` | all histories of seven plain operations (bound 8) on four tables, foreign keys to each other and to themselves | the last operation can always be undone (`LastCanBeUndone`), and that gives back the schema before it (`BackwardsUndoes`) |
| `sorter` | lists of three migrations of two apps, every set of dependencies by name and model; lists with clashing names or models | the order of the graph is topological (`SortedIsTopological`), dependencies come first and no migration is lost (`DependenciesFirst`); refused only for one of four reasons, and with one never accepted (`RefusedForAReason`); independent ones by name (`IndependentByName`); it ends (`Ends`) |
| `generator` | three models with foreign keys to each other, themselves and another app, six edits, two files | the files replay (`Replayable`), lead to the source (`FilesLeadToSource`), and declare their dependencies (`DependenciesDeclared`); the only panics are those of removed or changed fields and of cycles through three models (`PanicsAreKnown`) |
| `auth` | two requests with up to two calls each, two user ids (bob's hash is obsolete at first), two sessions, one client, two key rotations, passwords changed, users created and deleted | sessions are never half written (`SessionsAreWhole`); `user()` agrees with the session (`ExtensionAgrees`); a user is served only by a login with the last password (`ServedKnowsPassword`), rejected only for a reason (`RejectedForAReason`); the deleted stay deleted (`DeletedStaysDeleted`) |
| `router` | every pattern of up to five characters; trees of routers with parameters, empty patterns and clashing names; all their paths of up to three characters and every reversed URL | the first fitting handler (`FoundIsFirst`); parameters in place (`ParamsAreThePieces`); reversed URLs lead back, and views read from them what was given, as structs in any order of fields, maps, lists of pairs and tuples (`ReversedLeadsBack`); patterns are shown as written (`PatternsReadBack`); the search never goes back (`NeverBack`) |
| `server` | three commands, five configurations, failure at every stage; two threads and two requests: views that panic beside each other, handlers for errors that fail or panic, eleven forms as a browser sends them and some as it does not, logins and the admin's pages | no request is looked at before the start is complete (`ServedAfterStart`); an error page shows the place of its own panic, though views and tasks also catch panics of theirs (`OwnLocation`); connections are lost for two reasons only (`DroppedForAReason`); a form takes what its HTML lets through (`BrowserIsHeard`); the admin's pages are for those who logged in (`AdminNeedsLogin`); who connects is answered or let go (`EveryRequestEnds`) |
| `orm` | two tasks with two calls each on three databases under three pairs of policies of the foreign key, on delete and on update; or one of 127 expressions of `query!` on a filled database, with integers of three bits | a statement changes its own row (`OverwritesItsOwn`), the object in memory is its row afterwards (`ObjectIsItsRow`), calls panic (`PanicsForAReason`) and links are lost (`LinkLostForAReason`) for known reasons only, an author is not found only if the book in memory is stale (`NotFoundIsStale`), and a query selects what its expression says and panics only for a key that is not there yet (`SelectsWhatItSays`) |

Properties that list exceptions ("for a reason", "known") list what the code really does there; each exception that is a surprise is among the
observations in section 6.

Showing a disagreement with a document or test (each checks one property, which fails):

| Run | Property | What happens |
|---|---|---|
| `engine_several_operations` | `RunMeansAllOperations` | check and record are inside the loop over a migration's operations (`migrations.rs:180`): the second operation is skipped, and `run` returns Ok. `migrations.rs:127`: "Runs the migrations." |
| `engine_second_migration` | `NoFailure` | `id: 0` (`migrations.rs:219`) is inserted as it is on SQLite and PostgreSQL: the second record violates the primary key. The test at `migrations.rs:1407` expects several migrations to work, but has only one with an operation |
| `auth_upgrade` | `AnyServedKnowsPassword` | `authenticate` saves the user it read before (`auth/db.rs:264`): a password changed meanwhile is undone, and its session is served. `auth.rs:155`: a change of the password invalidates all sessions |
| `query_parentheses` | `ParenthesesAreKept` | `as_tokens_impl` (`expr.rs:507`) writes no parentheses: `$id == (1 + 1).pow2()` is compiled as `1 + 1.pow2()`. The test at `expr.rs:661` says that parentheses group |

### Bounds

- *Engine.* Two servers are enough for each race between check, operation and record; the third can crash or start afresh
  while two race. The four lists give a first, an empty, a dependent and a last migration, and an operation after the first of a
  migration that nobody needs, that is needed for a foreign key, and that is needed for a column.
- *History.* The seven operations create four tables and add three columns, each of which can be in effect once, so the bound of eight is never
  what ends a history: all orders that the database accepts are there, each kind undone with and without others above it.
- *Sorter.* Three migrations are a chain, a fork, a join and a cycle of three; two apps have name clashes within an app and none across. The
  graphs that come of it have cycles away from the root, paths that meet, doubles and loops.
- *Generator.* A cycle of three models is the smallest that the cycle breaking treats unlike two; two files are needed for an
  added field and for dependencies between files. `MaxEdits` and `MaxMigrations` bound the developer, not the code.
- *Auth.* `MaxHashes` and `MaxPasswords` bound how often a hash is made; three hashes allow a password, its upgrade and a change. Two calls per request are what the
  cached user needs to go wrong, two requests what the session needs.
- *Router.* Five characters hold a parameter between literals (`{v}/` and `/{v}`), an escaped brace next to one, and unfinished ones; the
  trees nest routers up to three levels.
- *Server.* What a thread-local can confuse are two requests, or a request and a task, that follow each other on one thread: two requests on two threads,
  each of which waits once (`MaxWaits`) and changes thread there. Two apps have a static file in common, and a model of the admin's that is not registered is asked for.
- *Forms.* Texts of which bytes and UTF-16 units differ, with numbers at, between and beyond the bounds of their fields, and one (`1e1`) that only a browser
  reads.
- *Orm.* A task that inserts or reads and then updates, deletes or follows a link, beside another one that does: two calls each, on tables that have one author and
  one book. Five keys (`Keys`) are more than are generated or given, `GivenKeys` has one that the counter comes to later. Three bits (`Width`) hold
  numbers below and above the half. Expressions have up to three operators, in every nesting for those whose priorities differ.

### Fairness

`FairSpec` of the engine has weak fairness of `Run(s)` and `Start(s)`: the runtime polls a future until it is done, and a supervisor starts a
server again that exited with an error. There is none for crashes; after a crash that left a migration orphaned no server ever serves
(`OrphanIsPermanent`), and none gets past a migration that needs a table made by a second operation (`EngineStaysBlocked`), so `StartedServes` excepts these cases and the server
that died itself. `FairSpec` of the sorter has weak fairness of `Next`: one thread that goes
on. `FairSpec` of the server has weak fairness of the start, and for each request of being polled and of the steps of its handler: tokio polls what can go on, on some thread,
and views do not wait for ever (a view may wait `MaxWaits` times). Nothing is assumed about failures and panics. The router's
termination is stated as an action property instead: `NeverBack` says that each step of a search moves strictly forward in the depth-first order of
the finitely many routes.

`CHECK_DEADLOCK FALSE` is set where the modelled program or its clients end: `sorter`, `generator` (the edits are used up or the tool panicked),
`router` (a table that was refused stops the program), `server` (the command is done, the start failed, or every request was served), `orm` and
`query_parentheses` (the calls are used up, the query was answered).

## 5. Proofs

Each theorem holds for every value of the constants that meets the named assumptions of its module.

- **Engine** (`MigrationEngine_proofs`; assumption `PlainFirstOperations`: the first operation of a migration has no `IF NOT EXISTS`, which is what the
  CLI writes). That a migration is recorded once is not inductive: nothing but the failing DDL statement keeps two servers apart. The invariant adds
  `MarkExclusive`: between an operation and its record there is at most one server, the migration is in effect and not recorded; whoever tries meanwhile
  fails. With types, well-formed schema, the order of records and the position of every run it is
  inductive, and gives `EngineRecordsOnce`, `EngineRecordsWhatRan`, `EngineRecordsInOrder`, `EngineServesRecorded`, the action properties
  `EngineLeavesRecordedAlone` and `EngineNeverRepairs`, and `EngineImplementsLog` (initial states map to initial states, each
  step to `Record` or a stutter). `EngineFailsForAReason` needs one assumption more, `NeededAreCreatedBefore`: the tables that a first operation needs are
  created by some operation of a migration before it, the first or a later one. This is what the sorter makes of the dependencies that a migration declares
  (`sorter.rs:97`: a dependency on a model leads to the migration that has a `CreateModel` of it, wherever in it), and the generator declares them (`DependenciesDeclared`);
  a migration written by hand that forgets one is outside of the theorem. It says that a run fails only where the operation was done before, or where the migration is
  `Blocked`: all migrations before it are recorded, and it needs a table that only operations after a first one create, which no run ever executes. It rests on the same invariant:
  whoever gets to an operation has all migrations before it recorded, hence their first operations in effect. `EngineStaysBlocked` (`BlockedIsPermanent`; needs `PlainFirstOperations`
  only) says that such a migration stays blocked, and that no server serves from then on. Both assumptions are checked on the lists of `engine_mysql` (`Hypotheses`), two of which
  lead to a blocked migration.
- **History** (`OperationHistory_proofs`; all operations are plain). The invariant says that the schema is sound (foreign keys point to tables that exist)
  and each entry's schema leads to the next entry's (`Linked`). `HistoryUndoes` and `HistoryCanBeUndone` follow.
- **Topological sort** (first part of `MigrationSorter_proofs`; any finite graph; no assumption on edges). The invariant says that frames are exactly the vertices being visited and linked by
  edges, that finished vertices are visited and come after their finished successors, and that edges already passed lead to visited vertices. From it
  `ToposortIsTopological` and `ToposortCycleIsReal` (the frames from the repeated vertex up are the cycle).
- **Sorter** (`MigrationSorter_proofs`; any list of migrations; assumption `NamesAreOrdered`: apps and names are numbers). `IInv` follows the list
  through the phases of `sort`: a rearrangement sorted by name, a lookup table whose entries lead to the migrations that have them, a graph whose
  edges are the dependencies entered so far, then the invariants of the two algorithms, instantiated, with what ties them to the list: roots of the search in the
  order of the vertices, the permutation that of the finished vertices. `SorterOrderIsTopological`, `SorterPutsDependenciesFirst`,
  `SorterRefusesForAReason`, `SorterOrdersByName`.
- **Generator** (`MigrationGenerator_proofs`; any models, columns, edits and number of files; assumption `ColumnsAreApart`; hypotheses of the theorems:
  `TablesAreNamedAfterTypes`, since the copies in the files lose a `table_name`, and for the dependencies `AppName = CrateName`, since `--app-name` renames one side
  only; section 6 has what happens without them). `IInv` says that the operations under way are, taken together, what the source has and the files do not,
  each column once (`Delta`), and that two models which reference each other do so over an edge that is still to be broken (`Broken`). From it
  `GeneratorFilesReplay`, `GeneratorFilesLeadToSource`, `GeneratorDeclaresDependencies`, and `GeneratorPanicsAreKnown`: a finite set of operations without a topological
  order has a part in which each waits for another one (`OrderOrKnot`), and following the waiting goes around three models or more.
- **Permutation** (second part of `MigrationSorter_proofs`, any length, any permutation). The invariant describes the cycle that is open: which places have been
  filled, and where the displaced item is. `AllItemsAsOrdered` and `PlacedIsFinal`.
- **Authentication** (`AuthSession_proofs`; any number of requests, sessions, users and keys). `IInv` says that hashes belong to one user and
  password, that the store and the copies in requests are whole; `JInv` adds that whatever a request still holds of a user with a current hash is of
  the last password only if it is the table's. `SessionsStayWhole`, `ExtensionAlwaysAgrees`, `OnlyTheLastPasswordServes`, `RejectionsHaveAReason` and
  `DeletedUsersStayDeleted`; the last three are for users whose hash is current, because for the others they fail (run `auth_upgrade`).
- **Server** (`Server_proofs`; any threads, requests, apps, files and configurations; assumption `ServerAssumption`). `BootInv` says what has been done at each
  stage of the start; `RequestInv` where requests can be at which stage, that a request is polled by one thread, and, in `Places`, what each thread's location is:
  that of the request it polls from the panic that ends it until the page is built, and otherwise that of no request (but perhaps of a panic that a task or a view has caught). Neither `OwnLocation` nor `ServedAfterStart` is
  inductive without them. `HandlerShape` reduces what a poll can do, whichever view it is in, to two kinds: a move, and an end with or without the
  hook. `ServerServesAfterStart`, `ServerShowsOwnLocation` and `ServerDropsForAReason` follow. `ContentInv` follows the pairs of a form from the browser
  through the body to the view: `ServerHearsTheBrowser` (of what a browser accepted and sent, each field holds what was meant, or one of two errors for a
  reason it has) and `ServerAdminNeedsLogin`. Assumptions: `NoneIsNoText`, `TextType` (`Forms`) and `InputsAreSent`: a request with a form that was filled in
  carries the pairs that a browser makes of it.

- **Router** (`Router_proofs`; any tree of routers, any patterns that parse and any path; assumptions `CharAssumption`: letters, digits and the four characters
  with a meaning are apart, and `TablesAssumption`: routers are numbered so that
  no router is below itself, each but the first is below one, and a route with a router has no name). A pattern is a relation between places of a path
  (`Passes`), from which a place leads to one other at most (`PassesToOnePlace`), and `capture` takes what it says (`CaptureIsPasses`). `IInv` says that the frames of the
  recursion are a path of the tree, each with what the ones above it left (`Searching`), so that every handler below them must cut the path where they do,
  and that no handler before them fits (`NoneBefore`); the rest follows as the search moves on, enters a router or comes back.
  `RouterFindsTheFirst`, and `RouterNeverGoesBack` from the shape of the frames alone. `RouterGivesThePieces` (`ParamsAreThePieces`) is not inductive: it says nothing before
  a handler is found. `CInv` adds that each frame of a search has taken what the frame above it had and what `capture` gives there (`Collecting`). Where the
  frames cut the path, this is the pairs of those cuts one after another (`GivesTo`), and `PathParams` (`request.rs:499`) makes of pairs in that order a list in which each name
  has its last piece and the place of its first one (`ParamsRead`). `RouterShowsWhatWasWritten` (`PatternsReadBack`) goes through the characters of a pattern: in
  each state of `PathMatcher::new`, what it has read is, apart from blanks (a name is trimmed of them), what its parts show, followed by the text it is in the middle of
  (`Reads`); while it skips the second of two braces, the parts are one brace ahead. `RouterLeadsBack` (`LeadsBack`, the first half of `ReversedLeadsBack`; one more assumption,
  `ArgsAssumption`: parameters are texts) puts these together. The route with the name ends a chain of the tree (`FramesPointed`), and its URL can be cut where its parts were
  joined (`ReversedCut`), so the search cannot miss it; of two chains one is earlier (`ChainsAreOrdered`), so another view than the one asked for comes from a
  route before it; and if it is the same view, its parameters are what the URL was made of, because a path can be cut in one way only (`FormIsUnique`).
- **ORM** (`Orm_proofs`; any number of tasks, calls, keys and numbers, integers of any width, on each database under each policy; assumptions
  `NumberAssumption`, and `OrmAssumption`: what is in the tables at the beginning has unique numbers and links to authors that exist). Policies on delete and on update are
  any two of the four. `IInv` adds three things to the
  types. The tables are what the constraints allow (`IsRows`). Except on PostgreSQL, whose sequences do not know of keys that were given, a key that is generated is above
  all keys in its table (`KeysAreCounted`); otherwise an insert could take over a row. And between `INSERT` and `SELECT` on MySQL, as long as no other task has made a call,
  the row with the inserted id says what the object says; since calls are counted down, a call of another task cannot be forgotten (`Waits`). None of the properties follows
  from the statement alone: `OrmOverwritesItsOwn`, `OrmObjectIsItsRow`, `OrmPanicsForAReason`, `OrmLinkLostForAReason`,
  `OrmNotFoundIsStale`. The numbers in the tables stay apart because the cast to signed integers is one-to-one (`NumberReadBack`).

Functions that are defined by recursion over a sequence (`FlattenSeq`, the filling of a context) are proved about by their least counterexample
(`Least`, `UpTo`); only the library's induction theorems, which take an operator, are out of reach.

Only model-checked: liveness (`StartedServes`, `Ends`, `EveryRequestEnds`), since TLAPS does not do fairness; what views read from the parameters of a
reversed URL (`ReadAsGiven`, the second half of `ReversedLeadsBack`; the first half is `RouterLeadsBack`), and what queries select and when they panic (`SelectsWhatItSays`), since types are deserialized and expressions are parsed by recursive
operators, about which nothing can be proved; and of course the four disagreements.

## 6. Further observations

Met while modelling; no run is spent on them. The first three can be reproduced by changing one constant.

- `AddField` adds the column but not the foreign key of its field (`migrations.rs:398`): with `Available <- WithAddedKey`, `DeclaredKeysEnforced` of
  `OperationHistory` fails. `backwards` ignores `if_not_exists` (`migrations.rs:442`): with `Available <- WithIfNotExists`, `BackwardsUndoes` fails,
  because a table that was there before is dropped.
- `--app-name` (`main.rs:44`) renames the app in the files, but not in the names by which dependencies look for it (`migration_generator.rs:238`, `423`, `622`):
  with `AppName = "app"`, `DependenciesDeclared` fails.
- The copy of a model loses its attributes (`migration_generator.rs:504`), so a model with its own table name is new each time: with `TableName <- FirstIsNamed`,
  `PanicsAreKnown` fails.
- `remove_cycles` moves the keys of the edge's other direction (`migration_generator.rs:726`; the comment at 700 speaks of removing the cycles): a cycle of
  three models stays, and the sort panics. `PanicsAreKnown` counts it as known (`LongCycle`).
- What `engine_several_operations` shows has a consequence that restarts do not heal: a migration that adds a field to a table which another migration creates with its second operation,
  or has a foreign key to it, fails at every start (`Blocked`). The generator puts several `CreateModel` into one file whenever several models are new at once, so the
  next field that is added to any of them but the first leads there. `engine_mysql` has both cases.
- Generated dependencies name `<M as Model>::APP_NAME` (`migration_generator.rs:989`), which the trait does not have (`db.rs:114–159`).
- `PathMatcher::new` indexes by characters and slices by bytes (`router/path.rs:45`): `"é/"` is registered as `"é"`, `"/é"` panics. A parameter after an escaped closing
  brace (`"/}}{id}"`) panics with "Consecutive parameters are not allowed".
- Parameters of one name in an outer and an inner router are one entry: a tuple with a place for each gets `InvalidParamNumber`. A struct must have as many fields
  as there are parameters, but they need not be the same: a misspelt `Option` field is `None`.
- Custom error handlers run outside `catch_unwind` (`project.rs:1801`, `1813`): when one panics, the connection is closed. A panic raised again with `resume_unwind` does not
  run the hook, and its page shows the location of whatever panicked before on the thread and was caught there, in a task or by `catch_unwind` in a view
  (`error_page.rs:97`, `338–348`); with views of the second kind it may be a place in the handling of another request. What follows `axum::serve`
  (`project.rs:1762–1768`: the hook is removed, the database closed) is not reached, since it does not return.
- `authenticate` saves a user with an obsolete hash (`auth/db.rs:264`) by insert-or-update: one that was deleted after it was read is back in the table. If somebody else has the
  name by then, SQLite and PostgreSQL refuse the statement; MySQL's `ON DUPLICATE KEY UPDATE` also fires on the unique name, and overwrites that user's row, id and password included.
- Two overlapping requests of one session: the last to end writes its whole copy, so a logout can be undone by a request that began before it.
- Forms. `Option<T>` is shown `required` (`cot-macros/src/form.rs:122`), although `clean_value` takes an empty one; the `min` and `max` of a field reach the HTML, but
  `clean_value` does not look at them (`form/fields.rs` 302–341); `max_length` counts bytes, `maxlength` UTF-16 units; the content type of a form is
  compared as a whole (`request.rs` 406–424), so one with a charset is refused. `LimitedString` counts bytes (`db.rs:1584`), the database characters.
- Admin. After a wrong password the login page is built from a body that has been taken (`admin.rs:78`): the name is gone from it. Methods other than GET and POST
  panic.
- ORM. `save` on MySQL takes over the row that has any unique key in common, its primary key included (`db.rs:183–184` and `772–773` speak of the same primary key). The object
  of an insert is read again on MySQL, and `expect` panics if the row is gone (`db.rs:855`). On PostgreSQL a generated key can be one that was given before. `update`
  with a key that is `Auto` panics (`db.rs:914`). A foreign key made from a model that was not saved is stored as NULL.
- Queries. `$field == None` selects nothing; `/` differs between databases; unsigned integers above the half compare as negative ones on PostgreSQL; a filter with
  the key of a model that was not saved panics; `a == b == c` is accepted, and grouped from the right; a second `filter` replaces the first.

## 7. Abstractions

- Column types, defaults and constraints other than foreign keys and the primary key of `cot__migrations` are left out of the schema: no property tells them apart.
- Names are small numbers or model values; their order is that of the numbers. Where the order of names matters (`sorter`) all orders occur.
- A pattern is a sequence of characters (it is parsed), a path likewise; percent-encoding is not part of the router, and characters are ASCII.
- The name of a route, which `handle` puts into the request, is that of the route found and has no variable.
- In `AuthSession` the save of an upgraded hash fails when another user has the name, as on SQLite and PostgreSQL. The takeover on MySQL is left out there, and `SessionsAreWhole` and
  `RejectedForAReason` do not speak of it; `Orm` has it (`Clash`, the exception in `OverwritesItsOwn`).
- Session expiry, cookies and the session id's secrecy belong to `tower-sessions`. In `Server` a session is whether its client is signed in; `AuthSession` has it in detail.
- A text of a form is known by its length in bytes and in UTF-16 units, and by what it is as a number to `str::parse` and to a browser.
- A model of the ORM is an author (a unique number) or a book (an optional link to an author); a key is a number or `Auto`. What an expression's literals and variables
  are is in `Value`. The tokens of `query!` are whole: names, operators, method calls, parentheses.
- `NO ACTION` of a foreign key is checked at the end of each statement, like `RESTRICT`: there are no deferred constraints, since nothing in the code makes one.
- Of a page, what it is and the data it shows is kept, not its text. Diagnostics are reduced to the location; the backtrace goes the same way.

## 8. Not modelled

- *Generator*: merged branches and files written by hand; parsing of Rust source and formatting. It is therefore only partly modelled.
- *Middleware*: live reload, and the conversions of types between layers. *Request data*: streaming bodies, JSON, the limit of a body's size.
- *ORM*: strings and dates as values, raw and bulk statements; there are no transactions in the code.
- *Not at all*: macros and code generation, except for what they write for forms, models and `query!` and for the parts of a model that
  `make-migrations` reads (text in, text out, at compile time); project creation (copies a template); HTML rendering, error types and test
  helpers (no state whose order matters).
