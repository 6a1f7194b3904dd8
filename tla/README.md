# A verification project for node-sqlcipher

TLA+ models of the asynchronous core of `@journeyapps/sqlcipher`, the Node.js
binding to SQLCipher: the code in `src/*.cc`, `src/*.h` and `lib/*.js` of the
repository. SQLCipher itself (`deps/`) is vendored and outside the project.

Paths below are those of the repository; `PROJECT.json` prefixes them with
`src/`.

## 1. The system

The binding runs on two sides. The **main thread** runs JavaScript and the C++
handlers that JavaScript calls or that libuv calls when work has ended. The
**thread pool** runs work requests (`napi_queue_async_work`), which do nothing
but call SQLite. A handler that ends a request calls the caller's callback
*before* it has finished, the callback may enter the API again, and a callback
that throws makes the `TRY_CATCH_CALL` macro return from the handler. Nearly
everything that is hard in this code comes from these three facts.

| Component | State | Operations | Interaction |
|---|---|---|---|
| **Database** (`database.cc`, `database.h`) | `open`, `closing`, `locked`, `pending`, `serialize`, `queue`, `_handle` | constructor, `close`, `exec`, `loadExtension`, `wait`, `configure`, `serialize`, `parallelize`, `interrupt` | `Schedule` starts a call or queues it; `Process` takes calls from the queue; every handler that ends work calls `Process` |
| **Statement** (`statement.cc`, `statement.h`) | `prepared`, `locked`, `finalized`, `status`, `queue`, `_handle` | constructor (prepare), `bind`, `get`, `run`, `all`, `each`, `reset`, `finalize` | prepare goes through `Database::Schedule`; operations go through the statement's own queue, move `Database::pending` (`STATEMENT_BEGIN`, `STATEMENT_END`) and never ask `Schedule` |
| **each** (`Statement::Async`, `Work_Each`, `AsyncEach`) | `data`, `completed`, `retrieved`, the `uv_async_t` | push on the pool, drain on the main thread | a vector under a mutex, a flag that is not, wakeups that libuv merges |
| **Backup** (`backup.cc`, `backup.h`) | `inited`, `locked`, `completed`, `failed`, `finished`, `retryErrors`, `_handle`, `_otherDb`, `queue` | constructor (initialize), `step`, `finish`, getters | as a statement (`BACKUP_BEGIN`, `BACKUP_END`) |
| **Events** (`async.h`, the hooks of `database.cc`, the listeners of `sqlite3.js`) | `debug_trace`, `debug_profile`, `update_event` | `configure("trace")`, `configure("profile")`, the SQLite hooks, `RemoveCallbacks` | hooks run on the pool, events are emitted on the main thread |
| **Values** (`BindParameter`, `Bind`, `GetRow`, `RowToJS`) | none | conversions between JavaScript and SQLite values | called by the operations of a statement |
| **JavaScript front end** (`lib/sqlite3.js`) | `cached.objects` | `normalizeMethod`, `Database#run/get/all/each/map/prepare/backup`, `Statement#map`, `cached.Database`, listeners, `verbose` | each `Database` method prepares a statement, operates on it and finalizes it |
| **Lifetimes** | N-API reference counts | `Ref`, `Unref`, destructors | batons, statements and backups keep their database alive |
| Loader, constants, `trace.js`, `sqlite3.d.ts`, build | none over time | | |

### What makes each correct

* **Database.** An exclusive call (`exec`, `loadExtension`, `close`, `wait`, or
  anything issued under `serialize()`) never runs beside another call; no call
  is lost, run twice or left unanswered; `pending` is exact, since `Schedule`,
  `Process` and `close` take zero to mean that nothing runs; the SQLite handle
  is live whenever something may use it; after a close nothing starts and
  everything that waited is told.
* **Statement.** Operations run one at a time in the order they were issued and
  are answered once; after `finalize` the rest is answered with an error.
* **each.** All rows arrive, in order, once, before the completion; the shared
  object is not freed under the worker; the call ends.
* **Backup.** `completed` and `failed` agree with what SQLite did, a fatal error
  finishes the backup, a tolerated one does not, and nothing is used after it
  was released.
* **Events.** A hook is registered exactly while someone listens, never fires
  into a removed object, and events keep their order.
* **Values.** Each parameter gets the value that was meant for it, and a row
  shows what was bound.
* **Cached databases.** The callback is called for every request, once, when the
  database is open.

### What is hard to test

Handlers and callbacks of several objects in an order nobody wrote a test for,
callbacks that throw, a close that fails, a database that never opens, the race
between the worker of an `each` and the main thread, listeners that come and go
while events are on their way, an error that is retried, an integer that does
not fit. `PROJECT.json` lists each hazard at its line with the properties that
cover it, or says why none does.

## 2. The modules

| Module | What it is |
|---|---|
| `Database.tla` | The scheduler of one database: the whole of `Schedule` and `Process`, all handlers, what statements and backups do to it |
| `MCDatabase.tla`, `MCDatabase_*.cfg` | Its instances for TLC |
| `DatabaseProofs.tla` | Every safety property of it that a run checks, proved |
| `Statement.tla` | One statement: its preparation, its queue, `CleanQueue`, `Finalize_`, the shared status and the cursor |
| `StatementService.tla` | What a statement promises: the abstract specification that `Statement` implements |
| `MCStatement.tla`, `MCStatement_*.cfg` | Its instances for TLC |
| `StatementProofs.tla` | Types, `AnsweredOnce`, `ErrorsAreOwn`, `GetContinues`, `FinalizedOnce`, `WorkFindsStatement`, the refinement and what follows from it proved |
| `EachRows.tla`, `EachRows_*.cfg` | The rows of one `Statement#each` |
| `EachRowsProofs.tla` | Types and its four safety properties proved |
| `Backup.tla` | One backup: its initialisation, its queue, `FinishAll`, the flags, the errors to retry, the destructor |
| `MCBackup.tla`, `MCBackup_backup.cfg` | Its instance for TLC |
| `BackupProofs.tla` | Its eight properties proved |
| `Events.tla`, `Events_events.cfg` | The trace event from SQLite's hook to the listeners, `configure("trace")`, `RemoveCallbacks` |
| `EventsProofs.tla` | Types, `CrashHasCause`, `HookMatchesListener`, `NothingLost` proved |
| `CachedDatabase.tla`, `CachedDatabase_cached.cfg` | `sqlite3.cached.Database` and the ways its callbacks are called |
| `CachedDatabaseProofs.tla` | `CalledMeansOpen`, `InRequestOrder` proved |
| `Values.tla` | `Bind`, `BindParameter`, `GetRow`, `RowToJS`, `Statement.prototype.map` |
| `MCValues.tla`, `MCValues_values.cfg` | The calls and columns of its instance for TLC |
| `ValuesProofs.tla` | `BoundAsAddressed`, `MapTakesColumns` proved |
| `StackLemmas.tla` | What pushes and pops do to a stack or a queue: the lemmas that these proofs share |

The modules do not share variables. `Database` sees a statement through what it
does to the scheduler, `Statement` and `Backup` see the database as what
prepares them or rejects them, and an `each` as one operation; `EachRows` looks
inside it. `Events` sees the scheduler as what makes a `configure` run at once,
wait or fail, `CachedDatabase` sees a database as something that opens, emits an
event and closes, and `Values` is what the operations of a statement call.

### Database

* **The main thread is a stack.** `stack` holds what each JavaScript function
  and C++ handler that has been entered still has to do, innermost first. A
  `"js"` frame is running JavaScript; every other frame is the rest of a handler
  after the callback it made (`"opened"`, `"closed"`, `"tail"`, `"end"`,
  `"errorEnd"`, `"finalize"`, `"restore"`) or a `Process` that has not returned
  (`"process"`, `"check"`, `"reject"`). A handler is split exactly at the points
  where it calls JavaScript, since nothing else on the main thread can come
  between its statements. With the stack empty, libuv may call a handler.
* **Trace listeners.** `close` (`RemoveCallbacks`), and a `configure` that takes a
  hook away, call `Async::finish`, which passes the events that wait to their
  listeners: JavaScript that runs while `pending` is raised and `closing` not
  yet set, or while `Process` has not yet looked at `locked`. `BeginTraced` is
  a call that begins so, possible once another `configure` has run (`Traced`);
  `"starting"` is the rest of `Work_BeginClose`, which `CloseBegins` does. Which
  events wait, and what the listeners do to the hooks, is in `Events`.
* **A callback** that the caller did not give is one that returns at once. With
  an exception pending N-API runs nothing and returns an empty value
  (`Callback`, `DeadCallback`).
* **A throw** (`JsThrow`) leaves the JavaScript frame and the handler below it,
  when that handler called it through `TRY_CATCH_CALL` itself (`Skippable`).
  `Error()`, `CleanQueue` and `Schedule` also use the macro, but only *they*
  return: hence `"errorEnd"` and `"finalize"` are not skippable.
* **Calls.** Each member of `Calls` is one API call, with its kind in `KindOf`:
  `exec` (and `loadExtension`, whose handlers are the same), `close`, `wait`,
  `configure`, `prepare` (and the initialisation of a backup). `stage` follows
  its baton from `Schedule` to the end of its After handler.
* **Objects.** A `prepare` call also names the statement or backup it creates.
  `phase` follows that object and `sqlite` is the set of objects that hold an
  unfinished `sqlite3_stmt` or `sqlite3_backup`. The object's own queue is
  abstracted: when an operation ends, `EndRest`, `EndNext` and `EndFinalize` are
  the three things `Statement::Process` may do with what it finds there, and
  `FinalizeNext` is what its loop does after a callback of `CleanQueue` threw. This
  allows every behaviour of the real queue and some more (a statement may meet a
  `finalize` where a backup meets a `finish`), which is sound for what is
  checked.
* **SQLite** is in the actions that call it: an open may fail, a prepare may
  fail or yield no statement (empty SQL), `sqlite3_close` answers `SQLITE_BUSY`
  exactly while something is unfinished.
* **`excused`** is a history variable, read by properties only.

### Statement

* **The main thread** is the same stack of frames, with the frames of this file:
  `"process"` and `"loop"` are `Statement::Process` before and after it looked at
  `finalized`, `"clean"` and `"cleaning"` are `CleanQueue`, `"release"` is what
  `Finalize_` does after it, `"failed"` and `"reject"` are the two places that
  call `Finalize_` for a statement that could not be prepared, `"end"` and
  `"errorEnd"` are `STATEMENT_END`.
* **Operations.** Each member of `Ops` is one call of a method, with its kind in
  `KindOf`, its parameters in `Params` (none, only `undefined` ones, good ones,
  one that SQLite refuses) and, in `Silent`, whether it has a callback.
* **SQLite.** The result has up to `MaxRows` rows and `cursor` is the row the
  `sqlite3_stmt` is at. Any step may fail or find no further row, since other
  statements may change the data. `status` is the field that all operations
  write and all After handlers read; `failed` remembers what happened in the
  work under way, so that a property can compare the two.
* **`answers`** is the history of what callers were told.

`StatementService` has the statement as a line of operations. In the refinement
`Line` is the finalize under way, the operation under way and the queue.

### EachRows

`worker` and `main` are the labels of `Work_Each` and `AsyncEach`. A section
under `async->mutex` is one step; `completed` is read and written outside it, as
in the code. `signal` is the wakeup that `uv_async_send` leaves: a second one
before delivery changes nothing. A row is its number. `watcher = "freed"` is the
`delete async` of `CloseCallback`. Building without an `item_cb`, a throw from
either callback, a bind or step that fails, and the early return of
`STATEMENT_MUTEX` are all there.

### Backup

* The stack of frames is that of `Statement`, with `FinishAll` in place of
  `Finalize_`: `"clean"` and `"cleaning"` are `CleanQueue`, `"release"` is
  `FinishSqlite` and `db->Unref()` after it, `"failed"` and `"reject"` are the two
  places that call `FinishAll` for a backup that could not be initialised.
* **SQLite.** `"busy"` stands for `SQLITE_BUSY` and `SQLITE_LOCKED`, `"error"` for
  any other error. A step may answer anything until it has answered `"done"` or
  `"error"`, which it then repeats (`StepAnswers`). `sqlite3_backup_init` may
  answer NULL, which `Work_BeginInitialize` does not turn into a status: such a
  backup is `Void`, initialised, with no `sqlite3_backup` and no error.
* **`retryErrors`** starts as `Database#backup` sets it (`DefaultRetry`) and
  JavaScript may assign it (`SetRetry`). `tolerated` is the copy each `step`
  takes when it is called. With an empty set, or one that holds `"done"`, the
  backup does not finish itself: `manual` remembers that this was ever so.
* **`Collect`** is `~Backup`, possible once no baton refers to the object.

### Events

* **The JavaScript side** is the number of `listeners`. `addListener` calls
  `configure`, and so do `removeAllListeners(type)` and the `removeListener` that
  leaves none or finds none; the value passed does not matter, since
  `RegisterTraceCallback` switches the hook off when it is on and on when it is
  off (`Toggle`). `off()`, `prependListener()` and `prependOnceListener()` are
  EventEmitter's own, copied by `inherits`: they change the listeners and do not
  call `configure` (`Off`, `PrependListener`).
* **`Async`.** `trace` is `debug_trace`, the number of the object or 0 for NULL;
  `data` and `signal` are its vector and its undelivered `uv_async_send`. A
  section under its mutex is one step. `finish()` is split where `listener()`
  calls JavaScript (`"listener"` holds the items it still has to pass on) and
  before `uv_close` and `debug_trace = NULL` (`"uvclose"`): between the two the
  program may switch the hook again.
* **`crashed`** is a hook that reports into a NULL object or a second `uv_close`
  of the same watcher; the process stops there. `busyClosed`, `nested`, `twice` and
  `paired` are histories that name the circumstances of a property.
* The callback of an open or a close that throws ends its handler before
  `Process` (`"tail"`, `Unwound`); a `configure` that is rejected goes on to it.
* `Report` may happen whenever the hook is registered and the database open, on
  the pool or from a call of the main thread.

### CachedDatabase

`turn` is what the main thread runs: JavaScript of no concern (`"program"`), the
constructor's callback (`"open"`), the open event before its next listener
(`"emit"`), one listener, or one tick. A request for a known file either waits for
the open event (`once`) or is given to `process.nextTick`; ticks come before any
other event, unless one threw (`late`). `":memory:"` and `""` are not cached and not
modelled.

### Values

A content (a text, a blob, a fraction) is a name; of numbers the integers are
kept, with the numbers of ints (`2 * IntHalf`) and of unsigned shorts (`ShortSize`)
as constants, since
`Napi::Number::Int32Value` and the `unsigned short` of `Field` truncate.
`PropertyOrder` is JavaScript's order of the properties of an object, which the
loop of `Bind` and the `Object.keys(row)` of `map` both depend on: array indices by
number, then names as they were added. The statement
has three parameters, one of them without a name, and selects its first
parameters, so that what a row shows is what was bound.

## 3. The runs

| Run | Instance | Checks |
|---|---|---|
| `mix` | two prepares with an operation each (symmetric), close, two configures; callbacks may throw; stack 4 | `TypeOK`, `PendingAccurate`, `HandleSafe`, `Isolation`, `QueueFaithful`, `StallHasCause`, `BeginAsserts`, `SerializeBarrier` |
| `live` | exec, prepare, wait, close under `FairSpec`, stack 2 | `Answered` |
| `configure_stall` | exec, configure, prepare | `NoStall` is **violated** |
| `statement_queue` | reset, run without a callback, two finalizes, stack 3, fair | `TypeOK`, `WorkFindsStatement`, `FinalizedOnce`, `ImplementsService`, `EveryOpEnds` |
| `statement_cursor` | two gets, all, bind, an each whose parameters SQLite refuses, finalize, on up to two rows; callbacks may throw; stack 2 | `GetContinues`, `AnsweredOnce`, `ErrorsAreOwn` |
| `refinalize` | run, two finalizes, callbacks may throw | `FinalizedOnce` is **violated** |
| `rows` | up to four rows, callbacks may throw, fair | `RowsConserved`, `RowsInOrder`, `AsyncOutlivesRows`, `NothingAfterCompletion`, `EachEnds` |
| `rows_lost` | up to three rows | `AllRetrieved` is **violated** |
| `backup` | two steps, two finishes, one without a callback, four sets of errors to retry; callbacks may throw; stack 3 | `TypeOK`, `WorkFindsBackup`, `ReleasedOnce`, `OutcomeAgrees`, `FinishesItself`, `IdleHonest`, `AnsweredInOrder`, `RetryContinues` |
| `events` | three reports, three calls that change listeners, one close; listeners may throw; stack 5, fair | `TypeOK`, `CrashHasCause`, `HookMatchesListener`, `NothingLost`, `EventsArrive` |
| `cached` | two files, three requests, callbacks may throw, fair | `CalledMeansOpen`, `InRequestOrder`, `CallbackCalled` |
| `values` | two calls of every shape, `int` of 4 bits, `unsigned short` of 3 | `BoundAsAddressed`, `MapTakesColumns` |

`CHECK_DEADLOCK FALSE` stands where the system may stop: a finished each and a
collected backup do nothing more, the process may crash in `events` and, as
`refinalize` shows, in `statement_cursor`, and the calls of `values` are
bounded. Otherwise nothing ever stops, since JavaScript may always run.

**Bounds.** `Calls` and `Ops` are what a run issues, each once, in any order and
from any callback; `MaxOps` bounds the operations of each object of `Database`;
`MaxDepth` bounds the stack when JavaScript enters the API, so that a callback
may enter from a handler that was itself entered from a callback. An exclusive
call, two shared ones that `serialize`, which may be switched at any time, makes
exclusive too, and nesting of four, so that a trace listener below a callback
enters once more, are enough for what the scheduler
distinguishes (running, waiting at the head, waiting behind the head), and every
mutant is found far below these bounds. `MixBound` keeps the instance small: the
second `configure`, which is there to take the hook of the first away, is issued
after the first has run and both statements were asked for. `exec` and `wait` are in `live`, and in
the proofs. Two finalizes are what it takes to finalize twice, two
gets with an operation between them what it takes to lose a cursor, two steps
what it takes to retry one. In `EachRows`, `MaxRows = 4` lets the worker be several
rows ahead of, level with and behind the main thread. In `Events`, three changes
switch the hook on, off and on again, three events allow one to be delivered,
one in the hands of `listener()` and one in the vector, and a stack of five lets a
listener that `finish()` called switch the hook once more. Three requests for one
file are one for each of the three ways in which a callback is called; a second file
shows that they do not mix. In `Values` the widths are small
and the numbers lie on both sides of each. The safety theorems hold for all values.

**Exceptions.** `MayThrow` describes a program that survives one: it has an
`uncaughtException` handler, or the exception is thrown into JavaScript that
catches it.

### What the violations show

* **`configure_stall`.** Under `serialize()`, a `configure` that finds work in
  flight is queued as exclusive. When `Process` runs it, it sets `locked`, the
  option is set synchronously, and `if (locked) break;` (`database.cc:84`) ends
  the loop. Nothing is in flight, so nothing will call `Process`, and the calls
  behind it wait until the program happens to make another call.
* **`refinalize`.** A finalize that runs from the queue tells those behind it
  that the statement is finalized. When one of their callbacks throws,
  `CleanQueue` returns at once (`statement.cc:921`), the rest stays queued, and
  the loop of `Process`, which looks only at `prepared` and `locked`
  (`statement.cc:44`), goes on with it: a second finalize releases the database
  again, and another operation works on a NULL `sqlite3_stmt`, against the
  assertions of `Finalize_` and `STATEMENT_BEGIN`, which a release build drops.
* **`rows_lost`.** `AsyncEach` finds the vector empty, then reads
  `async->completed` (`statement.cc:726`). A row pushed in between, followed by
  `completed = true`, is never delivered and missing from the number that the
  completion callback gets, while `test/each.test.js:35` asserts that none is.

`StallHasCause` and `Answered` complete the first: apart from that, a callback that
throws, and a close that fails, a queue never stalls. (`Work_AfterClose` calls
`Process` only when the close succeeded, `database.cc:303`; after `SQLITE_BUSY`
the database is open, idle, and leaves its queue alone until another call.)
`FinalizedOnce` holds in `statement_queue`, where no callback throws, and is proved
for every statement without throws.
`RowsConserved` completes the third: the vector itself loses nothing.

### What the conditions of the properties show

Some properties hold only under a condition, and the condition is part of what
they say about the code:

* `CrashHasCause`: `Work_BeginClose` removes the trace object before it is known
  whether SQLite closes, and leaves the hook registered; after a close that
  failed, the next statement calls a method of NULL (`busyClosed`). And
  `finish()` calls the listeners before `debug_trace` is NULL, so that a listener
  that removes itself there closes the watcher twice (`twice`). `NothingLost`
  claims no order once a listener has called `finish()` (`nested`).
* `HookMatchesListener` is about programs with one listener at a time, which they
  add and remove with methods that call `configure`: a second
  one switches the hook off (`database.cc:422`), and `off()` leaves the hook on.
* `FinishesItself` and `OutcomeAgrees` except the `Void` backup: after
  `sqlite3_backup_init` answered NULL, the first step reports a failure, and
  the other database stays open until `finish()` or the collector.
* `CalledMeansOpen` and `CallbackCalled`: a cached database that failed to open or
  was closed stays in the cache (`sqlite3.js:43`), and who asks for it then waits
  for an event that never comes (`refused`); a callback that throws ends the open
  event for those behind it (`cut`).
* `RetryContinues` excepts `SQLITE_DONE`: a program may name it in `retryErrors`, but the
  step that answers it finishes the `sqlite3_backup` all the same. An earlier form
  without the exception passed TLC on the sets of errors it then had; the attempt
  to prove it showed the case, and the instance now has a set with `"done"` in it.
* `BoundAsAddressed` excepts positions beyond `unsigned short` (`GoesRound`), which
  go round to another parameter; `MapTakesColumns` excepts columns of the same
  name, or named like an array index.

### Fairness

`Database` assumes that C++ handlers go on and JavaScript functions return
(`WF` of `Handler` and `JsReturn`), the latter at each depth of the stack
(`SF`): a function may enter the API any number of times, but returns. The pool
runs every request (`WF`), and libuv delivers the end of a request although
timers may keep running JavaScript (`SF` of the After actions: they are enabled
only when the main thread is idle, again and again). `Statement` assumes the
same, and that the database answers the request to prepare, which `Database`
shows for one that opened (`Answered`). `EachRows` needs only `WF`. `Events` adds that
libuv delivers a wakeup although other events may keep coming (`SF` of `Wake`).
`CachedDatabase` assumes that JavaScript returns, `emit` goes on, ticks are run and
every open ends; not that anything is closed.
Nothing is assumed about what JavaScript does. `Answered` excepts a database
that never opened, whose queue the code does not answer (`database.cc:211`), and
the events that set `excused`. Since calls and operations are bounded, it does not
speak of an endless stream of operations, under which exclusive calls starve.

## 4. What is proved

The theorems hold for every value of the constants, from the assumptions that the
component's module names: a finite set of calls (only `Database`, which counts
them), kinds as listed, natural bounds, and `MayThrow` true or false. They hold
whether callbacks throw or not, except where `~MayThrow` is named below. All
properties of the passing runs are proved except those listed at the end.

In every component but `Values` the difficulty is the same: a handler calls JavaScript before
it has finished, so an invariant must say what the frames that wait on the stack
still have to do, and where they may stand. `StackLemmas` has two notions for
this, `Has(s, P)` (a frame of `P` is on the stack) and `Alone(s, P)` (at most
one), and says what a push and a pop do to them. In each module the actions that
touch nothing else than the stack (callbacks that return, throw or are not run)
are dealt with by one lemma, the others one by one.

**Database** (`DatabaseProofs`).

* `TypeCorrect`, `PendingIsAccurate`, `QueueIsFaithful`. The
  invariant `IInv` adds two parts. `Lifecycle` ties the stage of a call to the
  phase of the object it creates; without it an operation could begin on an
  object whose prepare still counts. `EndFrames` says that a frame that ends an
  operation lies at the bottom of the stack, since libuv put it there, and that
  its call or object is in its `"ending"` stage: so each end takes off `pending`
  what its begin added, however many callbacks run in between, and a handler
  that a throw cut short takes off nothing. The counting itself is a lemma about
  the cardinality of a set that gains or loses one member.
* `ExclusiveIsolation`, `HandleOutlivesUse`.
  `HandleSafe` says that the handle lives while work or an object uses it
  (`HandleAlive`) and when `interrupt` would (`InterruptSafe`). `Isolation` is
  inductive only with `PendingAccurate` (a call that begins when `pending = 0` is
  alone), and with `QueueExclusive`: an exclusive kind is queued as exclusive.
  `HandleAlive` needs `Isolation` (the close that takes the handle is alone),
  `ClosingTracks` (`closing` is true exactly while the work of a close is in
  flight, which begins when its trace listeners have run) and
  `OpeningOrder` (before the open has ended nothing is in flight).
* `AssertionsHold`, `SerializeWaits` prove the action properties `BeginAsserts` and
  `SerializeBarrier`, of the calls that finish as they begin (`wait`, `configure`)
  too. `BeginsFairly` is what a step that begins or rejects a call
  finds, for each of the two places that do so, `Schedule` and `Process`.
* `StallsAreExcused`. The invariant is `Promise`: as long as `excused` is false
  nothing has thrown (`NoThrow`), and whenever calls wait on an open database
  with nothing pending, a frame is on the stack that will call `Process` or is in
  it (`Attended`). A `Process` that runs the trace listeners of a `configure` is
  one only while `locked` is false, since otherwise it ends after them. When the main thread is idle there is no frame, so that
  something must be pending.

**Statement** (`StatementProofs`).

* `StatementType`, `StatementAnsweredOnce`. An operation that
  was issued is in one of four places: the queue, the work in flight, the frame
  of the `Finalize_` that will answer it, or the answers. `IInv` says that no
  operation is in two of them (`Apart`) or twice in one (`Once`, `StackOnce`,
  `ToldOnce`). Every action moves at most one operation (`MoveStep`) or none
  (`QuietStep`); a callback that throws, or is not run, loses operations but
  never puts one back. Nothing about the order of the frames is needed, so the
  theorem holds in the states that `refinalize` reaches too.
* `StatementErrors`. `Locks` says that a handler that will unlock the statement
  is alone, keeps it locked and has no work beside it; `Verdict`, that between the
  work and its After handler `failed` is what SQLite answered to that very
  operation, which the shared `status` alone does not say.
* `StatementGetContinues`, with throws. `History` is the property with its meaning
  spelled out for every prefix of the answers: a `get()` without parameters
  follows from the last answer that moved the cursor. `Place` says where that
  last answer has left `status` and `cursor` (`Left`) and, while the work of a
  `get()` is done and not yet answered, where it has come (`Reached`). The states of
  `refinalize` are why `Above` and `Standing` are needed: as long as the rest of a
  `Finalize_` is on the stack, no frame above it runs the queue, so that no
  operation begins on a statement that is being finalized and answers in
  between; after it the handle is gone, and an answer with a row with it.
* `StatementFinalizedOnce`, `StatementWorkFinds`, from `~MayThrow`, without which
  `refinalize` shows them false. `Finalizing` says that one handler finalizes and
  none while work is under way, and `Shelter` why: when `CleanQueue` has begun,
  everything below it that would go on with the queue (`"loop"`, `"release"`)
  waits until the queue is empty. `Handles` and `Owners` tie the `sqlite3_stmt` and
  what finalize answers to it.
* `StatementImplements`, from `~MayThrow`: the refinement of `StatementService`.
  `Line` is the finalize under way, the operation under way and the queue, of
  which the invariants above show that at most one of the first two exists;
  each action is then shown to be one of the service's (issue, answer,
  refuse the one behind a finalize) or to leave what it shows alone.
* `StatementFinal`, from `~MayThrow`: what is answered after a finalize is refused,
  and an operation is refused only when a finalize that was issued before it was
  answered or is first in the line. It is proved of `StatementService`, where
  `Finality` is inductive as it stands, and carried to `Statement` by the
  refinement: the queue, `CleanQueue` and the stack no longer appear in it.

**each** (`EachRowsProofs`), for every `MaxRows`.

* `EachTypes`, `NoRowLost`, `VectorOutlivesPushes`:
  the rows delivered, held and waiting are together `1, 2, ...` up to the last
  one pushed. The invariant adds `CompletedLast`: `completed` is set after the
  last push and the watcher closed only after `completed` was seen.
* `NothingFollowsCompletion` (`NothingAfterCompletion`): with the completion the
  watcher is closed, and a closed watcher runs nothing (`Ended`).
* `RowsArriveInOrder`: a throw in a row's callback drops rows, but what is
  delivered, held and waiting stays ascending (`OrderedRows`).

**Backup** (`BackupProofs`): all its properties.

* `BackupTypes`, `BackupUnderWork`, `BackupReleasedOnce`. `Locks` is about who keeps
  the backup locked, `Releasing` about who finishes it. No `~MayThrow` is
  needed here, where a statement needs it: `Backup::Process` looks at `finished`
  first, and `finish` is a request that locks the backup, so that the loop of
  `Process` never goes on to a second one after a callback threw.
* `BackupOutcome`. `Flags` and `Held` say, for each stage of its life, what SQLite
  answered and what the backup holds of it.
* `BackupFinishesItself`, `BackupRetryContinues`. `Tolerance` says that as long as
  `retryErrors` was never set to something that finishes nothing, no step tolerates
  the end, and that a step that ended with an error it tolerates has left the
  `sqlite3_backup` alone. What a step tolerates is what it copied when it was
  issued, hence `Listed`.
* `BackupIdleHonest`. `Reasons`, `Attended` and `Conserved`: while there is
  something to do and nothing has thrown, a frame or a request will see to it, and
  every operation issued waits, runs or has its answer.
* `BackupAnswersInOrder`. The operations stand in line in the order of their issue
  (`Line`), what has been carried out came before those in line (`Past`), and so
  the answers are in order (`Sequence`).

**Events** (`EventsProofs`).

* `EventTypes`, `EventCrashes`, `EventHook`, `EventsKept`. `Hooks` says that an
  object is there while the hook is registered, until it is finished, and that a
  watcher is to be closed twice (`Doomed`) only when a listener that `finish()`
  called has called it again (`twice`).
  `Switches` is the parity that makes one listener safe: the hook is on exactly
  when the listeners and the `configure` calls that still wait are an odd number.
  `Account` and `InRow` say where each event is, and in which order. `Hooks`,
  `Account` and `Switches` are claimed only as long as the process has not crashed.

**Cached databases** (`CachedDatabaseProofs`).

* `CallbacksFindItOpen`, `CallbacksInOrder`. Of one file, those called asked before those
  that wait for the open event, and these before those that wait for a tick
  (`InLine`), although a request is put on one of three ways; because a database calls
  nobody before its open (`Making`) and ticks are made only for an open one
  (`Opened`).

**Values** (`ValuesProofs`), for any calls, parameters, columns and widths.

* `ValuesBound`. The invariant is the loop of `Bind` (`BindInv`): the fields still to be bound
  are the rest of the call's (`Remaining`); every parameter holds what the last of
  the fields so far that named it asked for, and `NULL` if none did (`Filled`); each of
  these named a parameter, and in a refused call one field did not (`Fits`). The
  property then follows from what one field is (`LandsAsAddressed`, `FieldReads`), of
  which the delicate part is a key that is a number: it is compared
  with its `int` and then cut to an unsigned short, and what makes that harmless is that every unsigned short is an int
  (`ShortSize <= IntHalf`) and that the numbers outside are excepted (`GoesRound`).
  `ParameterAssumption` is SQLite's numbering: parameters of one name are one
  parameter.
* `ColumnsMapped`. Among different names without an array index `PropertyOrder` is
  the order of the columns (`NamesKeepOrder`), because a growing function from
  `1..n` to itself is the identity (`GrowingIsIdentity`). This asks for induction, which
  the library's theorems, taking an operator, cannot give here: the least
  counterexample comes from the well-foundedness of strict inclusion among finite
  sets, which is a plain fact of the library (`LeastElement`).

The invariants were checked by TLC on a run's instance before they were proved.
Two things came out of the proofs: the exception in `RetryContinues` (see above),
and that callbacks that throw are harmless to everything except what this
section proves from `~MayThrow` and what names them in its statement.

### Only model-checked

* Liveness under fairness is out of the prover's reach: `Answered`, `EveryOpEnds`,
  `EachEnds`, `EventsArrive` and `CallbackCalled`.
* The three violations, by their nature.

## 5. What is not modelled

* Reference counts: `Statement` and `Backup` count how often they let go of their
  database, but when the garbage collector may run, and what keeps a database
  from it, is not modelled.
* `EachRows` is not composed with `Statement`: `Work_AfterEach` unlocks the
  statement before the rows have been delivered, so that the next operation may be
  answered before an `each` that was issued earlier.
* The `profile` event has the code of `trace`. The `update` event has hooks and
  handlers, but `configure` accepts no option that would register them, so that
  `on('insert')` adds its listener and then throws, and nothing else of it can run.
* `remaining` and `pageCount` of a backup, copies of what SQLite tells; a
  `new Backup` that does not come from `Database#backup` and has no `retryErrors`.
* Rounding of 64-bit integers to doubles; `normalizeMethod` and the methods of
  `Database.prototype`, which issue operations of a `Statement` that its model
  issues in any order; `verbose`, which changes the text of errors.
* The loader, the constants, the build and the vendored library.
* `Statement` has an SQL text that holds a statement; the empty one, under which
  a database can be closed, is in `Database` only. Nor does it have the
  destructor, which finalizes a statement that was never finalized, and by then
  has no queue.
* `interrupt` changes nothing in the scheduler (it makes a running statement
  fail); the condition under which it may use the handle is `InterruptSafe`.
* The arguments of methods and the errors thrown for wrong ones, which return
  before anything changes; text of messages.
* `pending` is a natural number; it is an `unsigned int` in the code, which
  `TypeOK` shows is never decremented below zero.
* The data race on `completed` is modelled as reads and writes that take effect
  in some order. The mutex before the read and the `uv_async_send` after the
  write leave the compiled code no other outcome than an earlier or later value.

## 6. Running

    tlc -config MCDatabase_mix.cfg MCDatabase.tla
    tlc -config MCStatement_queue.cfg MCStatement.tla
    tlc -config EachRows_rows.cfg EachRows.tla
    tlc -config MCBackup_backup.cfg MCBackup.tla
    tlc -config Events_events.cfg Events.tla
    tlc -config CachedDatabase_cached.cfg CachedDatabase.tla
    tlc -config MCValues_values.cfg MCValues.tla
    tlapm DatabaseProofs.tla
    tlapm StatementProofs.tla
    tlapm EachRowsProofs.tla
    tlapm BackupProofs.tla
    tlapm EventsProofs.tla
    tlapm CachedDatabaseProofs.tla
    tlapm ValuesProofs.tla

`tlapm` checks the proofs of the module it is given only; `StackLemmas` is checked
the same way.

A definition marked "Mutant" is a plausible bug; `PROJECT.json` names the
definition it would replace and the property that then fails.

## 7. Plan

In this order:

1. `EachRows` composed with the queue of `Statement`, to say which answers may
   overtake the rows of an `each`.
2. Reference counts, in a module of their own.
