# A verification project for goark-orm

goark-orm is an object-relational mapper for Go in the manner of MyBatis. This
directory holds TLA+ models of the parts of its runtime where order, failure and
concurrency decide whether it is right, the TLC runs that check them, and proofs
that TLAPS checks. Paths such as `executor.go:227` are below
`src/internal/runtime/`, other paths are given in full.

## The system

| Part | State | Operations | Works with |
|---|---|---|---|
| `MemoryCache` (`cache.go`) | map, recency list, counters, a mutex | Get, Put, Remove, Clear | is the delegate of `BlockingCache` |
| `BlockingCache` (`blocking_cache.go`) | key → channel of the flight that loads it | Get waits for a flight, Put/Remove/Clear/ReleaseMiss end it | the registry, one for each Mapper namespace |
| `SQLSession` (`executor.go`, `local_cache.go`, `second_level_cache.go`) | local cache, pending flushes and puts | Query, Exec, Call, Commit, Close | both caches, the database |
| `TxSession` (`transaction.go`) | `completed`, the `*sql.Tx` | the same, Commit, Rollback | publishes the pending changes of its session |
| prepared statements (`prepared.go`, `prepared_cache.go`) | LRU cache of `*sql.Stmt` under `preparedMu` | look up, prepare, publish, close | every session with executor type REUSE |
| `BatchSession` (`batch.go`) | queue of writes under a mutex | Exec queues; Flush, Query, Commit send; Clear, Rollback drop | any session below it |
| `DefaultIdentifierGenerator` (`identifier_generator.go`) | node, last millisecond, sequence, a mutex | NextID | `BaseMapper.assignInsertID` |
| `BaseMapper` (`base_mapper*.go`) | metadata of one entity | Select, Insert, UpdateByID, Update, Delete, SaveOrUpdate, upsert | a session |
| builders, wrappers, chains (`sql_builder*.go`, `wrapper*.go`, `update_wrapper.go`, `service_chain_*.go`, `dialect*.go`) | clauses and arguments | add a condition, an assignment, a clause; render | `BaseMapper`, services |
| dynamic SQL (`dynamic.go`, `expression.go`, `statement.go`, `parameter_path.go`) | the scope being rendered | evaluate, render, bind, compile | a session's statements |
| interceptors and governance (`interceptor*.go`, `entity_interceptor.go`, `sql_governance.go`) | an ordered chain | rewrite or refuse a statement | between a statement and its compilation |
| result maps (`resultmap_*.go`, `scan_plan.go`, `discriminator.go`, `automapping.go`) | objects being assembled | scan rows and result sets | the rows of a query |
| nested selects and lazy values (`nested_select.go`, `lazy.go`) | a load context; a value, its loader and a mutex | attach, load, reset | a query's objects, a session |
| registry (`registry*.go`, `provider.go`) | mappers, statements, result maps, caches, cache-refs | register, validate, look up | everything above |
| routing (`routing.go`) | sessions by data source | open, resolve, close | sessions |
| configuration (`mybatis_*.go`, `configuration.go`) | settings | load, resolve, apply | start-up |
| code generator (`src/ormgen`, `src/internal/ormcli`) | the parsed package; generated files | scan, merge XML, render, write | build time |
| `src/audit`, `src/dbkit`, `src/ormboot`, `src/ormtest`, the facade | none of their own | helpers | the runtime |

How they interact. A mapper method becomes a statement of a session. A query
looks in the session's local cache and then in the shared cache of its
namespace; a miss in a blocking namespace gives the caller a *flight*, the right
to load the key, while others wait on the flight's channel. The rows are read
from the database, put in the local cache and in the shared one, or, in a
transaction, in a pending map. A write clears the local cache, runs, and clears
the namespace's shared cache, or marks the clear as pending, unless its
statement's `FlushCache` is disabled or its session has no `cacheEnabled`: then
the shared cache is left alone. A commit of the
transaction commits the database first and then clears and puts what is
pending; a rollback throws it away.

What is hard about it:

* several sessions and goroutines interleave between the read of a row and its
  publication, between a write and its flush, between a database commit and the
  cache's;
* waiters on a flight must be woken on every path of its owner;
* a statement, flush or commit may fail after it took effect;
* a batch flush may stop half way and is retried;
* statements are prepared and closed outside the lock that guards their cache;
* the wall clock steps back while ids are drawn from it;
* optimistic locking and SaveOrUpdate take two statements where one would be
  atomic;
* statements are put together as text: conditions nest, are negated, turn out
  empty; each part numbers its own arguments; and interceptors look for keywords
  in what others already rewrote;
* the rows of a join repeat their parents in any order, and lazy loaders of one
  result share a context that several goroutines read and fill;
* what start-up accepts must work later, whatever refers to whatever;
* opening several data sources, or replacing a file, stops half way.

PROJECT.json lists each such hazard at its line with the properties that watch it.

## The modules

| Module | Models | Composes or refines |
|---|---|---|
| `CacheContract` | what a `Cache` promises its callers | abstract |
| `MemoryCache` | `cache.go` | implements `CacheContract` |
| `BlockingCache` | `blocking_cache.go` | |
| `BlockingCacheContract` | the same with the answers visible | implements `CacheContract` |
| `QueryCache` | `executor.go`, `local_cache.go`, `second_level_cache.go`, `transaction.go` over a database | takes the steps of `BlockingCache` by INSTANCE |
| `WriteQueue` | what a batch session promises of its writes | abstract |
| `BatchSession` | `batch.go` over a delegate | implements `WriteQueue` |
| `PreparedStatements` | `prepared.go`, `prepared_cache.go` | |
| `SnowflakeId` | `identifier_generator.go` and the wall clock | |
| `EntityWrites` | the writes of `base_mapper.go` on the rows of one entity | |
| `SqlText` | text as tokens, named arguments, `statement.go`, `parameter_path.go` | |
| `Wrappers` | `wrapper*.go`, `update_wrapper.go` | over `SqlText` |
| `MapperStatements`, `MapperUpserts` | the statements of `base_mapper*.go`, `sql_injector_default.go` | over `Wrappers` |
| `SqlBuilders` | `sql_builder*.go`, `dialect_sql.go`, `dialect_upsert_merge.go` | over `MapperUpserts` |
| `Expressions`, `DynamicSql` | `expression.go`, `dynamic.go` | over `SqlText` |
| `Interceptors` | `interceptor.go`, `entity_interceptor.go`, `sql_governance.go` | over `SqlBuilders` |
| `Statements` | a caller who puts a statement together and sends it | composes the seven above |
| `StatementMeaning`, `RewriteMeaning` | what text says, and what calls and interceptors should say | reference definitions |
| `ResultMaps` | result maps, discriminators, auto-mapping, result sets | |
| `Startup` | `registry*.go`, `provider.go` | over `ResultMaps` |
| `Routing` | `routing.go` | |
| `GeneratedFiles` | `generated_file_writer.go`, `generate_mode.go`, `command.go` and a file system | |
| `SessionCalls` | a program from its generated files to its objects | composes `Statements`, `Startup`, `ResultMaps`, `Routing`, `GeneratedFiles` |
| `Associations` | `nested_select.go`, `lazy.go` | |

`MC*` modules and the `.cfg` files of the same prefix make small instances;
`*_proofs` modules hold the theorems. In every module an action is a critical
section of the code, or a call below the session that the database answers, and
is guarded by a goroutine's program counter (`stage`, `pc`). An operator whose
comment says *mutant* or *fault* is a plausible wrong version of the operator
after it; it is not used by the specification, and the check substitutes it to
show that a property notices the difference.

### MemoryCache
One call is one step, because every method holds the mutex throughout. `items`
and `order` are the map and the list that must agree; `maxEntries` is the
capacity, 0 included. `clock` is what `now()` returns, and an entry expires only
when a Get meets it. The history variables `lastUse` and `lastPut` say what the
recency order and the age of an entry really are. `MapMatchesList`,
`ListIsRecencyOrder`, `EvictsLeastRecentlyUsed` and `HitsWithinTTL` relate code
state to that history; `ImplementsContract` is the
refinement of `CacheContract`.

### BlockingCache
A Get looks into the delegate and only then takes the mutex that guards
`flights`; between the two another goroutine may publish. `open` is the set of
channels that are not closed. `Release` closes one flight or all those of a
namespace, after the delegate's change, which is a step of its own. Any
goroutine may call anything, also ReleaseMiss without a flight. `FlightTable`
says no channel is closed twice or lost, `NoLostWakeup` that a goroutine in its
wait waits on a closed channel or on the present flight of its own key, and
`CancelledCallReturns` that a done context ends the wait.

### QueryCache
A row is a key and its content a version number, new for every write. `db` is
what is committed, `dirty` what a transaction wrote. `local`, `flushes` and
`puts` are the fields `localCache`, `pendingSecondLevelCacheFlush` and
`pendingSecondLevelCachePuts`; `stage` walks a goroutine through `Query`, `Exec`,
a select with `affectData`, `Commit` and `Rollback`. Every database call may
fail; a write or commit may fail after it took effect. Calls of the shared cache
are steps of `BlockingCache`.

A write flushes if `shouldFlushStatementCache` says so
(`second_level_cache.go:26-35`) and the session uses the shared caches
(`second_level_cache.go:118`). `Write` is one that does. `WriteUnflushed` is one
that does not, because its statement's `FlushCache` is disabled or its session
is not in `CacheEnabled`; every write may turn out to be one, and the history
`unflushed` keeps the sessions and rows. A statement of another Mapper that
writes the row is the same: it flushes a namespace of its own, and the row stays
in the cache of this one. `AffectBare` is a select with `affectData`, or a call,
without its flush. A session outside `CacheEnabled` neither asks the shared
caches nor puts anything into them, and its local cache works as any other.

`StaleHasCause` is the central property. A shared cache may be stale in this
design; the property says when: while the flush of the write is still to come,
after a write of that row that flushed nothing, or after one of five causes that
the model records when they happen:

* *overlap*: at the write, another goroutine had read the old row and had not
  yet published it, a transaction's pending puts included (`executor.go:128-144`,
  `second_level_cache.go:186-196`);
* *flush failed*: the context ended between the write and the clear, so the
  clear was refused (`executor.go:232`, `cache.go:244`);
* *answer lost*: the statement failed after it took effect, and Exec returns
  before it flushes (`executor.go:227-230`);
* *flushed early*: a select with `affectData` flushes before it writes
  (`executor.go:115`). `docs/api-compatibility.md:47` asks for "write-like cache
  and audit defaults"; a write flushes after;
* *flush missed*: several goroutines share a transaction, and one of them
  commits it, and takes the pending flushes, after another has written a row and
  before that one's flush is pending (`executor.go:227-235`,
  `second_level_cache.go:211`).

A `TxSession` guards its flag and its pending maps with mutexes, so goroutines may
share one. `ensureActive` is a step before the statement (`transaction.go:361`):
what passed it goes on beside another goroutine's Commit or Rollback until
`database/sql` refuses the statements of the finished `*sql.Tx` (`TxDone`).

`NoUncommittedShared`, `NothingPendingAfterEnd` and `ReadYourWrites` are what a
transaction promises of the caches. The first and the last hold on two
conditions, which the properties state themselves: no transaction is used by
several goroutines (`OneCallerPerTx`), and the transaction did not write the row
without a flush (`WroteUnflushed`). Without the flush nothing is pending, so the
shared cache answers the transaction its old row (`second_level_cache.go:59`),
and what it read between two such writes stays a pending put that its commit
publishes, although that version never was committed
(`second_level_cache.go:153`, `193`). `FlightWillBeReleased` says that every flight
has a goroutine on its way to end it, on every error path.

### BatchSession
Writes are numbered. Flush holds the mutex while its statements run, and what
follows it (the read, the commit) runs after the mutex is released. A statement
may fail before or after the database ran it (`RowsAffected`, the flush of the
cache, the select key: `executor.go:231-250`), or panic: then the deferred Unlock
runs and the queue keeps what was already executed. `NothingLost`,
`SendsInOrder`, `FlushedFirst` and `RepeatsHaveCause` are the promises; the last
says a write runs twice only if the flush that ran it reported failure or
panicked. `ImplementsQueue` is the refinement of `WriteQueue`, whose `ComeBack`
is what a panic does.

### PreparedStatements
The lookup, the publication and the close of the session are critical sections;
preparing and closing are not. `Owns` names the statements a goroutine is
responsible for. `NothingLeaks`, `ClosedByOne`, `CachedAreUsable` and
`WithinCapacity` are the bookkeeping of an LRU cache whose entries need closing.
A statement that was handed out may still be evicted and closed before it runs;
the code accepts the error, and the model lets it happen.

### SnowflakeId
`clock` goes on and steps back; a generator remembers `lastMillis` and `sequence`
and, when the sequence wraps, waits with its mutex held. `IdsIncrease` says the
ids of a generator increase but for two named causes: a millisecond whose wait
was given up, and the step of the clock over the epoch, below which the
timestamp falls back to the plain milliseconds (`identifier_generator.go:86-89`).
`NodesKeepApart` says two generators collide only if they drew the same node.

### EntityWrites
A statement of the database is one step; the methods of `BaseMapper` interleave
between theirs. `Versioned`, `SoftDelete`, `AutoId` and `Batched` choose the kind
of entity and of session. `LostUpdatesHaveCause` says an UpdateByID overwrites a
content its entity was not read from only if the row was written past the
version in between: by a wrapper's update, which neither compares nor raises it
(`base_mapper.go:598`), by an upsert that found it in conflict, or by a row that
was deleted and came back. `VersionNamesContent` is the invariant behind it.

`Upsert` inserts the entity, or writes the row it is in conflict with, on the key
or on another unique column: its `DO UPDATE` and `ON DUPLICATE KEY UPDATE` compare
neither the version nor the live mark (`base_mapper_upsert.go:124-151`). The
conditions of a wrapper stand unbracketed beside the live condition
(`base_mapper.go:749-764`), so one with a top-level OR selects and updates any row
(`SelectListOr`, `UpdateWhereOr`). `DeletedStaysDeleted` says what is left of the
promise of a logical delete: no method of `BaseMapper` brings such a row back or
removes it, and none changes it but these two. A logical delete by a wrapper with
an OR marks deleted rows once more, which changes nothing.

Left out: an UpdateWrapper whose assignments set the version or the live mark
themselves, which is the application's own doing, and the injected
PhysicalDeleteByID (`sql_injector_default.go:152-163`), a statement apart from
`BaseMapper`'s methods that deletes the row whatever its mark.

### From a call to the driver: `Statements` and the modules below it
Text is a sequence of tokens. A keyword, a bracket or an identifier is one token;
a placeholder is a token with a name, and a name is a pair of prefix and number
(`__goark_orm_w_3`) or a path of the user's. A builder or wrapper threads one
record `[sql, args, seq, err]`, as the code threads the text, the `NamedArgs`, the
next number and an error. `CompileSQL` splices `${}` and turns each `#{}` into a
numbered mark and an entry of the argument list.

`Statements` is a state machine over one caller. `front` is the API in use: query
or update wrapper, the chains of a service, the four SQL builders, a script, calls
by key, or a statement of a mapper file behind interceptors. Each call is an
action that changes the clauses `w` (or the group being filled, `open`); a
sending action renders them for one of the mapper's operations and stores text,
arguments and error in `sent`. Every operand is a fresh value, so that the place a
value ends up in tells which call it came from.

`StatementMeaning` reads the text back: `TextHolds` evaluates a condition as the
database would, brackets and precedence included, under every assignment of truth
values to its atoms, and is compared with what the calls asked for (`CallHolds`),
which never looks at text. In the same way `Meaning` evaluates the tree of an
expression where `Expressions` parses its tokens, and `Rendered` renders a script
by substitution where `DynamicSql` renames arguments.

* `WhereMeansTheCalls`: the rows a statement reads, changes or deletes are the
  ones asked for, and only live ones.
* `ValuesInPlace`: each operand is bound once, at its own mark.
* `WritesAreBounded`: no UPDATE or DELETE without a WHERE by accident.
* `ScriptMeansItsTree`: tests group as operators bind, and a placeholder takes the
  innermost item or argument of its name.
* `UpsertMeansItsRow`: ON CONFLICT, ON DUPLICATE KEY and the MERGE of three
  dialects insert and set the row's own values.

### Interceptors
`Proceed` runs a chain of up to three of the interceptors (tenant, data
permission, dynamic table, entity semantics, pagination, block attack, illegal
SQL, read-only) over a statement, each with the searches the code makes: for the
closing bracket, the top-level keyword, the tail of a SELECT, a name that is
free. `TenantHolds`, `EntityRulesHold` and `OnlyAdded` compare the result with
the statement that was given. The first two ask whether the statement's own,
outer condition demands the tenant or the live mark, which is what the
interceptors add; a joined table and the SELECT of a subquery get no condition in
the code, and the properties promise none.

### ResultMaps and Startup
A row is a sequence of columns and values, an object a function from paths to
values. `ScanRows` and `ScanOne` follow the code through its four ways to scan (a
plain row, a flat row scanner, collections grouped by key, further result sets).
`JoinComesBack` takes trees of objects, makes the rows their join has, in every
order, and wants the trees back. `Startup` registers entities, mappers, caches and
providers, validates, type handlers of entity columns included
(`registry_validate.go:91-98`), and then uses a
mapper: `AcceptedServes` says what validation accepts works.

### Routing and GeneratedFiles
`Routing` opens sources in the order of their keys, any of which may fail, sends
operations, closes and opens again. A resolver is the list of its parts: a
resolver by statement is followed by its fallback. `NoneLeftOpen` and `RoutesAgree` are its
properties. `GeneratedFiles` has two commands that read, compare, write, sync,
chmod and rename over a file system with a volatile and a durable view; every
step may fail, a command may be killed, the machine may lose power, and a command
is run again. `FilesAreWhole` is the promise.

### Associations
A query assembles its rows, filling eager nested selects and attaching loaders to
lazy ones; then goroutines call Load and Reset on the lazy values, while other
sessions write the selected rows. `stack` holds the values a goroutine is loading,
whose mutexes it holds (`holder`), because a user's loader may load another
value. `context` is the shared load context. `RowsAgree`, `ShownAsAsked`,
`ResetWins`, `LoadEnds`.

## The runs

| Run | Instance | Shows |
|---|---|---|
| `memory_cache` | 3 keys, 2 values, capacity 0 or 2, 6 calls | evictions, expiry and `CacheContract` |
| `blocking_cache` | 2 goroutines, 2 keys of a blocking and 1 of a plain namespace | no channel closed twice or lost, cancelled calls return, `CacheContract` |
| `query_cache` | 2 goroutines on one transaction, an auto-commit session and one without the shared caches on a row of a blocking namespace, one call each, 2 writes | `StaleHasCause`, also while statements go on beside a commit; `FlightWillBeReleased` |
| `query_cache_namespaces` | a transaction with 3 calls and an auto-commit session, a plain and a blocking namespace | `ReadYourWrites`, `NoUncommittedShared`, and every statement ends |
| `batch_session` | 2 goroutines, 3 writes, 1 failure after execution | the promises above, `WriteQueue`, every call ends |
| `prepared` | 2 goroutines, 3 queries, room for 2 | `CachedAreUsable`, `NothingLeaks` |
| `snowflake` | 3 goroutines, 2 generators, 2 nodes, 2 sequence numbers, the clock steps back once and over the epoch | order, nodes, every call ends |
| `entity_writes` | 2 goroutines, 2 keys, 4 writes, versions and logical deletes, upserts and wrappers with an OR | lost updates have a cause, deleted rows stay |
| `entity_writes_copy` | keys generated by the database | violated: a stale SaveOrUpdate inserts a second row |
| `associations` | 4 queries of two rows, 2 goroutines, 1 write, 1 Reset | the four properties above |
| `statements` | 16 fronts with 14,595 starts: chains of calls, scripts, statements behind chains of three interceptors, joined rows in every order, programs, factories, commands | the thirteen properties above |
| `statements_live` | wrappers alone | violated: OR at the top of a wrapper beside the live condition |

`statements` is one run because its fronts share the modules and the sent
statement; a behaviour belongs to one of them, chosen at its start.

The two violated runs are listed in PROJECT.json under `findings`, each with the
sentence of the repository it contradicts.

Bounds. The proofs hold for every bound; the runs need them to be finite and are
large enough for what they look for. A stale publication needs one reader and one
writer, with one version before and one after; a lost wake-up needs an owner and
a waiter, where the owner may already be making its next call; two keys of one
namespace let Clear end two flights; two entries and three keys make the order of
use decide an eviction; two sequence numbers make the sequence wrap with the
second id of a millisecond; three writes let a failure come before, at and after
the middle of a queue; a row written twice shows a lost update. `MaxCalls`,
`MaxVersion`, `MaxOps`, `MaxItems`, `MaxFailures`, `MaxStatements`, `MaxIds`,
`MaxBacks`, `MaxClock`, `MaxId`, `MaxWrites`, `MaxResets`, `MaxOpens` and
`MaxFaults` cap what would grow without end; no property depends on a cap being
reached. Behaviours that reach such a cap stop, which is why some configurations
say `CHECK_DEADLOCK FALSE`.

In `statements`, `MaxCalls` bounds the weight of the calls before a statement is
sent: a condition weighs 1, opening a group 2 at the top and 1 inside, a clause
or an assignment 3. Weight 6 allows six conditions, groups within groups with two
or three conditions, or two clauses around a group: each part of a statement
numbers its arguments, so two parts that number differently, with a third behind
them, are what an error needs. Expressions are all pairs of binary operators in
both groupings and below and above a prefix operator (precedence is a matter of
two operators), a ternary in each place of another and beside every operator, and
every method on every kind of value, chained or with a list. Joins have up to two roots, with up to two children in each of two
collections and an association two levels deep, in all orders of up to four rows
(above that in one). Cache references and result maps refer to each other in
every way three of them can. Two commands over two files, which write both, one, or only check, and one fault
at any step cover a file that is replaced while another command reads or replaces
it.

Fairness. Liveness assumes that a goroutine whose next step is enabled takes it
(the Go scheduler), that the database answers every statement, also with an
error, and, where goroutines queue for a mutex held over several steps, that the
mutex does not starve one of them (Go's `sync.Mutex` hands over to a waiter that
waited a millisecond), which is the strong fairness of `BatchSession` and
`SnowflakeId` and, for the mutex of a lazy value, of `Associations` (`Lock`);
that a loader returns is the weak fairness of `Load`, and chains of loads that
are a cycle are excluded by the instance, as they lock each other out in the code
(`lazy.go:56`). For ids the wall clock must go on. Nothing is assumed of callers,
of contexts, or of failures.

Symmetry is used only in runs without liveness properties.

## What is proved

TLAPS checks the theorems below for every value of the constants: any number of
goroutines, sessions, keys, statements, any capacity and any bound.

* `MemoryCache_proofs`: `MapAndListAgree`, `ListIsOrderOfUse`,
  `LeastRecentlyUsedGoes`, `HitsAreFresh`, and `ImplementsCache`, the refinement of
  `CacheContract`. Agreement and order are proved together: a call drops a key,
  moves one to the front, or puts a new one there, and the lemma `FrontStep` says
  once what a front key before keys in their old order keeps. The invariant adds
  that no use lies after the last call and that an entry is as old as its Put.
* `BlockingCache_proofs`: `TypeCorrect`, `FlightTableCorrect`,
  `WakeupsAreNotLost`. The invariant adds the shape of each call: how many keys
  a goroutine's argument holds at each stage. `DecoratorIsACache` is the
  refinement of `CacheContract`: an answered step is a step of the contract with
  the content the delegate had when it answered, and the steps between the two
  mutexes change nothing the contract sees.
* `QueryCache_proofs`: `TypeCorrect`; `SessionsRespectCache`, every step of the
  sessions is a step `BlockingCache` allows its callers, so its invariants hold of
  the composed system: `WakeupsAreNotLost`; `FlightsAreReleased`, with
  an invariant that ties each open flight to the stage of its loader.
  Also `UncommittedStaysPrivate`: its invariant follows a version from the read to
  the shared cache: everything in a place another session can read from is durable,
  and everything pending is durable or the transaction's own, unless the
  transaction wrote the row without a flush.
  `TransactionsReadTheirWrites`: what a transaction
  wrote, with statements that flush, is the only version of the row in its local
  cache, its pending puts and
  its goroutine's hands, and the flush that keeps it from the shared cache is
  pending until the end (`SeesOwn`); and `EndedTransactionsHoldNothing`, that of an
  ended transaction only the publication goes on. The first two properties have
  the condition `OneCallerPerTx` in their statement and the third theorem assumes
  it; the code leaves it to its callers
  (`transaction.go:361`), and it is needed: with two goroutines on one transaction,
  one that read the transaction's own first write may make it a pending put after
  the other has written the row again and marked its flush; the commit then
  publishes a version that never was committed. TLC finds this behaviour, and
  `StaleHasCause` counts it as an *overlap*. It finds the same without
  `WroteUnflushed`, by one goroutine that writes, queries, writes and commits.
  `StaleDataHasCause` assumes nothing about who shares what. It needs an
  invariant about goroutines and not only about caches (`StaleInv`): one goroutine
  at most ends a transaction (`EndsOnce`); a row written in an open transaction
  has its flush pending or on its way, or was written without one (`FlushInv`); what a session read, holds
  back or is about to put is the committed version, belongs to a row it wrote
  itself, was passed by a write that recorded a cause when it happened, or will
  never be published because its transaction is over (`FreshInv`); and the clears
  a commit has still to make are not cancelled (`ClearInv`).
* `BatchSession_proofs`: `WritesAreNotLost`, `DelegateRunsFlushed`,
  `WritesAreSentInOrder`, `RepeatsAreCaused`, `SessionIsAQueue`. `NothingLost` is not inductive: it
  needs that what the running flush passed is in the database
  (`ExecutedIsSent`), and the order needs that a write is queued behind every
  earlier one that is neither executed nor dropped (`QueueIsOrdered`). A write
  runs twice with cause because none is queued twice (`QueuedOnce`) and one that
  ran and is still to run was in a flush that reported a failure (`SentAgain`). The
  refinement also needs that the passed writes are the last ones sent
  (`LastSent`).
* `EntityWrites_proofs`: `VersionsNameContents`, `LostUpdatesAreCaused`,
  `DeletedRowsStay`, for every kind of entity and session, upserts and wrappers
  with an OR included: by cases over the methods, each of the others finds a live
  row or none. The invariant adds
  that a goroutine with statements left has an entity and that an entity that was
  read has a key.
* `PreparedStatements_proofs`: `CachedStatementsAreUsable`,
  `StatementsHaveOneOwner`, `CapacityIsKept`. The invariant adds that statement
  numbers in use are below the counter and that what a goroutine holds fits its
  stage.
* `Associations_proofs`: `TypeCorrect`, `RowsShowOneVersion`,
  `FieldsShowTheirType`, `ResetsAreNotUndone`. The base is that a goroutine holds
  the mutexes of the values on its stack (`StacksOK`), so a value changes only
  under the goroutine that loads it. Over it, values have the type of their field
  and come from the loader the value was last given (`Meaning`). That rows agree
  needs the history of a key: unless two goroutines overlap on it, it is read by
  one, and only while the context has nothing for it (`ReadOnce`); so whatever a
  cell shows of it, or a goroutine is about to set, is what the context has
  (`Kept`).
  Assumed of the constants: queries with rows and plans of the shape the mapper
  has, and that the marks of no value and of a user's value are no type's name.
* `Standalone_proofs`, about the three components that share no state with any
  other. `GeneratedFiles`: `FilesStayWhole`. The invariant says of each command
  that the temporary file it holds has the data its stage implies, that no two
  commands hold the same one, and of the durable view that every name in it holds
  something whole or something not synced under a temporary name. `Routing`:
  `FailuresCloseSessions`, `SessionsRouteAlike`; the open sessions are those the
  session got, all of the factory's once it is ready, and each operation went
  where a default the factory may choose sends it. `SnowflakeId`:
  `IdsAreOrdered`, `NodesAreKeptApart`, from the order and injectivity of the
  packing of timestamp, node and sequence for any bit widths.

Only model-checked: the liveness properties (TLAPS does not prove liveness under
fairness): `CancelledCallReturns`, `CallEnds`, `LoadEnds`; everything about text,
rows and start-up (the ten properties of `StatementMeaning`, `RewriteMeaning` and
`SessionCalls`), whose definitions recurse over data, which is induction the
provers cannot do; and the violated properties. Every other property of a run is a
theorem.

Defined for readers and proofs, but in no run: the `TypeOK` of modules whose runs
check stronger properties; `MapMatchesList` and `ListIsRecencyOrder` of
`MemoryCache`, `NothingPendingAfterEnd` of `QueryCache` and `SendsInOrder` of
`BatchSession`, which are proved; and three properties the
code does not have, each reproduced by putting it in the named configuration:
`UniqueIds` (`SnowflakeId`: a wait that is given up leaves the wrapped sequence
behind, `identifier_generator.go:74`), `SavesOnce` (`EntityWrites` with
`Batched = TRUE`: a queued update reports 0 rows, and SaveOrUpdate inserts,
`base_mapper.go:502`) and `ReleasesOwnRight` (`QueryCache`: a query that opened no
flight releases another's, `executor.go:128`, against `blocking_cache.go:82`).

## What the properties leave out

Where the code has a known limit, the property names it and says nothing of it:

* `Escapes` (`RewriteMeaning`), statements the interceptors do not see through: an
  OR at the top beside what they add, a condition behind RETURNING, all but the
  last branch of a UNION, all but the last of several statements in one text
  (`interceptor.go:677-770` knows no `;`, so what is added goes to the end: a DELETE
  before the `;` stays without tenant and live condition; illegal-sql, where it is
  in the chain, refuses such a text), the tail of a DELETE that logical delete
  rewrites; the branches of an Oracle INSERT ALL after the first.
* Tables that are not the statement's own: joined ones and those of subqueries are
  read without tenant and live condition.
* Writes that flush nothing (`WroteUnflushed`), transactions shared by goroutines
  (`OneCallerPerTx`): see `QueryCache`.
* A wrapper's own OR at the top beside the live condition (`LiveOnly` is the run
  that shows it).
* Upsert columns that are set but not inserted: the MERGE's projection lacks them
  (`base_mapper_upsert_merge.go:57`, `dialect_upsert_merge.go:79`).
* `CaseTypesAgree`: a discriminator case of another Go type passes validation and
  is refused only by a row of that case.
* Two lazy values read by two goroutines at the same time may differ.
* A factory without a source named `default` and without a configured default
  takes whichever key the map yields first (`routing.go:373`).

## Met on the way

Behaviour of the code the models show and no run checks, for the next reader:

* Conditions that all render empty leave a bare `WHERE ` in the statements of
  `BaseMapper`, which the database refuses; `base_mapper.go:698` says an empty
  condition is refused. `docs/provider-builder.md:40` has the same guard for
  builders (`RequireWhere`).
* A DELETE without WHERE stays a physical delete under the entity interceptor.
  Block attack and the SQL observer look at the statement after the rest of the
  chain ran. `${}` tables and MERGE are refused by some interceptors, and dynamic
  table names are not rewritten where a table is quoted with `[..]`; in
  `ON DUPLICATE KEY UPDATE col` the column counts as a table.
* `Last` comes before the LIMIT of SelectPage. LIMIT and OFFSET of the select
  builder do not depend on the dialect. `Update(entity, wrapper)` ignores the
  version column.
* Expressions evaluate both sides of `and`, `or` and a ternary, so an
  error on the right side fails the test although the left side decides it. Numbers of different
  kinds are compared as they print. `suffixOverrides` cuts an identifier that ends
  with one. The index of an outer loop is gone after an inner loop of that name.
* An unprefixed column of the root overwrites the property of a child that names
  it; `autoMappingUnknownColumnBehavior` FAILING refuses the columns of a
  collection; an association of NULLs is an empty object in one scanner and nil in
  another; a discriminator is ignored where there are collections; flat scanners
  map unnamed columns even where auto-mapping is off; result sets below an
  association or a discriminator's case are accepted and never filled
  (`registry_validate_resultset.go:53`); an unknown result map falls back without
  a word.
* Without `WithRoutingRegistry` a Query that runs a writing statement goes to the
  read source.
* Cached values are copied one level deep (`local_cache.go:132`). Registering a
  cache a second time orphans the flights of the first.
* A generated file gets mode 0644 when its own could not be read.

## What the models leave out

* The database is READ COMMITTED and serves one row to one query. Joins, ranges
  and other isolation levels would add anomalies of the database's own.
* In `QueryCache` `ensureActive` and the first thing a call does with the caches of
  its session are one step, as are marking a transaction completed and clearing
  its local cache; the statement itself is a later step. A select whose
  `FlushCache` is enabled is its flush (`Affect`, after which nothing is written)
  and a query after it. `UseCache` disabled and the local cache scope STATEMENT,
  which only ask and fill fewer caches, are left out.
* `Startup` has no names of Go types of mappers and does not normalise names.
* Cached values are copied by the code; the models have no aliasing.
* Characters: quoting and its errors are a set of bad identifiers (`BadColumns`),
  scanners of text and expressions start from tokens, numbers are whole, and the
  methods of expressions that trim a text or change its case are left out.
* Conversion between column values and Go types, type handlers and reflection:
  a value carries its type, and a handler is there or not.
* Logging, the texts of errors, JSON, drivers' own pools, `Next`/`Scan`/`Close` of
  a row stream, which belong to one goroutine.

## Not modelled

* Code generator (`src/ormgen`): a build-time function from Go and XML to Go
  text, without state but the files, which are modelled.
* Configuration: parsed once by one goroutine at start; what the settings change
  is a constant of the model it changes.
* Audit, `dbkit`, `ormboot`, `ormtest`, `jsoncodec`, the facade: formatting and
  delegation.
* Stored procedures' out parameters, a user's meta object handler, a user's type
  handler: arbitrary code or data by reflection.
* In parts that are modelled: BeginTx options and InTx's panic, the service's
  loops over batches, plan caches of statements and expressions, count caching,
  replacing a cache while it is used.

## What is left to do

* A weaker statement than order that can be proved of text: that no builder uses
  an argument's number twice, from an invariant of the numbering alone, without
  the recursion over conditions.
