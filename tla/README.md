# A TLA+ verification of go-zetasqlite

go-zetasqlite is a `database/sql` driver that runs BigQuery (ZetaSQL) statements on SQLite.
This directory models the parts of it in which the order of things matters: the catalog of
tables, views and functions that all connections share, how statements keep it in step with
SQLite and with the table `zetasqlite_catalog`, how several catalogs over one file learn of
each other's objects, the name path with which names are completed, MERGE as the list of statements it
becomes, and the way of a call's arguments to the parameters of its statements. It also models what SQLite
lacks and Go supplies: window and aggregate functions, which keep a state while SQLite hands them rows,
the scalar functions, the values with their casts and encodings, and the calendar. TLC checks the models
on small instances; for the catalog, the calls of connections, the synchronisation, the name path, the frames of
window functions and the table that MERGEs share, TLAPS proves the main properties for every instance.

## Inventory

| Component | Source | State | Operations | Correct when |
|---|---|---|---|---|
| Driver registry | `driver.go:34-73` | a `*sql.DB` and a `*Catalog` per data source name | `Open` | two connections of one name share one catalog |
| Connection | `driver.go:75-283` | `conn`, `tx`, an analyzer | `ExecContext`, `QueryContext`, `PrepareContext`, `BeginTx`, `Commit`, `Rollback` | a call that ends leaves memory, SQLite and rows in agreement |
| Catalog | `internal/catalog.go` | lists, maps, the `SimpleCatalog` of the analyzer, `lastSyncedAt`, `mu` | `Sync`, `AddNew…Spec`, `Delete…Spec`, `FindTable` | its copies of a spec agree; names are never redirected; a row is missed only for a known reason |
| Statement actions | `internal/stmt_action.go` | the spec, the SQL, the functions of the call | `ExecContext`, `QueryContext`, `Prepare`, `Cleanup` | nothing temporary outlives its call |
| Changed catalog | `internal/conn.go`, `catalog.go` | Added and Deleted per kind | `addTable`, `deleteTable`, `addFunction`, `deleteFunction` | the caller learns the net effect of the script |
| Name path | `internal/name_path.go` | `path`, `maxNum` | `setPath`, `addPath`, `setMaxNum`, `mergePath` | one object has one name, however it is spelled |
| Analyzer | `internal/analyzer.go` | options, query parameters | `Analyze` builds one action after the other, lazily | a statement sees what those before it made |
| Parameters | `internal/analyzer.go:181-239, 768-830`, `internal/stmt.go` | the arguments left for the statements to come | `getArgsFromParams` | an argument reaches the parameter it was given for |
| MERGE | `internal/transformer_stmt_merge.go` | the table `zetasqlite_merged_table` | a list of SQL statements | the rows of the target are those MERGE defines |
| Query lowering | `internal/coordinator_*.go`, `internal/transformer_*.go`, `internal/querybuilder_*.go` | column scopes | `TransformQuery` | every column reference finds the column it means |
| SQL builder | `internal/sqlbuilder_*.go` | — | formatting, flattening of subqueries | flattening keeps the meaning |
| Window functions | `internal/function_window*.go` | the values of a frame | `Step`, `Inverse`, `Done` | the result is that of the frame |
| Aggregates | `internal/function_aggregate*.go` | partial results | `Step`, `Done` | the result does not depend on how rows arrive, unless ordered |
| Scalar functions | `internal/function*.go` | — | about 300 functions | three-valued logic, ranges, no overflow unnoticed |
| Values | `internal/value.go`, `encoder.go`, `decoder.go` | — | encoding, comparison, casts | decoding undoes encoding; comparison is an order |
| Wildcard tables | `internal/wildcard_table.go` | — | `createWildcardTable`, `FormatSQL` | exactly the tables of the prefix are read |
| Others | JSON, JavaScript, formats, `cmd/` | — | wrappers of libraries | — |

How they interact: a call of a connection first runs `Analyze`, which synchronises the shared
catalog from the rows of `zetasqlite_catalog` and collects the functions, and returns one closure per
statement. The connection then builds and runs the actions one by one. The actions send SQL to
SQLite, through the transaction of the connection if it has one, and change the catalog under
`c.mu`. At the end the actions are cleaned up: at once after an exec, when the rows are closed
after a query.

The hard behaviours, each listed with its line in `PROJECT.json` under `hazards`: one step of
several fails, or the process dies between two; two connections work on the same name; rows are
stamped before they are committed, and transactions are rolled back; temporary objects of
scripts that fail; replaced objects and what rebuilding the catalog brings back.

## Modules

| Module | Models | Notes |
|---|---|---|
| `CatalogOps` | the data structure of `catalog.go` | pure operators on records |
| `Catalog` | one catalog under any sequence of its four operations | extends `CatalogOps` |
| `Dictionary` | what a catalog promises | abstract specification, implemented by `Catalog` |
| `CatalogOps_proofs` | | lemmas about registries, for the proofs about `Catalog` and `Driver` |
| `Catalog_proofs` | | proofs about `Catalog` |
| `ChangedCatalog` | the record of changes of a call, `conn.go` | extends `CatalogOps` |
| `Driver` | calls of connections, step by step | composes `CatalogOps`, `ChangedCatalog` and SQLite |
| `Driver_proofs` | | types of `Driver`, catalog and rows |
| `DriverCalls_proofs` | | what the calls of `Driver` leave behind, tear and report |
| `CatalogSync` | several catalogs over one database | time stamps and transactions, names only |
| `CatalogSync_proofs` | | proofs about `CatalogSync` |
| `NamePath` | `name_path.go` | one connection's name path |
| `NamePath_proofs` | | proofs about `NamePath` |
| `Cells` | the values SQLite stores, NULL, errors and panics | shared by all below |
| `WindowFunctions`, `GroupFunctions` | `function_window*.go`, `function_aggregate*.go` | Step, Inverse and Done of each function |
| `Aggregation` | one call of a window or aggregate function | SQLite's side of it is external |
| `Aggregation_proofs` | | proofs about the frames and the groups of `Aggregation` |
| `Calendar` | Go's calendar, and the date and time functions | pure operators |
| `Values` | `value.go`, `encoder.go`, `decoder.go` | operators, comparison, casts, encoding |
| `Texts`, `Scalars` | `function_string.go`; `function.go`, `function_math.go`, `function_array.go` | pure operators |
| `Binders` | `function_bind.go` | for each function its arguments and what it does with NULL |
| `ScalarCalls` | an expression, call by call | composes `Scalars`, `Texts`, `Calendar` and `Binders` |
| `Merge` | `transformer_stmt_merge.go`, `MergeStmtAction` | one or more connections |
| `Arguments` | `analyzer.go:181-292, 769-829`, `stmt.go` | executed and prepared scripts |
| `Statements_proofs` | | proofs about `Merge` and `Arguments` |
| `MCCatalog`, `MCDriver`, `MCCatalogSync` | | the instances TLC checks |
| `MCAggregation`, `MCScalars`, `MCTexts`, `MCCalendar`, `MCFunctions`, `MCStatements` | what the functions and statements mean, their inputs | each extends the one before; the last is the instance |

### Catalog

`cat` holds two registries of the same shape, `tables` and `functions`, each with the `list`
(`c.tables`), the `map` (`c.tableMap`) and the `simple` catalog. An object is its spec
`[kind, path, ver, temp]`: columns, types and bodies are the one field `ver`. An identifier of a
path is a sequence of the words between its underscores, since `formatPath` joins with `"_"` and
different paths may get one name. `TableKeys` says under which pairs of a nested catalog and a
(dotted) name the recursion of `addTableSpecRecursive` registers a table. `Rebuild` is
`resetCatalog` in closed form; the invariant `RebuildAsCode` compares it, and `Without`, with the
loops of the code. Every operation runs with `c.mu` held, so each is one action.

### Driver

A call is a record: its script, the statement it is at (`pc`), the actions built so far
(`built`), and `step`, what it does next. One step is one SQL statement or one section under
`c.mu`; other connections move in between. `Register` and `Unregister` are such sections: they
change memory first and the row second, and the row may fail. `objs` is SQLite: the kind of each
object by name. `rows` is `zetasqlite_catalog`; `fresh` says that `updatedAt` is not before
`lastSyncedAt`. Faults are SQL statements that fail for no reason of theirs; `Restart` loses all
memory and keeps `objs` and `rows`. Go's `defer` is in `Failed`: an exec cleans up also after an
error or a panic, a query does not, since it returns no rows.

Left out: the transaction of a connection, the locks of SQLite and a Sync whose reading ends early without an error
(see `CatalogSync`; after one, more tables may be torn than `TornTablesBounded` counts), DML, which
changes no object, MERGE (see `Merge`), arguments and what `PrepareContext` does with them (see
`Arguments`), the tables `PrepareContext` drops, automatic indexes, name paths (see `NamePath`).

### CatalogSync

Each catalog has the names it knows and its `lastSyncedAt`; each connection belongs to one
catalog and may have a transaction with its own view of the rows. A section under `c.mu` is in
two or three actions, since the clock, other catalogs and other connections' transactions move
while it runs: `SyncBegin` reads the clock, `SyncRead` loads the rows, all of them or, when `rows.Next()`
fails and nobody asks `rows.Err()`, some; `SyncEnd` sets `lastSyncedAt` in either case. SQLite is in its default rollback journal mode: one writer, and nobody
commits while another has read in a transaction. Lock waits that time out are the failing
branches of `SaveEnd`, `Delete` and `SyncFails`. `late`, `skipped` and `undone` are history: the rows
committed behind the back of a Sync, those an early end of its reading left, and the names a catalog dropped
although SQLite did not.
The WAL mode, which lets a writer commit while others read, is not modelled.

### NamePath

`path` and `maxNum` as in the code. Identifiers are model strings; a string a client gives
holds a non-empty sequence of them. `Taken` is the loop of `mergePath`: the length of the prefix it
takes of the name path, given where it stops (`Stops`).

### Aggregation

`call` is the function's builder (which of the state machines of `function_window_option.go` it uses),
its frame and options; `rows` are the rows of the partition or group. `agg` is what the Go code keeps;
`entered` and `left` say how many rows it was given and how many were taken back, `at` which row is
answered next. SQLite's protocol — when it calls `Step`, `Inverse` and `Done` for a frame, and that a
frame with EXCLUDE is computed afresh — is external. All functions of one builder share one state machine,
so the properties quantify over the functions instead of having one behaviour per function. Of the
statistics library a statistic is its samples and what their deviations are divided by (`Spread`). In a group
a function of two arguments, APPROX_QUANTILES or APPROX_TOP_COUNT, has its number in the second; `NumberAlone` is what
IGNORE NULLS makes of a row whose value is NULL.

### Values and scalar functions

A value is a pair of its kind and its payload. Integers wrap around at `MaxInt`, floats keep
`Exact` integers apart and have quarters, fractions have `NumericScale` or `BigScale` digits; texts are
code points, and bytes where the code works on bytes. `Stored` is the way of a value through SQLite and
back, which changes some values. `Binder` gives for each of the functions the number of arguments its
bind function takes and one of eight policies about NULL. An expression (`expr`) is a list of calls,
the innermost first; `Evaluate` decodes the arguments of the next one, puts the stored answer of the
one before in the place of `Hole`, applies the policy, calls the function and encodes what it
answers. `answers` are the results. With SAFE an error becomes NULL and ends nothing, a panic stays one.

### Merge

`merged` is the table `zetasqlite_merged_table`, with the connection that made it. `CreateMerged` is the
UNION ALL of two left joins; the columns of each side come in the order of a Go map, so on the second side
the columns of a table may be swapped under the names of the first. `RunClause` is the statement of one WHEN
clause, `DropMerged` the last one. There is no transaction around them: between two of them the other
connection moves, and `BreakMerge` fails one. `merging` holds the inputs, the target at first among them, for
the properties to compare with. The connections outside a transaction are modelled; within one, SQLite would
keep the other connection out and a rollback would take the merged table back.

### Arguments

`calling` is a call, its arguments and its statements with their parameters: in the order of the text, and
(`walk`) in the order in which the resolved tree is visited. `rest` are the arguments `Analyze` has not
handed out, `bound` what SQLite ends up binding to each parameter. Binding itself, by name or by
place and NULL where there is nothing, is that of the SQLite driver and external. The scripts of the run are of one
or two statements, and one of a mixed mode, which `Analyze` refuses, may come first.

## Runs

| Run | Checks | Bounds | States |
|---|---|---|---|
| `catalog` | `TypeOK`, `CatalogConsistent`, `RebuildAsCode`, `NamesNeverRedirected`, `ImplementsDictionary` | three tables in two datasets with a name in common, two versions each; a user function in two versions and a built-in one; no bound on the length of a behaviour | complete |
| `catalog_latest` | `CurrentSpecUpdated` is violated | the same | |
| `driver_exec` | `TypeOK`, `QuiescentAgreement`, `TempObjectsGone`, `ChangesReported` | one connection, two calls, every script of one or two of 18 statements and transaction blocks | 128,000 |
| `driver_race` | `RowsMatchCatalog` | two connections, two calls each of six scripts on one table or view and one function, one restart | 2.4 million |
| `driver_live` | `TempEventuallyGone`, `CallsEnd` | two connections, one call each: failing scripts with temporary objects, and a query over its own | 4,000 |
| `driver_torn` | `TornTablesBounded` | one connection, three calls, one fault, one restart | 33,000 |
| `driver_leak`, `driver_view` | one property each is violated | one connection, one call | |
| `catalogsync` | `TypeOK`, `UnknownRowsExplained`, `LateMeansOvertaken` | two connections of one catalog, one of another, one name, two times, one set back of the clock, two transactions open at a time | 1.9 million |
| `namepath` | `TypeOK`, `MergeIdempotent`, `MergeWithinLimit`, `SpellingsAgree` | four identifiers, one of them INFORMATION_SCHEMA; paths of up to three, names of up to four | 425 |
| `statements` | `FrameKept`, `FrameResults`, `WindowResults`, `GroupResults`, `AggregateOrder`, `ExtremesChosen` of aggregation; `ThreeValuedLogic`, `OrdersTotal`, `SameElements`, `ValuesReturn`, `ArithmeticExact`, `ArraysMean`, `TextsMean`, `PeriodsAgree`, `AddingMeans`, `TimesReturn`, `SafeNeverFails` of expressions; `MergesMean`, `MergedTableOwned` of MERGE; `ArgumentsReach` of calls | see below | 444,000 |
| `window_covar` | `PopulationCovariance` is violated | the same | |

The bounds of `statements`: partitions of up to `MaxRows` = 3 rows (4 for the ranking functions) and groups of
up to `MaxGroup` = 4; `MaxInt` = 1023 for 2^63 - 1 and `Exact` = 512 for 2^53, `NumericScale` = 2 and
`BigScale` = 3 digits, integers of the three `Bits` for BIT_AND and its like; arrays that a
function generates of up to `MaxElements` = 30; days from 2021 to 2026. A MERGE has one or two clauses of
six and up to two rows on each side; or two connections merge into one target, and one statement may fail.
A call has one statement with any two parameters and any two arguments, or two statements and
three arguments. A behaviour is one aggregation, one expression, one MERGE input or one call; they share a run because
they share the values and not because they interact.

Why the bounds are enough. In `catalog` three tables are the fewest in which a suffix (`t1`) is
shared, one table stays while another goes, and the third is registered before or after them; two
versions tell an update from the first spec. In `driver_exec` two calls are enough for what one leaves
to show in the next; longer scripts repeat the pairs. In `driver_race` two calls of two connections
are the fewest in which one connection syncs while the other is between its DDL and its row, and a
restart in between. In `catalogsync` a row is late after one tick of the clock, and two
connections of one catalog are needed for its lock to matter; two open transactions (`FewOpen`) are
the fewest of which one keeps the other from committing; that more names, connections or
time add nothing is proved. In `statements` three rows are the fewest in which a frame has a row before, in
and behind it, and a group of four has two that tie and one on each side; the numbers are chosen at the
ends and around zero and `Exact`, and the scaled-down widths keep the order of those
(0 < `Exact` < `MaxInt`, fewer digits in NUMERIC than in BIGNUMERIC). The days hold a leap year, years that begin
on a Saturday, a Sunday, a Monday and a Wednesday, ISO years that begin before and after January 1, and both ends of months. In a MERGE two rows are the
fewest in which one matches and one does not, or both match; two clauses the fewest in which one sees what the
other has done. Two statements are the fewest in which one takes the arguments of the other.

`CHECK_DEADLOCK FALSE` stands in the configurations of `Driver`, where a client that has made its
calls stops, and of `MCStatements`, where a partition, an expression, a MERGE or a call that is finished does. `MCCatalogSync` uses symmetry of the two connections of one catalog; its properties are
invariants and an action property, for which this is sound.

Every checked property has a mutant in `PROJECT.json`: a change of one definition, the way a bug
would change the code, with which TLC finds the property violated.

### What holds

- `CatalogConsistent`: after any sequence of additions and deletions, list, map and SimpleCatalog
  hold the same objects, and adding one by one gives what rebuilding from the list gives.
- `NamesNeverRedirected`: a CREATE or a DROP never makes a name that resolves to an object resolve
  to another one, as long as that object exists.
- `ImplementsDictionary`: looking objects up by their full paths is a dictionary in which the spec
  an object was created with stays until it is dropped.
- `QuiescentAgreement`: between calls, whichever statements failed, memory, SQLite and rows tell
  of the same objects. The versions they hold may differ, see below.
- `TempObjectsGone`, `TempEventuallyGone`: nothing temporary outlives an exec, or a query whose rows
  are closed.
- `ChangesReported`: the ChangedCatalog is the net effect of a script on tables and functions.
- `RowsMatchCatalog`: with connections racing and a restart, a permanent object of the catalog has
  its row, and a row the catalog does not know will be read by the next Sync.
- `TornTablesBounded`: SQLite and the rows disagree about at most as many tables as there are calls
  in the middle of a statement, faults and restarts.
- `UnknownRowsExplained`, `LateMeansOvertaken`: a committed row that a catalog does not know will
  be read by its next Sync; or it was committed after a Sync that was past its time stamp, which
  takes a clock that moved between stamp and commit, or was set back; or the catalog itself dropped
  the object and SQLite did not, or not yet; or the reading of a Sync ended early without an error. The last is a
  gap in the code and not a promise: see below.
- `MergeIdempotent`, `MergeWithinLimit`, `SpellingsAgree`: completing names.
- `FrameKept`, `FrameResults`, `WindowResults`: however rows enter and leave a frame, the status holds the rows of the
  frame in their order, and every window function answers what it means on them: those of the values in the frame, with
  DISTINCT and IGNORE NULLS, and the others, which rank or look ahead and back.
- `GroupResults`, `AggregateOrder`, `ExtremesChosen`: the result of an aggregate does not depend on the order of
  its rows, except where ORDER BY, LIMIT or HAVING say so, and these choose the right rows.
- `ThreeValuedLogic`: NULL in the logical functions.
- `SafeNeverFails`: a call with SAFE never ends with an error, at whichever step of an expression, and does not panic
  unless its bind function asks a NULL for its value or a length is negative.
- `OrdersTotal`, `SameElements`: comparison is a total order of each type, the six operators and the collation
  of ORDER BY agree on it; arrays and structs are equal by their elements.
- `ValuesReturn`: a value survives CAST and back, and an array or a struct on its way through SQLite.
- `ArithmeticExact`, `ArraysMean`, `TextsMean`: the functions compute what they are named for, on
  integers modulo 2^64, on fractions, on arrays, on the characters of a text.
- `PeriodsAgree`, `AddingMeans`, `TimesReturn`: EXTRACT, TRUNC, DIFF and LAST_DAY see the same days, weeks, months
  and years; ADD, SUB and DIFF undo each other, month ends included; times return from zones and Unix times.
- `MergesMean`, `MergedTableOwned`: what a MERGE makes of its target, also with another one at the same time, and
  whose rows its clauses look into.
- `ArgumentsReach`: an argument reaches the parameter it was given for, in its type.

Most of these hold with exceptions, each of which is an operator of its own (`Deviates`, `LogicDeviates`,
`CastDeviates`, `PeriodDeviates`, `GenerateDeviates`, `MergeDeviates`, `Displaced`), or stands as a disjunct
beside the meaning: there the code does not compute what the function means. What a bind function does about NULL
is the table `Binder`. The list follows.

### Where code and documentation disagree

- `catalog_latest`: `addTableSpec` says `// update current spec` (`catalog.go:516`) but updates only
  the map. After `CREATE OR REPLACE TABLE` the analyzer still resolves the old columns, and the next
  DROP of any object brings the old spec back into the map.
- `driver_leak`: `driver.go:213-217` lets the rows clean up temporary objects, but a query that
  fails returns no rows.
- `driver_view`: a view is added to the ChangedCatalog by Cleanup, so one that was created and
  dropped in a script is reported as added (`catalog.go:22, 41` of the root package: "retrieve
  modified catalog information").
- `window_covar`: window COVAR_POP is the sample covariance, as `function_window.go:840` and the expectation of
  `query_test.go:2659-2660` say themselves.

No document promises it, but a reader should know: `Sync` (`catalog.go:277-299`) does not look at `rows.Err()`. When its
context is cancelled, or SQLite fails, between two rows, it ends as if there were no more, and `lastSyncedAt` moves past the
rows it has not read; the catalog learns of them only if they are written again, or after a restart (`skipped`).

### Where a function or statement is not what BigQuery defines

These are what the properties of `statements` leave out; the models have the code's behaviour.

**MERGE** (`transformer_stmt_merge.go:15-24` describes the translation as equivalent to the ZetaSQL
statement). WHEN NOT MATCHED inserts all rows of the source, matching ones too. A clause for rows
NOT MATCHED BY SOURCE touches every row of the target as soon as one is unmatched, rows inserted by a clause before
included, and it may see a NULL where the order of a Go map swapped two columns; the same swap confuses matched rows
whose values equal keys. Every clause of one kind is executed, not the first only. Several matches of one
row are taken in any order, not refused. SET reads the target columns of any row with the key. AND conditions
are ignored. Parameters get no arguments, so the statement fails half way. A failure after the CREATE leaves
`zetasqlite_merged_table`, and every later MERGE fails.

**Arguments.** After a query or DML with `?` the next statement gets the same arguments again. A named
argument for a `?`, or a misspelt one, leaves the parameter NULL without an error; a misspelt one may take the
place of another. A CREATE TABLE with `?` may take named arguments away. Where the resolved tree visits `?` in
another order than the text, their types are swapped. A prepared CREATE TABLE always fails, and of a
prepared script only the last statement is executed.

**Windows and aggregates.** In windows DISTINCT, the logical and the statistical functions panic on a NULL; CORR and its like
keep every pair that has left the frame; PERCENTILE_CONT takes a greatest value of 0 for none; PERCENTILE_DISC of a
small fraction answers NULL; BIT_OR and BIT_XOR start again when a partial result equals their mark for "no
value"; of rows whose first key is NULL, ORDER BY inside an aggregate does not look at the second. COVAR_POP is the
covariance of a sample, over a window and of a group; a window answers NULL for STDDEV_POP and VAR_POP of one value, a group
NaN for a sample of one. APPROX_QUANTILES and APPROX_TOP_COUNT with IGNORE NULLS panic at a NULL, since its place in the
arguments is taken by the number; with DISTINCT they pass over it if they have seen a value equal to the number.

**Logic, NULL and SAFE.** IN, BETWEEN, IS TRUE and IS FALSE answer NULL for any NULL. NULLIF(x, NULL) panics, and so
do ROUND(x, NULL) and the functions whose policy in `Binder` is "call", such as INTERVAL and PARSE_NUMERIC; those of
"refuse", such as JUSTIFY_DAYS, fail; those of "empty", such as SPLIT, answer an empty
array. ROUND and CURRENT_DATE convert an argument before they look at the next, so that one of a wrong type fails
beside a NULL. The safe operators of arithmetic answer a FLOAT64. A negative length makes REPEAT, LPAD and a shift
panic, also under SAFE.

**Values.** An INT64 in an array or struct comes back as the nearest FLOAT64. MOD, ABS, ROUND and their like
answer a FLOAT64. NUMERIC to INT64 takes the numerator; the empty text casts to 0; a struct is cast by the names
of its fields; an INTERVAL of mixed signs loses one. GROUP BY joins the elements of arrays and structs with a bar.

**Arrays.** GENERATE_ARRAY from a number to itself with a negative step is empty; a step of zero downwards, and one past
the greatest INT64, never end; with NUMERIC all elements are one.

**Texts.** SUBSTR, STRPOS, INSTR and REGEXP_INSTR count bytes; INSTR needs a position, within the text; for a
negative one it counts the occurrences from the left, and answers how far the one it takes is from the end. TRANSLATE
translates what it has put in. LPAD and RPAD of BYTES with a pattern panic. "_" in LIKE is itself.

**Calendar.** ISOWEEK is no week for DATE_DIFF, DATE_TRUNC and LAST_DAY, and ISOYEAR is off in TRUNC when January 1 is a Friday or
Saturday, and in LAST_DAY. QUARTER cannot be subtracted or be a difference, and EXTRACT takes 91 days
for one. LAST_DAY of a week that begins later in the week than the day is a week late; EXTRACT WEEK is
the ISO week of the Sunday. MILLISECOND and SECOND truncate to the unit above. A zone such as -08:30 adds its
minutes the wrong way. JUSTIFY_HOURS with an hour of negative minutes carries the hours instead. An interval of
months leads from the end of a month into the one after. DATETIME_TRUNC to a week keeps the time.

## Fairness

Only `driver_live` assumes fairness: weak fairness of `Step(c)`, since a call runs on a goroutine of the client
and each of its steps is enabled until it is taken, no step waits for another connection; and of
`CloseRows(c)`, since `database/sql` asks clients to close their rows and temporary objects wait for
that. Beginning a call is not fair. No fault is fair, and the run has none: after a fault in a
Cleanup a temporary object does stay.

## Proofs

`Catalog_proofs` (from the assumptions of `Catalog`: `NoShadowing`, `FullKeyRegistered`,
`NamesTellPaths`, which hold when table paths have the same depth and underscores do not make two paths
one name, and `MissingFunctionsType`): `TypeCorrect`, `AlwaysConsistent`, `NeverRedirected`, `RefinesDictionary`,
`RebuiltAsCode`. The inductive invariant is type correctness and consistency of both registries together: the key step
is that `Rebuild` of a list with distinct names equals adding its specs one by one, so that a DROP keeps the
first claimant of every key that stays. `RebuiltAsCode` is that equality for the folds that the code's loops are: no
prefix of the list is the first on which the two differ. What is true of registries alone is in `CatalogOps_proofs`.

`Driver_proofs` and `DriverCalls_proofs` are about calls of connections, for any statements, scripts and bounds, from
the assumptions of `Driver`: statements and scripts are well formed, and a name is one of a function or of a table
or view, not of both. Each theorem has the hypotheses without which the code does not have the property:

| Theorem | States | Connections | When | And |
|---|---|---|---|---|
| `TypeCorrect` | `TypeOK` | any | always | |
| `RowsFollowCatalog` | `RowsMatchCatalog` | any | no fault | `TempNamesApart`, `NoMissingFunctionCreated` |
| `RowsArePermanent` | the rows are the permanent objects, at every moment | any | no fault, no restart | the same |
| `NothingTemporaryStays` | `TempObjectsGone` | one, or any without permanent views | no fault, no restart | `ExecOnly`, `TempKindsAgree` |
| `RowsBetweenCalls` | the rows are the permanent objects, between calls | the same | no fault, no restart | the same, `NoMissingFunctionCreated` |
| `AgreementBetweenCalls` | `QuiescentAgreement` | one | no fault, no restart | `ExecOnly`, `TempKindsAgree`, `NoMissingFunctionCreated` |
| `TornTables` | `TornTablesBounded` | one | always | `NoTemporaries` |
| `ReportsAreNetEffects` | `ChangesReported` | one | no fault, no restart | `NoMissingFunctionCreated` |

- `NoMissingFunctionCreated`: a script that creates a function which go-zetasql lacks gives it a row, although every
  catalog has it without one.
- `TempNamesApart`: a rebuild of the catalog may bring back an older spec of a name, a temporary one for a permanent one.
- `TempKindsAgree`: CREATE TEMP TABLE IF NOT EXISTS over a view makes nothing in SQLite, and its Cleanup, a DROP
  TABLE of that view, fails: the spec stays.
- One connection, or no permanent views: a DROP that another connection overtook puts nil into the list of deleted tables, and the
  Cleanup of a view that the same script created panics on it and keeps the other Cleanups from theirs.
- One connection for the rest: two that race on one name tear it without any fault, and what one changes the
  other does not report. `ExecOnly`: a failing query is not cleaned up (`driver_leak`).
- `NoTemporaries`: temporary objects are in SQLite and have no rows.
- No fault, no restart: a row that cannot be written leaves its spec in memory and unreported, and a Sync after a restart loads
  objects no call has made.

The arguments. `IInv` of `Driver_proofs` is the types with the soundness of both registries; Sync, which loads rows in
any order, preserves it since no prefix of that order is the first that does not. `RowsAgree` is `RowsMatchCatalog` with
the addition that only a restart makes rows unknown to memory, and the specs that a rebuild may bring back are all temporary
or all permanent. `CleanupInv` accounts for everything: a temporary spec, in a list or a map, is one of those that the
actions of a call still have to clean up (`Pending`), any other has its row, and a temporary object in SQLite is one
that is still to be dropped; `TablesAgree` says that memory and SQLite differ in the table of the statement alone, between
its two halves. `TornInv` counts the tables torn but for the half-done one, and needs that a table with a row is known
after the Sync of a call: else a DROP would take it from SQLite and end for want of a spec. `ReportInv` is the net effect in every state of a call
and not only at its end, with the functions a call knows being those of the catalog, and the spec a
DROP has read that of its table. TLC checked `RowsAgree`, `CleanupInv`, `TornInv` and `ReportInv` on instances of `MCDriver` first.

`CatalogSync_proofs` (from `ConstantsType`): `SyncTypeCorrect`, `UnknownRowsHaveReason`,
`LateOnlyIfOvertaken`, for any number of connections, catalogs, names and times. `UnknownRowsExplained` is not
inductive: a transaction commits rows its catalog must already know. `IInv` adds that a transaction
that has not written sees the committed rows (`Snapshots`), that at most one has written
(`OneWriter`), that what only a transaction sees is known to its catalog (`OwnRowsKnown`), and that the name being
saved is known (`SavedNameKnown`). `LateMeansOvertaken` needs that no time in memory is in the future of a
clock that was never set back (`TimesInOrder`). TLC checked `IInv` and `TimesInOrder` on the
instance of `catalogsync` first.

`NamePath_proofs` (from `ConstantsType`): `NamePathType`, `NamesCompletedOnce`, `NamesWithinLimit`,
`SpellingsAreOne`, for every set of identifiers and every bound. They rest on `TakenExists`, that the
loop of `mergePath` has an end, and on `NothingTaken`, that a name starting like the name path is
complete; `FlattenType` is by a least counterexample.

`Statements_proofs`, of `Merge` (from `MergeInputsType`, that connections are numbered from 1 and have lists of clauses):
`MergedTableAlwaysOwned`, for any number of connections, clauses and faults. `MergeIInv` adds
to it the types and that the owner of the table is one of the connections (`OwnerKnown`): the owner 0 of the missing
table is none, so a connection that is inside has its table, and while one has, no other can create its own.

Of `Arguments` (from `ArgumentInputsType`, that a walk meets every parameter and that the parameters of one name have one
type): `ArgumentsAlwaysReach`, for scripts and arguments of any number. `Once`, which keeps the first parameter of
every name, is a fold; `FirstsOf` says what it has kept after any number of steps, and holds after all of them
since no step is the first after which it does not. So the parameters in the order of the text, which SQLite binds, and those in
the order of the walk, to which the code gives arguments, have the same names, each once (`SlotsFound`). `ArgumentsIInv` says which
arguments are left to the next statement: those after as many as the CREATE TABLEs before it have question marks
(`Told`, `RestIs`). Where no statement displaces another these are all question marks before it (`PlaceTold`), or there are none
(`NothingTold`), which makes the arguments that are left those that are meant. TLC checked it on the arguments of
`statements` first.

`Aggregation_proofs` (from `InputsType`, that partitions are sequences, and `PartitionsType`, that those with a frame of the
unit RANGE are sorted by one key), for partitions of any length and frames of any kind:

- `StatusHoldsFrame` is `FrameKept`, as long as Go compares the values by value (`ComparedByValue`): of a
  NUMERIC, a pointer that is made anew by every decoding, `Inverse` finds none. `FrameIInv` adds that no more rows have left
  than entered. The key is that `Inverse`, which takes away the first equal value, takes that of the row that leaves: it
  is the first value of the status because rows leave in the order in which they entered. For COUNT, which skips NULLs, this
  needs what the loop over the values keeps of a sequence that is extended behind or shortened in front
  (`NonNullAppend`, `NonNullHead`).
- `RowsInsideAreFrame`: the rows inside are the frame of the row asked for (`InsideIsFrame`), with any constructor and any
  values. `ReachedIInv` says that what has entered is within the end of that frame and what has left is before
  its start. This survives the move to the next row because no row is further from it (`DistanceFalls`),
  which in a frame of the unit RANGE is the order of the partition.
- `FrameAnswers` puts both together: the results of COUNT, FIRST_VALUE, LAST_VALUE and NTH_VALUE in terms of the frame alone, without DISTINCT and
  IGNORE NULLS, for values of any type that Go compares by value. TLC checked `InsideIsFrame` and `AnswersMean` on the instance of
  `statements` first.
- `FramesMean` is `FrameResults`, if the values of windows are INT64 or NULL and COUNT( * ) has no DISTINCT
  (`IntegerWindows`, which the instance of `statements` satisfies). The invariant is that of `FrameAnswers`; the work is in what
  `RelevantValues` makes of the values of the frame. `FrameVals` says that these are the values of the rows that count, by
  position, and that what is then left without NULL is what counts with NULLs dropped first; it holds of a frame with one row more
  (`FrameValsMore`), so of every frame that starts with the same row. `FoldedAppend` gives the loops of COUNTIF, MAX, MIN and
  DISTINCT step by step, and `FoldsMeanAll` what they come to.
- `GroupsMean` is `GroupResults` (from `GroupsType` also: the values of a group are INT64 or NULL, and an option of a call is given
  or not). What a function keeps is not its result, so `GroupIInv` says for each what it keeps, as a
  function of the values of the rows that count so far: a list, a sum, a sum with a count, NULL until something counts, the
  neutral value of LOGICAL_AND or BIT_AND, the bits of BIT_OR as long as no partial result was the start value, which the code
  takes for "no value yet" (`AccHolds`). Which rows count is said by position, with DISTINCT the first of each value
  (`CountedRows`); that this is what a set of values seen so far makes of them is `CountedMore`. The options
  reach the function among the arguments of each row: wherever they stand there, parsing finds the same value and the same
  options (`ArgsParsed`, `ArgumentsOf`). `SumOf` and `ParseAggregateOptions` are folds, which `TableExists` turns into a table of
  their steps, by a least counterexample; `TotalIs` shows that the sum agrees with the one that `GroupMeaning` names.

Only model-checked: the liveness properties `TempEventuallyGone` and `CallsEnd` (fairness and ENABLED are
beyond the prover), and everything in `statements` but `FrameKept`, `FrameResults`, `GroupResults`, `MergedTableOwned` and
`ArgumentsReach`. Most of its modules
compute with folds over rows, characters and digits. The theorems of the library for induction over data take an
operator as a parameter, which the provers cannot instantiate; where a fold matters most (`RebuildAsCode`, the rows that Sync loads, the values
`NonNull` keeps, the parameters `Once` keeps, sums and options) the proofs go by a least counterexample of their own instead.

## Plan

Done: the catalog, its synchronisation and the name path, with their proofs; the driver, parameters, MERGE,
window and aggregate functions, values, scalar functions and the calendar; for the driver, the parameters, MERGE, the frames of
windows, the results on them and those of groups their proofs too.

1. Proofs: the laws of the orders on each kind of value (`OrdersTotal`), and
   `WindowResults`: the ranks, whose status counts calls, and the functions that sort.
2. `Prepared`: the tables that PrepareContext drops, the driver registry, transactions of a connection and failing commits,
   composed with `Driver`; `:memory:` as an instance with one database per connection.
3. `Scopes`: the column scopes of query lowering; flattening in the SQL builder.
4. Wildcard tables: which tables a wildcard matches and which columns they share.
5. Formats: FORMAT and PARSE with a format string, as lists of elements that are written and read back.

## Not modelled

ZetaSQL's parser and analyzer, SQLite's execution of queries, and the JavaScript engine are
libraries. JSON paths, formats of dates, zones by name, and the text of generated SQL are
conversions without state of their own. Functions that only call a library (logarithms and trigonometry, hashes,
encodings, addresses, regular expressions other than a literal text) answer an opaque value: what is
checked of them is NULL and the number of arguments. NaN and the infinities, HLL_COUNT and APPROX_TOP_SUM, the
condition of a MERGE other than the equality of two columns, and the literals of the analyzer are left out.

Modelled as external, from the way the code uses them: the order in which SQLite calls Step, Inverse and Done;
what SQLite binds to a parameter, in the order of the text; Go's `time`, `strings` and `strconv`; the text of
an interval in the BigQuery client library. Data races on Go maps and slices (lookups without `c.mu`)
are not modelled: where the code reads without the lock, the read is a step of its own and sees one
of the states of the catalog.
