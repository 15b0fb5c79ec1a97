# Verification of the OPC UA control system adapter

TLA+ models, model-checking runs and machine-checked proofs for the ChimeraTK
OPC UA adapter: a library that shows the process variables of an application as
nodes of an OPC UA server, historizes some of them in an InfluxDB, and is
started and stopped by a program it also provides; and for the two Python tools
beside it, the editor of its mapping files and the compiler of its namespace.  Paths
are relative to the root of the repository.

Contents: [the system](#the-system), [the modules](#the-modules-and-the-code),
[the runs](#the-runs), [fairness](#fairness), [the proofs](#the-proofs),
[findings](#findings), [what is not modelled](#what-is-not-modelled-and-why),
[plan](#plan).

`PROJECT.json` names, for every definition that models code, the lines it
stands for; for every property a plausible bug that breaks it; and for every
hazard of the code the properties that watch over it.

## The system

| component | state | operations | interacts with |
|---|---|---|---|
| **Influx client** (`src/history_backend/InfluxClient.cpp`) | write queue, stop flag, counters, `errorCode_`, `fundamentalErrorOccurred_`, last async error | `writePoint`, the worker thread `writeWorkerLoop` (`attemptSendBatch`, `sendWritePayload`, `sendRequest`), history reads, destructor | database (HTTP), server thread (callers), health callback |
| **Health monitoring** (`InfluxHealthMonitoring.cpp`, `addHealthMonitoringNodes`) | health nodes, `healthNodesAdded_` | repeated callback `updateInfluxHealth`, removal | server thread, client's atomics |
| **History backend** (`InfluxHistoryBackend.cpp`) | per-node context, continuation points | `serverSetHistoryDataInflux`, `getHistoryDataInflux` | open62541's history gathering, Influx client |
| **Configuration loader** (`ConfigLoader.cpp`) | – | parsing and clamping of the Influx settings | Influx client |
| **Adapter lifecycle** (`csa_opcua_adapter.cpp`) | the two threads, `workerFinished` | `start`, `stop`, destructor | worker thread, observer thread, main |
| **Server worker thread** (`ua_adapter.cpp`, `workerThread`) | `running`, the server's state | set-up of history and health, start-up, loop, discovery registration, shutdown | everything the server calls |
| **Void events** (`void_type.cpp`) | the observer's data, the event type | `updateLoop`, `fireVoidEvent`, `add_void_event_type` | application (updates), server |
| **Main** (`csa_opcua_application.cpp`) | `terminateMain`, signal mask | set-up, start, sleep, stop, destruction | adapter, signals |
| **Historizing setup** (`node_historizing.cpp`, `readConfig`) | lists of nodes and of their setups | collect, deduplicate, filter, register, clear | mapping configuration, gathering |
| **Mapping and folders** (`ua_adapter.cpp`, constructor in `csa_opcua_adapter.cpp`) | mapped variables, folder vector, excluded and unused names, history ids | implicit and explicit mapping, folder enrolment | PV manager, server, historizing setup |
| **Process variables** (`csa_processvariable.cpp`, `.h`) | nodes of one variable | get, set, time stamps, Void handling | server thread, application |
| additional variables, XML handler, type tables, generated namespace | – | stateless or created once | mapping |
| **Mapfile generator** (`tools/mapfileGenerator`) | the window: rows, combo boxes, fields; the generator: what is set on each item, settings, configuration | mark, historize, rename, move, describe, configure; open, load, save | the user, map files, and through them the mapping |
| **Namespace compiler** (`tools/pyUANamespace`) | documents, the graph of nodes, unprinted nodes and references | preprocess, link, blacklist, sanitize, encode data types, order, print | nodeset files, the C compiler |

What is hard, and what makes each part correct:

* **Influx client.**  Writers, worker, readers and destructor race; a batch that
  fails is put back in front of what was accepted meanwhile; a request without
  an answer may have been stored; one flag ends the worker and is raised by two
  threads.  Correct means: bounded, in order, nothing lost or counted twice, the
  destructor returns, and an error never locks the writers out for ever.
* **Health monitoring.**  It reads the client's atomics one by one while the
  worker writes them, and stops itself.  Correct means: what it shows last is
  the truth.
* **History backend.**  A continuation point is only an offset into an answer
  that every page asks for anew while points arrive.  Correct means: no point
  is missed, a repeated one is due to a new one.
* **Lifecycle, worker thread, void events, main.**  Four threads of control and
  two signals share a server and three flags.  Correct means: the server outlives
  whoever uses it, and every stop stops.
* **Historizing setup.**  Two vectors are kept parallel by hand while elements
  are erased by index, in passes that repeat.  Correct means: each node has the
  setup the mapping file gives it first, and the passes end.
* **Mapping.**  Entries are carried out one by one on a server that the entries
  before have changed, after the constructor decided what the application need
  not send.  Correct means: nothing shown is stale, ids keep their meaning, no
  entry fails in silence.
* **Mapfile generator.**  What the user set is kept twice, in the rows of the window
  and on the items of the generator, and signals of Qt widgets carry changes from one
  to the other; a file is read into a generator that was edited before.  Correct
  means: what is saved is what is shown, what is read is what was saved.
* **Namespace compiler.**  Sequential, but every stage rests on the order the stage
  before left: documents are renumbered in place, data types that contain each other
  are walked recursively, nodes are printed while shared lists shrink.  Correct means:
  references keep their meaning, nodes come once and before what refers to them.

## The modules and the code

### InfluxClient, and WriteBuffer above it

`InfluxClient` models the batching client.  A step of a thread is the code
between two places where another thread can see or change what it uses: a
critical section of `writeQueueMutex_`, an access to an atomic, an HTTP request.

| module | code |
|---|---|
| `CallWritePoint`, `TestFailFast`, `EnqueueOrDrop` | `serverSetHistoryDataInflux`, then `writePoint`: the fail-fast test and the push are two critical sections |
| `worker = "test" .. "linger"` | the loop's head, the two waits of the condition variable, the pop of a batch |
| `PostAccepted`, `PostRefused`, `PostLost`, `PostNotSent` | the outcomes of a request in `sendRequest`: 2xx, another status, no answer (stored or not), no handle |
| `classify`, `failed`, `written`, `clear` ... | `sendWritePayload`'s classification, `attemptSendBatch`'s retries, what the loop does with the result |
| `countFailure`, `setError`, `requeue`, `drop` | the failed batch: counters, last error, back to the front of the queue or dropped |
| `ReadFails` | a history read that ends in a transport failure: it raises the same flag |
| `StopWorker`, `JoinWorker` | the destructor |

Points are numbered in the order of acceptance, which is all the properties
need; line protocol and texts of errors are not modelled.  Durations are
abstracted: a wait may end at any time.

`WriteBuffer` is what a user of the history backend is promised, without queue,
worker, retries or locks: accepted points leave in order, a run at a time, and
only when all of the run is stored or given up.  `ImplementsBuffer` states that
the client implements it, with

    Capacity <- maxBatchPoints + maxQueuePoints
    settled  <- accepted - Len(batch) - Len(writeQueue)

and `accepted`, `db` and `discarded` as themselves.

### InfluxHealth

Extends `InfluxClient` by the repeated callback, whose loads of the statistics
are single steps (`BeginUpdate`, `LoadErrorCode`, `LoadFundamentalError`,
`WriteNodes`, ...), and by the fact that the server's one thread makes the
writes, the reads and the callback (`ServerIdle`).  The statistics
`queuedPointsDropped` and `batchesWritten`, which go the same way as the others, are
left out.

### AdapterLifecycle and OpcUaApplication

`AdapterLifecycle` has the owner (`start`, `stop`, destructor, in any order), the
adapter thread (`workerThread` step by step, with history, health and discovery
as the set-up says) and the detached void observer, whose `fireVoidEvent` may throw:
`updateLoop` catches only interruptions, so `FireVoidEventThrows` ends the program
(`Terminated`) wherever its other threads are.  `OpcUaApplication` extends it
by `main` and the two signals: each action of main that calls the adapter is the
conjunction of main's step and the owner's.

### HistoryPaging

One variable, its clock, the queue and the database, and a client that reads its
history.  A poll stores one point (`NewPoint`), of an array for its element 0, as
`variantToStrings` returns in the first turn of its loop.  A variable is stored under one
series of tags (`series`); what the database has from earlier runs may be under others,
as the unit and the name are tags.  `QueryRange` is the interval
`getHistoryDataInflux` computes from start, end and their being open, `Records`
the answer of the database: each point at the place that the number of points ahead
of it (`Ahead`: series by series, as the query asks for no order, each in the order of time or, for a reverse read,
against it) gives it.  `PageSize`, `HasMore`, `NextOffset` the paging.  The
queue is `InfluxClient`'s, reduced to what `WriteBuffer` promises plus drops.
`NothingMissed` relates all pages to the answer of the first query.

### HistorizingSetup

`ReadSetup` is `readConfig`'s treatment of one `<setup>`; the phase `collect` puts the
entries for variables and then what is below each folder in the two vectors;
`CheckNode`/`CheckAgain`, `RemoveNode`, `RegisterNode`, `ClearHistory` are the
functions of `node_historizing.cpp`, one step per turn of a loop, with the loop
index and the `repeat` flag as variables, because erasing by index is what can go
wrong.  The gathering of open62541 is external.  `FoldersNest` assumes that no folder
is below itself: the walk of the code would not end, as its copy of a folder does not
(the hazard at `ua_adapter.cpp:959`).

### VariableMapping

`MapImplicit` is the constructor's loop over all process variables (in any
order: the code takes them from a set), `MapFolder`, `MapVariable` and `AddVariable`
are the loops of `applyMapping`, one step per entry with every call it makes.
Names and ids are paths; the suffix of an id is the class of its node.
`CopyFolder` is the recursive copy, as the set of nodes and references it
adds; a copy that reaches itself is the phase `endless`.  Links are made to what one
browse returns (`Browsed`): at most `MaxReferences`, 1000 in the code, whichever these are,
of the subfolders and again of the nodes in the folder; the walk of the copy has no limit.  `refused` notes the
entries for which an error was raised.

### MapFile and MapFileEditor

`MapFile` has the generator (`generatorClass.py`) as a record of items, configuration
and settings, and the two conversions as operators: `MapFileOf` is what
`generateMapEntries` and `createConfig` write, `ParseMapFile` what `parseMapFile` makes
of it in a generator that may have been edited.  `MapFileEditor` is the window
(`generatorForm.py`): an action is a user's action with all the signals it sets off,
so choosing a history on a folder (`SetHistory`) runs through all rows below as
`setCurrentText` does.  `top` is the row `itemAt(0,0)` names, where three functions
begin: scrolling changes what they reach.  What a file means is said by
`ServedHistory` and `Excluded`, which follow the server's reading of the entries.

### NamespacePreprocessor, NamespaceGraph, DataTypeEncoding, NamespaceCompiler

Four modules, each extending the one before by a stage of
`generate_open62541CCode.py`, which is one sequential program: `Next` has one
enabled stage at a time, and a stage that raises ends in the phase `failed`.

| module | code |
|---|---|
| `NamespacePreprocessor` | `open62541_XMLPreprocessor.py`: `AssignUniqueNsIds`, `LinkDependantModels` (one document per step), `MatchStochastically` |
| `NamespaceGraph` | `parseXML`, the blacklist, `linkOpenPointers`, `sanitize` |
| `DataTypeEncoding` | `buildEncodingRules`; the recursion of `buildEncoding` on a stack of frames |
| `NamespaceCompiler` | `reorderNodesMinDependencies`, `getSubTypesOf`, `printOpen62541Header`, `printOpen62541CCode` with the two forms of creating a node |

An id is a pair of namespace and number, a reference a record of source, type, target
and direction.  `created` and `linked` are the generated code: the nodes in order,
with their parents, and each reference with how many nodes exist before it.

## The runs

All runs take every interleaving and every input in their bounds.  A passing run
finishes; a "violation" run ends in the trace that a finding describes.

| run | what it asks | bounds, and why they are enough |
|---|---|---|
| `ClientSafety` | points accounted, at most one late batch, drained at the end, implements `WriteBuffer` (bounded, in order, none lost) | batch 2, queue 3: a queue smaller than two batches, so a returned batch can collide with new points; one retry; 401 (fundamental) and 503 (not); 5 points and 3 failures: two batches can fail and a third succeed |
| `ClientLiveness` | the async error is cleared, the join returns, points settle | two writers, fail-fast, queue = batch = 2, 4 calls, 3 failures: enough to fill the queue while a batch is out and to fail a batch completely (2 attempts) and once more |
| `ClientFailedBatches` (violation) | README: a batch whose retries failed is requeued and the worker flushes what is queued, or it is dropped and counted | one writer, 3 points, batch = queue = 2, one retry, 2 failures, no failing reads: only the batch's own requests can raise the error |
| `HealthNodes` | nodes catch up; a fundamental error arrives although the updates end themselves | 2 points, 2 failures |
| `LifecycleOrders` | server outlives worker, callback ends with the loop, one late event, a stop in the loop returns | all 8 set-ups, 2 starts (the second meets what the first left behind), 2 pending updates (one read while waiting, one after) |
| `ApplicationSignals` | signals reach main's stop | main starts once; one delivered signal, and one pending |
| `ApplicationStop` (violation) | the comment quoted under findings | as above |
| `HistoryPages` | nothing missed, repeats explained, a read forwards of one series exact | two series, either the present one, with or without points of an earlier run; pages of two values, or one by the client's own limit; queue 2, times to 4, requests that begin or end at 1, at 4, or are open, in both directions |
| `HistorizingNodes` | first setting wins, shown = polled, it ends | lists of up to 2 entries each over 2 variables and 2 nested folders, so a node can be reached up to 6 times; undefined, incomplete and redefined setups; 2 setup names tell neighbours apart |
| `MappingFiles` | all nodes browsable, nothing stale, named variables present, ids stable, folders whole, failures reported, histories reach their node | about 19000 files: one exclude against all needs; two folder entries and two variable entries of all shapes, so that the second meets what the first made; a third where only three entries show something; 6 variables with a method, an event and names that begin alike; a browse returns one reference, so that folders within and beyond the limit occur |
| `MapFileEditor` | shown = served, histories defined, exclusions, saved = loaded, a load forgets | a variable in the root, a folder with one, a folder in it with one: the least tree with a way of three; sessions of 5 to 7 actions out of seven mixes of kinds (marks and files, histories alone and with files, places, configuration, all a little); 3 settings, one of them with a name typed |
| `NamespaceCompiler` | meaning kept, encodability solved, nodes once, ends before references, none lost; the compiler ends | some 3300 command lines in four families: every choice of references among three nodes and a method with arguments; three data types in every form over each other; three models that number each other in every way; odd documents (bootstrapped namespace 0, blacklists, doubles, missing aliases, missing URIs, reference types of one's own); that it ends is a question for data types that contain themselves and for models that rewrite each other's numbers: order and printing are loops over lists that do not grow |

`ClientSafety` and `HealthNodes` have different constants because the health
module multiplies the states.  `MappingFiles` stops when the file is worked off,
`MapFileEditor` when the session is over, `NamespaceCompiler` when the compiler
ends: their configurations switch the deadlock check off.  Everywhere else the check is on, and the
ends the code has (destroyed client, exited program, cleared history) are
stuttering actions of their own.

Bounds in guards: `MaxCalls` (calls of `writePoint`), `MaxFaults` (failing
requests before the destructor runs), `MaxStarts`, `MaxUpdates` (unread updates
of Voids), `MaxTime` (the clock), `Sessions` (the user's actions of each kind),
`MaxSettings` (history settings ever made), one delivery of the signal handler.  The theorems
hold for all their values.

## Fairness

Every liveness property is checked under weak fairness of threads only:

* `InfluxClient`: the worker, a writer inside of its call, the join.  No fairness
  on calls, reads or the destructor's beginning.  The database is not fair either;
  requests fail at most `MaxFaults` times until the destructor runs, which is the
  assumption "the database comes back" (after it they may fail for ever, and
  `JoinTerminates` still holds).
* `InfluxHealth`: worker and server thread (the server iterates until it is stopped,
  and its timer fires repeatedly).
* `AdapterLifecycle`, `OpcUaApplication`: adapter thread, observer, main, and a call
  of the owner that has begun.  Neither a call, an update nor a signal must happen, and
  an exception that ends the program excuses all of them.
* `HistorizingSetup`, `NamespaceCompiler`: one thread that waits for nothing.
* `HistoryPaging`, `VariableMapping` and `MapFileEditor` have no liveness properties and no fairness.

## The proofs

TLAPS proves the following for every value of the constants.

**InfluxClientProofs** from `ConfigAssumption` (sizes are positive, as
`parseWriteBatching` guarantees) and `BoundsAssumption`: `TypeCorrect`,
`QueueStaysBounded`, `AccountsForEveryPoint`, `NothingIsLost`, `PointsStayInOrder`,
`LateBatchOnce`, `WorkerDrains`, `FailFastAlwaysRecoverable`, and the refinement
`ClientImplementsBuffer`.  The inductive invariant is the conjunction of these and of the
strengthenings at the end of `InfluxClient`.  Its core is
`InsideIsConsecutive`: batch and queue together are the consecutive numbers after
the settled ones.  Order alone is not inductive – that a stored batch leaves no gap
needs to know what the batch is – and it makes giving a batch back at the front
the identity on what is inside.  `SettledIsStored` says that what is gone is stored
or given up; `WorkerHoldsBatch` at which places the worker holds points;
`LateBatchPending` that a worker that has not yet passed the flag has taken none
late; `DropsBesideQueue` that a batch is dropped only beside a non-empty queue,
which is why fail-fast can recover; `WritersGone` that none is in a call once the
destructor runs, which the callers (one server thread, joined before) guarantee.
The refinement maps each action to `Accept`, `Store`, `Confirm`, `Discard` or a
stutter.  `HealthImplementsClient` shows that `InfluxHealth` refines the client (an
update's loads leave the client alone, and the server's thread makes its calls), so all
of this holds under health monitoring too.  `UpdatesAlwaysEndReported` is about the
updates themselves: the callback removes itself by what it loaded, and shows the flag as
it is later.  Its invariant says that once loaded the flag stays raised, and that what a
refresh has loaded is no more than what it shows.

**AdapterLifecycleProofs** from `LifecycleAssumption`: `LifecycleTypeCorrect`,
`ServerAlwaysOutlivesWorker`, `CallbackAlwaysEndsWithLoop`, `LateEventOnce`, by
`LifecycleIInv`: past the join the owner has no thread, there is at most one
observer (the event type that is never removed sees to it), and it takes up
nothing late before it has read with the flag set.  `ApplicationImplementsLifecycle`
shows that `OpcUaApplication` refines `AdapterLifecycle` (every step of the program is a
step of the adapter or leaves it alone), so all of this holds for the program;
`ApplicationInvariant` adds where the adapter is at each call of main and that no
signal is forgotten, and `ProgramExitsClean` follows: at the exit the server is
deleted, no adapter thread runs and no callback is left.

**VariableMappingProofs** from `MappingAssumption`, for any process variables and
any mapping file: `MappingInvariant`, `UnusedStaysUnmapped`,
`KnownVariablesStayMapped`, `IdsAlwaysKeepTheirSource`.  The invariant `MappingIInv`
says that the constructor decided each variable one way – mapped at its own place,
or unused and then needed by no entry – and that a reference leads to a variable
that exists.  All later entries only let nodes and references grow (`Grows`, one
lemma per action), which keeps it; this is why the early decision of the
constructor is sound.  `EntriesAlwaysSettled` says that an entry that was worked off
raised an error or made what it names and that nothing takes it back;
`AlwaysMappedOrReported` and `HistoryAlwaysReachesNode` follow.
`NodesAlwaysBrowsable` has an invariant of its own, `Browsable`: besides the property,
paths of nodes are not empty and references are finitely many.  The folders on a way
hang in each other (`WayIsBrowsable`), and every copy of the recursive copy hangs in
another copy or is the new folder (`CopiesHang`), which hangs where its path says.

`WholeFolderAlwaysVisible` needs a third one, `FoldersIInv`: with a folder all folders on
its way are there; while folders are mapped, each node of a variable is in a folder that
is there, and no folder shows two variables under one name.  From the first two, nothing
of a copy was there before its entry, so every copied variable becomes a node of its own
(`CopyFolderMakes`); from the third, it stands for its original and for no other.  The
property alone has none of this and is not inductive.  That is claimed of sources without twins and, where they are
linked, with no more than `MaxReferences` references of a kind (`LinksReachAll`); of a
larger folder a part is linked and nothing is claimed.  Two facts on the walks complete
it.  The model ends both walks after as many steps as there are folders with contents; a
walk that still found something would have gone through more (`BelowIsClosed`,
`CopiesAreClosed`, which also uses that the copy is not endless).  And the new folders on
the way to the copy change nothing below the source, or the walk would come to the copy
(`SourceStaysApart`).  Then each folder is simulated by its copy, or by itself where it is
linked (`ShownElsewhere`), for any number of steps and not only the three of the
property (`LinkShowsAll`, `CopyShowsAll`).

**HistorizingSetupProofs** from `HistorizingAssumption` and `FoldersNest`:
`HistorizingInvariant`, `HistorizedAlwaysPolled`, `FirstSettingAlwaysUsed`.  While
the vectors are collected every node reached so far is mentioned, and its first mention
has its first setting; erasing a later mention keeps both; after the passes
each node is there once, and gone only if its setup is not defined.

**HistoryPagingProofs** from `PagingAssumption`: `PagingInvariant`, `NothingIsMissed`,
`RepeatsAreAlwaysNew`, `ForwardReadIsAlwaysExact`, for any number of series.  The invariant says what the offset
in the continuation point stands for while the answer grows: every point of the first
answer that is among the first so many records of the present answer has been
returned.  A new point only pushes others back (`PlacesGrow`), which keeps it.
The last theorem is about one series and points in the order of time: with more of
either the code may return a point twice, which is what `RepeatsAreAlwaysNew` bounds.

**MapFileEditorProofs** from `TreeAssumption` (every item is in a folder; none in the
root folder is named "/root", as names hold no slash), `NoneAssumption`, `InputsAssumption` and
`TextsAssumption`, for any tree, any texts and sessions of any length: `EditorInvariant`,
`HistoryAlwaysServedAsShown`, `SavedHistoriesAlwaysDefined`,
`ExclusionsAlwaysSavedAsShown`, `SavedAlwaysLoaded`, `LoadAlwaysForgetsEdits`.  The
invariant `EditorIInv` has one part for each way the window and the generator may fall
apart.  `Defined`: what an item, a row or the saved file refers to is a setting beside
it; the file is part of it, as a load brings its histories in.  `OffersNest`: a row offers what the
row above offers; without it a folder's choice might stop half way down (`TakesBelow`).
`ChecksShown` and `Shown`: the boxes and combo boxes show what is set, and below a row
with a history all rows have it and are switched off.  `Shown` rests on the other two
and, for a load, on the first folder from the root (`LeaderOfChild`, `LoadHandsDown`).  From it `HistoryFollows` finds the
entry that serves a variable: that of the top folder with a history, the only one that
is written on the way.  `ExclusionsAlwaysSavedAsShown` has two halves, both for every
session: nothing is left out that is not checked, itself or by a folder above; and what
is checked itself is left out, unless the root is checked or a folder above bears the
"no" of a mark taken back.  `SavedAlwaysLoaded` does without the invariant's last parts: it takes
any typed generator with a complete configuration, says by `ReadAgain` what file comes back
(the saved one, without what is said of the root and of variables in it, with nested folders
renamed in place moved to the root, and without a description of a server that has no root
folder), and follows each item (`FolderComesBack`, `PvComesBack`) and the
configuration (`ConfigRestored`) through writing, reading and writing; that the source of
an entry is one item's only (`SourcesDiffer`) is what the items' paths give.

**SequenceLemmas** has what these share.  No prover instantiates the library's
induction theorems, which take an operator; `Induction` is stated for sets of
numbers instead, from the existence of a least element.  With it
`RecursionExists` gives recursive functions, and so facts about `FlattenSeq` and the walk
of the copy for every input.

**NamespaceCompilerProofs**, first without any assumption on the documents:
`CompilerInvariant` and `NodesAlwaysOnce`.  `CompilerIInv` says that what is in the order
of nodes is ignored, created, taken along by a method or still to be printed, and that
what the loop has passed is not still to be printed.  The first part alone does not
give the property: a node that is printed only when its turn comes might never
be.  The stages before printing create nothing (one lemma each); printing a node
(`CreatesOnlyIt`, `PrintNodeKeeps`) adds one creation and takes that node and its
arguments off, whether it succeeds or raises.

Then from `InputsAssumption` (what kinds of things the XML parser hands over) and
`NoneAssumption`: `EncodingInvariant` and `EncodableAlwaysConverges`.  `EncodingIInv` follows the
documents' and the graph's form to the encoding (one lemma per stage: `AssignedDocs`,
`LinkedDocs`, `ParsedGraph`, `BlacklistedGraph`, `LinkedGraph`, `SanitizedGraph`), and
there makes three claims of the calls of `buildEncoding` under way.  They are a chain of types,
each used by the one before; so a type met again while it is under way contains
itself (`ChainCycle`), and only for such a type is the early answer used.  Each call
knows of what it has followed that it can be encoded (`FrameClaim`).  And the answer for
a type that is not under way rests on types that are not either (`Answered`), which is why
a later answer takes nothing back.  The property alone is not inductive: it says
nothing before the end, when all answers are there because every node was visited.

Last, from the same assumptions and the two invariants before: `LinkInvariant` and
`ReferencesAlwaysHaveEnds`.  `LinkIInv` follows the references.  `linkOpenPointers`
leaves every reference with the node it is of, and for one that is not forward one back
(`AddForwardForm`, `LinkedGraph`); `sanitize` drops what has no node (`SanitizedRefs`).
So a node's first parent is a node and has a reference to it (`ParentForm`).  The new
order has as many nodes as the old and none twice, so it has all (`ReorderedAll`): what
is a reference's end is printed at some time.  While nodes are printed the open references are
references of nodes that are not ignored, and the types of namespace 0 in use are left
to print, ignored or created.  `PrintNodeLinks` puts these together: an end that is
not left to print is ignored, created or a method's argument (`CompilerIInv`).  That
types come before other nodes needs that they are reference types, which is what
`TypesAreTypes` asks; with a reference whose type is an object, the object and its
references come before the types of these.

`TypeCorrect`, `QueueStaysBounded`, `NothingIsLost`, `PointsStayInOrder` and
`LifecycleTypeCorrect` state more than the runs ask: the queue's bound, the order and
that no point is lost are checked by TLC through `ImplementsBuffer`.
`UpdatesAlwaysEndReported` is proved only: it is the safety part of
`FundamentalErrorReported`, which `HealthNodes` checks.

Only model-checked: all liveness (the provers do not reach fairness); of the
application what needs fairness; and of the compiler `MeaningKept` and
`ReferencesArrive`.  `MeaningKept` is not true of all documents:
one with as many nodes in another namespace as in its own may count as one of the
other namespace once it is renumbered.  `ReferencesArrive` is about the multiplicities
of equal references.

## Findings

1. *A requeued batch is never flushed* (`ClientFailedBatches`, `RequeuedPointsFlushed`).
   `README.md:109-111`: "A background worker flushes points when: queued points reach
   `max_batch_points`, or `flush_interval_ms` expires"; `README.md:116-118`, if retries
   still fail: "the batch is requeued at the front when queue capacity allows, otherwise
   points are dropped and accounted in health counters".  In the run's trace a batch is
   posted, its requests get no answer, its retries are used up and it is put back
   (`InfluxClient.cpp:624`).  But a request without an answer has raised
   `fundamentalErrorOccurred_` (line 474), which ends the worker at its loop's condition:
   the points stay in the queue, never flushed, dropped nor counted.  The property asks
   only that points of a batch whose retries failed are stored, or dropped and counted,
   unless the client is destroyed; no history read takes part.
2. *A stop that is overwritten* (`ApplicationStop`).  `workerThread` sets `running`
   (`ua_adapter.cpp:807`) after a start-up that takes time; main unblocks SIGINT as
   soon as the thread is spawned, against the comment at
   `csa_opcua_application.cpp:57-58`.  A stop in between is lost and its join waits for ever.
Seen while modelling, in the models, without a run of their own:

* `getWriteStats` (`InfluxClient.cpp:509`) loads the status before the flag.  When the
  worker stores both in between, the last refresh shows `ErrorCode` 0 for a refused
  token, and the log advises to check address and port.
* The detached observer tests `workerFinished` before it waits in `readAny` and not after
  (`void_type.cpp:141`), against the comment at `csa_opcua_adapter.h:90`; main deletes the
  adapter while the application may still send updates, and `observer = "fire"` with
  `server = "deleted"` is reachable.
* `PointsDropped` also counts points that were never accepted (`InfluxClient.cpp:669`),
  which its description (`:708`) does not say; `EveryPointAccounted` subtracts them.
* The health callback removes itself at a fundamental error
  (`InfluxHealthMonitoring.cpp:73`): its other nodes freeze although the worker may
  finish a batch.
* `workerFinished` is never reset by a second start.
* A signal between the test of `terminateMain` and the sleep waits for the sleep to
  end (`csa_opcua_application.cpp:90`).
* "update existing pv" in `opcuaAdapter_mapping.xml:178-184` has no effect: the code
  (`ua_adapter.cpp:1329-1362`) browses an id without its suffix.
* "`/*`" excludes more, and "`*`" fewer variables than the template's comment says
  (`csa_opcua_adapter.cpp:61`); the tests against folders at lines 102 and 129 compare a
  name without with a name with a leading slash and are never true.
* An array stores its element 0 only: `variantToStrings` returns in the first turn of its
  loop (`InfluxHistoryBackend.cpp:195-205`), so the index tags of `README.md:47-48` are
  never written (the code for them, lines 291-304, is never reached).
* A variable whose unit or name tag changes is another series of the same answer; pages
  are then no longer in the order of time.
* `fireVoidEvent` throws a `logic_error` when the event or a field of it cannot be created
  (`void_type.cpp:30-105`); `updateLoop` catches interruptions only (`:145`), so this
  ends the whole program.
* A folder with more than 1000 subfolders, or 1000 nodes, is linked in part and without an
  error (`ua_adapter.cpp:1198`, `:1217`), against the comment at line 1084 ("map complete
  hierarchical structure").
* The test for a process variable of the same name as an additional one looks for an id
  that only a variable named `<name>Value` has (`ua_adapter.cpp:1582-1599`): such a one
  refuses the entry, one of the same name does not.
* The contents of the second of two equally named subfolders are lost in a copy;
  a folder copied into its own subtree is copied without end.
* The copy of a node that is itself a copy passes the test of the source and then
  throws in the manager, whatever `mappingExceptions` says.

Of the mapfile generator (left out of the properties where they would break them):

* Renaming a setting leaves the items with the old name (`generatorForm.py:127-136`).
* A folder checked and unchecked keeps its children's exclusions out of the file
  (`generatorClass.py:417-419`: "no" is not None); an unchecked variable below an
  excluded folder is excluded by the folder's entry.
* Entries of the root and of variables directly in it name sources that are not
  found again (`generatorClass.py:304`, `:451`).
* A nested folder renamed where it is, or moved to the folder it is in, is read as
  moved to the root (`:557-564`); a variable renamed and moved to the root is not
  moved in the file.
* A server description is only read when there is a root folder (`:203-206`).
* A setting whose name the combo box knows is not offered by the rows after a load
  (`generatorForm.py:672-676`); exclusions, histories, the discovery server, void
  handling and the unsecure endpoint survive a load.
* A new setting is added only to the rows below the first one on the screen.

Of the namespace compiler:

* Foreign namespaces are renumbered in place one after the other
  (`open62541_XMLPreprocessor.py:341-343`): a number just written may be the next to be
  rewritten, and two namespaces become one.  Ids compare equal whatever they are
  (`ua_node_types.py:228`, `toString` returns nothing).
* An unknown URI is "", which is also the URI of a namespace 0 without one; one past the
  list of URIs reads past it (`:181`); a stochastic match that succeeds raises
  (`:373`, a document times 100).
* Aliases of foreign namespaces and ids outside of references are never renumbered; those
  of the own namespace are by replacing text, "ns=1" also inside of "ns=10" (`:230`).
* A reference into a foreign namespace that becomes namespace 0 is written "ns=0;i=..." and
  looked up as text; ids of namespace 0 print without a prefix, so it is never linked.
* Blacklisted ids are removed with their line end, so only an unfinished last line
  removes a node (`generate_open62541CCode.py:131`).
* `getSubTypesOf` calls a function that does not exist (`ua_namespace.py:475`) as soon as
  `HasTypeDefinition` has a subtype reference.
* Equality of references without their source loses references of a second parent;
  the loop over left-over references (`ua_namespace.py:733`) prints none.

## What is not modelled, and why

* The client without batching (one request per point, no state), line protocol,
  Flux texts and the parsing of answers: formatting.
* `ConfigLoader`'s parsing: planned, for its numeric edges; the client's proofs use
  only the ranges it guarantees.
* Values of process variables (get, set, arrays, units): planned.  Creation of their
  nodes is part of `VariableMapping`, their time stamps of `HistoryPaging`.
* The server's configuration (security, certificates, access control): calls into
  open62541, which is external.
* The attribute `unrollPath`, separators other than "/", units and descriptions.
* The memory of node ids (`clear_history` clears ids that its vectors share with
  the configuration).
* XML handler, type tables, generated namespace: stateless or generated.
* Of the mapfile generator: the layout of the window, the cancelling of dialogs, units
  (they go the way of descriptions) and the numbers of a history setting.
* Of the namespace compiler: the type definition that creating a node hands over, and the
  `deleteReference` that follows (`open62541_MacroHelper.py:222-231`, `:244-257`): a type
  definition that does not exist yet is not seen; values of variables (`allocateVariables`,
  `ua_builtin_types.py`), whose XML and C are conversions of data; the names of the
  namespace array and the dot output.

## Plan

Done: the client with its abstract buffer and proofs; health; lifecycle with
proofs; application; paging; historizing setup; mapping with proofs; the mapfile
generator; the namespace compiler with proofs.

Next, in this order:

1. `ConfigLoader`: strtoul's `-1`, `max_retries + 1` wrapping to 0, the product of
   backoff and power of two, with widths as `% 2^w`; joined to `HistorizingSetup`,
   whose `influxLoads` it decides.
2. `ProcessVariables`: get, set and the server's polling of a value the application
   changes, with the time stamps `HistoryPaging` already uses.
3. A composition of `VariableMapping` and `HistorizingSetup`: the history ids one makes
   are the lists the other reads.
4. `MapFile` joined to `VariableMapping`: what the generator saves, the server maps.
