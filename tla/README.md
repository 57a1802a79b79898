# node-gemfire in TLA+

node-gemfire is a Node.js addon that gives JavaScript programs the GemFire
(Apache Geode) C++ native client. Its difficulty is not in what a single call
does but in who runs it: the JavaScript thread (the libuv loop), the threads of
the libuv pool, threads of the native client and the V8 garbage collector share
objects and tell each other about them through mutexes, one condition variable
and `uv_async` handles. What remains is in the conversions between JavaScript
and native values, which are lossy at their edges and do not stop when they
throw. This directory models both, checks them with TLC and proves with TLAPS
the safety properties, for every value of the constants. Paths below are relative to the repository.

## Inventory

| Part | State | Operations | Interacts with |
|---|---|---|---|
| Function execution: `src/functions.cpp`, `src/result_stream.*`, `src/streaming_result_collector.cpp` | result vector, two mutexes, a condition, two async handles, `ended`, `executeCompleted`, the emitter | `executeFunction()`, `Execute`, `add`, `end`, `nextResults`, `resultsProcessed`, `Data`, `End`, `ExecuteComplete`, `teardownIfReady` | a pool thread blocks in `end()` until the loop has run `Data()`; native threads call `add()` |
| Region events: `src/event_stream.*`, `src/region_event_registry.*`, `src/region_event_listener.cpp` | event vector, one async handle with uv_ref/uv_unref, the set of Region object addresses | `add`, `nextEvents`, `emitCallback`, `publishEvents`, `~Region` | native threads and the JavaScript thread raise events; handlers and the collector change the set while it is walked |
| Region operations: `src/region.cpp`, `src/gemfire_worker.cpp` | per call a worker with key, value, callback and a pinned Region object | put, get, remove, clear, query, keys, destroyRegion ... and their Sync variants | pool threads execute, the loop completes; `cache.close()` and the collector interfere |
| Cache and binding: `lib/binding.js`, `src/cache.*`, `src/cache_factory.*` | `cacheSingleton`, the factories, the Cache objects and the native cache they share | `configure`, `createCacheFactory`, `create`, `getCache`, `close`, `createRegion`, `executeQuery` | the destructor of a Cache object closes the native cache |
| Conversions: `src/conversions.*` | none | JavaScript values to native values and back, keys, maps, PDX class names | every operation |
| Query results: `src/select_results.cpp` | the rows; an iterator per call of `each()` | `toArray`, `each` | handlers, which may call `each()` again |
| Region shortcuts, exceptions, dependencies, module initialisation | none that changes | table lookups, wording | the above |

What makes each part correct:

* **Function execution**: every result is emitted once and in order; `end`
  comes after all of them, nothing comes after `end`; every call is closed; the
  pool thread never sleeps through its signal; the worker is deleted when, and
  only when, nobody uses it.
* **Region events**: a live Region object sees every event of its region raised
  since it was made, in order; the set iterator stays valid whatever handlers
  do; the process neither stops with events unpublished nor hangs because of
  the stream.
* **Region operations**: the raw pointers workers hold stay valid; each
  operation is reported, and what the program is told explains what a region
  holds; the check that the cache is open still holds when it is relied on; what was stored is read back, by one
  key or by many, and a call that fails stores nothing.
* **Cache and binding**: the open cache is reachable through `getCache()`, and
  only the program closes it; a setting that is made takes effect; a query goes
  where its options say, with its parameters, and is reported.
* **Conversions**: what is converted there and back is unchanged, or is named as
  something that cannot be stored; two shapes have two PDX class names; an
  integer that loses digits does so with a warning.
* **Query results**: every call of `each()` hears all rows.

The hard behaviours, one by one and at their lines, are the hazards listed in
`PROJECT.json`.

## Modules

| Module | Models |
|---|---|
| `FunctionExecution` | asynchronous `executeFunction()`: calls, pool, feeders, loop |
| `FunctionStream` | what the emitter promises, without threads |
| `FunctionExecutionProofs` | the theorems about `FunctionExecution` |
| `EventFeed` | what a Region object promises to its listeners |
| `RegionEvents` | `EventStream` and `RegionEventRegistry` with the life of Region objects |
| `RegionEventsProofs` | the theorems about `RegionEvents` |
| `RegionWorkers` | the `GemfireWorker` operations of a region |
| `RegionWorkersProofs` | the theorems about `RegionWorkers` |
| `CacheLifecycle` | `binding.js`, `CacheFactory` with its settings, `Cache::close`, `~Cache` |
| `CacheLifecycleProofs` | the theorems about `CacheLifecycle` |
| `Conversions` | `conversions.cpp` as functions on values |
| `Recursion` | a theorem about recursive functions, for those of `Conversions` |
| `ConversionsProofs` | the theorems about `Conversions` |
| `JsMap` | what a region's synchronous calls promise: a map with JavaScript keys and values |
| `RegionData` | `putSync`, `getSync`, `putAllSync`, `getAllSync` on native entries, through `Conversions` |
| `RegionDataProofs` | the theorems about `RegionData` |
| `ServerCalls` | `executeQuery`, `SelectResults`, the checks and the synchronous path of `executeFunction` |
| `ServerCallsProofs` | the theorems about `ServerCalls` |
| `MC...` | instances for TLC: symmetry sets and constant values |

Definitions whose name begins with `Slip` are variants of the definition they
precede, with an error that a programmer could have made; no action uses them.
They record, for each property, a change of the code that breaks it.

### FunctionExecution

`execPc[c]` is where the pool thread is in `Execute()` of call c: *queued*,
*feeding* (inside the native `execute()`), then the lines of
`ResultStream::end()` (*check* and *wait* hold `resultsProcessedMutex`,
*waiting* sleeps, *reacquire* was woken), *send*, *returning*, *done*.
`feederPc` splits `add()` at its unlock, `loopPc` splits `Data()` into taking
the results, emitting them one by one and signalling. `resultsAsync` and
`endAsync` are sets of pending notifications: `uv_async_send` on a pending
handle does nothing more, which is how libuv coalesces. libuv clears the flag
before it calls the callback. Each critical section is one step; so are the
lines outside any lock that touch one shared variable. The read of
`resultsPtr->size()` in `end()`, which takes a different mutex than the writers,
is a step of its own. It is treated as reading the current size: by then every
`add()` of the call has returned, so that only `clear()` runs beside it.

External: the native client calls `addResult()` from any thread while
`execute()` runs and then calls `endResults()` once, or throws; condition
variables may wake spuriously. `sent`, `delivered` and `terminal` are history
variables: they record what the properties are about and guard nothing, but for
the bound `MaxResults` on the results of a call.

### RegionEvents

A Region object *is* its address, because the registry is an ordered set of
addresses: `cursor` is the iterator of `publishEvents()`, `Ahead` what it has
still to visit, `handles` the objects its `HandleScope` keeps alive, and an
address is used again after a collection. Handlers of events may make objects,
drop them, and raise events synchronously (`putSync`). The collector may run
whenever JavaScript runs or `publishEvents()` allocates. `LoopExits` is the
process ending because no referenced handle is left. Events carry their region
and their rank; key and value are abstracted. That handlers are attached as soon
as an object exists is an assumption, which makes the properties about
"seeing" an event stronger. `raised`, `born` and `seen` are histories, and they
are the state of `EventFeed`, which says without any thread or queue what they
may do: `FeedSpec` is that `RegionEvents` with its fairness implements it with
its own, so that an object that is not deleted hears every event due to it.

### RegionWorkers

A worker has a kind, a Region object, an optional callback and an `input`: the
key and value, abstracted to whether they can be stored, are null, are a
function, or are an object with a function inside. `gemfireValue()` throws a
JavaScript exception for the last two, but the C++ code runs on, so the worker is
queued all the same (`Throws`, `Converted`). Kinds that the code treats alike are one ("read" is
query, selectValue, existsValue, serverKeys, keys, values and entries). The
three sets `Evented`, `UsesRawPointer` and `ChecksCache` say, per kind, which
base class it has, whether it keeps a `Region *` and whether it checks the
cache when it is called. `ClearWorker` is two steps, the check and the call. A
region's contents are one key, present or absent. A native operation that
cannot be served, or that fails, throws and changes nothing
(`NativeException`). Pool threads may execute queued workers in any order:
the queue is first-in first-out, but two threads that took two workers can
reach the native call in either order. The order that a program can rely on is
that of callbacks: `follows` remembers which puts were called after another was
reported, and `ReportedPutIsFound` is that these find its entry. Of puts called
without waiting, the later may well create the entry and the earlier update it.
`ReportsExplainContents` compares, when no operation on a region is under way,
what the program was told with what the region holds: an entry was put by
`putSync()` (`syncPuts`) or by a put of which no failure was reported, and what
such a put stored is there unless a remove, clear or destroy was called of which
no failure was reported. It fails if a native exception is lost on its way to the
callback or the "error" event, or if something is reported before it was done.

### CacheLifecycle

`wrapped` maps each JavaScript Cache object to its native cache, `singleton` is
`cacheSingleton`, `open` the one open native cache. The native `create()`
is external: it is assumed to return the open cache when there is one, and a new
cache otherwise. A collected object closes its cache (`~Cache`). The
setters of a factory are of two kinds: `set()`, `addLocator()`, `addServer()`
and `setServerGroup()` use the arguments they check; the others check the first
and use the second (`Read`), and none throws when an argument has the wrong type
(`Rejected`). `settings` is what the native factory has, `asked` what the
program asked for by the documentation, and `config` and `askedFor` are these two
when a cache was opened. That an open cache is not configured again is part of
the external `create()`.

### Conversions, RegionData, JsMap

`Conversions` is a module of functions: a JavaScript value is a record with a
type, a native one a record with a kind, a string a sequence of code units that
may contain NUL and the characters that `getClassName()` escapes.
`GemfireValue` returns NULL for null, for functions and for objects that the PDX
factory of the native client refuses (`Unwritable`), at any depth, and goes on;
the last two have thrown by then (`Throws`). A key may be any of these values but
an array, undefined and what becomes NULL (`GemfireKey`): an object is a key by
the fields of its PDX instance. `Ticks` overflows like the clock does; `Nearest`
rounds an integer to a number of `MantissaBits` bits. `getAllSync()` sets a
property per key, under the key's `ToString()` (`PropertyName`); the texts of
values that are no strings are the engine's, a constant (`Text`), so that 3 and
"3", true and "true", or all objects may share one.

The functions that descend into values are recursive functions, not RECURSIVE
operators, so that they can be reasoned about; `JsValuesAssumption` is that
their arguments are JavaScript values of which none contains itself (the code
would not return for one that does) and whose objects have finitely many fields.
`Ordered` lists a set of names like `std::set` does.

`RegionData` holds the entries of one region under the synchronous calls, which
are a single step each, and under the puts and removes of other clients. A call
may throw while it converts and store all the same (*conversion* in
`reply.thrown`). `JsMap` is the map a JavaScript program imagines, in which every
key stands for an entry (`Identity`) and every entry for a property (`Name`).
`MapSpec` maps every native entry to the value it is read as, and is that two
keys of which the conversion loses nothing never stand for one entry
(`KeptApart`), that each call changes only the entries it names, all of them or
none, that a value that can be stored is read as it was put, what `getAllSync()`
may answer when two keys have one property name, and that a call fails although
it has stored only if something in it cannot be kept. What can be kept is listed
in `Storable`: all but functions, refused objects, strings with a NUL and dates
outside the clock, and what contains one of them. TLC computes with small widths
(a clock of 6 bits with 4 ticks per millisecond, numbers of 3 bits); the widths
of the code are constants.

### ServerCalls

`ExecuteQuery` looks for the callback among three arguments and takes the
options from the one before it (`CallbackAt`, `PoolNamed`, `ParamsGiven`), so
that parameters given without options, which the documentation allows, are not
found: `ServedAsAsked` states this as the one exception (`ParametersAlone`) and
`PROJECT.json` as a finding. The worker runs on the pool and is completed by the
loop. A frame is one running call of `each()`: between two calls of its handler,
JavaScript may do anything, another `each()` on the same results included. A synchronous `executeFunction()`
is two steps, between which the JavaScript thread is blocked (`JsRuns`) but pool
threads run. Without arguments it is one, `NothingToExecute`, since the pointer
that it would use was never set. What fails is dropped, so that the answer to a
failed call is an empty array.

## Runs

| Run | Instance | Shows |
|---|---|---|
| `function_safety` | 2 calls, 2 feeders, 2 values, 2 results per call, pool of 1, `FairSpec` | conservation, order, closing, notification, deletion, refinement of `FunctionStream`, the inductive invariant of the proofs, and that every call is closed and deleted, the one that waits for the pool behind a blocked thread included |
| `function_dropped` | 1 call, 1 result | **violated**: a result in the stream is lost when `execute()` throws |
| `region_events` | 2 regions, 1 native thread, 2 addresses, 2 events per region, `FairSpec` | iterator, references, completeness, publication, refinement of `EventFeed` with its liveness, the inductive invariant of the proofs |
| `region_workers` | 2 workers of any kinds, 1 object, 1 region, `FairSpec` | pinning, reports that explain what the region holds, every operation reported, a reported put is found, the inductive invariant of the proofs |
| `clear_closed` | 2 clears | **violated**: `close()` between the check and `clear()` |
| `put_thrown` | 1 put | **violated**: a put that throws because of a function inside the value stores the value |
| `cache_lifecycle` | 2 factories, 3 Cache objects, 2 native caches, settings of the first kind, symmetric | the singleton wraps the open cache; one object is safe from the collector; the inductive invariant of the proofs |
| `cache_regions` | 2 factories, 2 objects, 2 caches | **violated**: collecting a stale Cache object closes the shared cache |
| `settings_ignored` | the same, both kinds of settings | **violated**: a pool attribute is set to the conversion of undefined |
| `region_data` | keys of every type, 12 values, 4 maps, 5 arrays of keys, 2 integers of other clients | keys, property names, class names, integers, refinement of `JsMap` |
| `server_calls` | 2 queries, 8 argument lists, 3 answers, 1 function with 10 argument lists, 2 calls of `each()`, `FairSpec` | requests, with the exception of parameters alone; handlers; every query reported; the inductive invariant of the proofs |
| `sync_function` | the same | **violated**: a synchronous call without arguments runs nothing |

The violated runs each check one statement of the documentation, of a comment
or of a test; `PROJECT.json` quotes it under "findings".

**Why the bounds are enough.** Two calls are needed for the loop to be busy
with one while the other waits; with a pool of one, a call waits in its queue
behind a thread that is blocked in `end()`, and the one after it starts when
the first has ended, while its callbacks are still to come. Two feeders and two
results give one `Data()` between two pushes, a push between `add()` and its
send of another thread, and a batch of two. A third call or result only repeats
such a step, and the proofs cover every number, of pool threads too. One native
thread and the JavaScript thread both raise events; the proofs are for any
number of native threads. Two regions are what the comparison in `publishEvents()` distinguishes; two addresses let
the set change both before and after the iterator; two events per region and
four in all give several batches. Two workers are two pool threads in one
region, and the second of two puts is the shortest case of one that follows
another. Three Cache objects let one be collected between two that share a
cache. The values of `region_data` hold one of each kind that a branch of the
conversions or a property tells apart, among them the keys that become one entry
or have one name, the pairs whose class names differ by an escape only, and
integers beyond the largest safe one. Two calls of `each()` are one inside the
other, or one after the other. `MaxResults`, `MaxEvents`, `MaxObjects`,
`MaxEach`, the widths and the sets of calls, workers, factories, Cache objects, caches, queries and
values are all the bounds there are.

`CHECK_DEADLOCK FALSE` appears where the program may have nothing left to do
because the bound on calls is used up (`RegionWorkers`, `CacheLifecycle`). In
the other modules deadlock is checked, and a finished process is an explicit
stuttering step.

**Fairness.** A thread that can run does run (weak fairness of a pool thread's,
a feeder's and the loop's steps): the operating system schedules all of them,
and libuv runs every pending callback. The native `execute()` is assumed to end.
`ResultsProcessed` needs strong fairness: it takes a mutex that a pool thread,
woken spuriously again and again, releases and takes for ever, so that the loop
is not continuously able to take it. That a mutex which is free infinitely often
is eventually acquired is what the platform's mutexes give in practice; spurious
wakeups themselves are not fair. In `ServerCalls` a server is assumed to answer
a synchronous function in the end, with results or an error, and handlers to
return. The program need not call, drop or close anything, the collector need
not run, and a server need not send.

## Proofs

Every safety property that a passing run checks is a theorem, and so are the
safety parts of the three refinements. The inductive invariants (`Inv` in their
modules) were checked by TLC first, and still are, in the runs above.

`FunctionExecutionProofs` proves, for every set of calls, feeders and results,
every bound on results and every pool size, and from the named assumptions on
the constants alone (`CallsAssumption`, `BoundsAssumption`):

| Theorem | Statement |
|---|---|
| `TypeCorrect` | `Spec => []TypeOK` |
| `Invariant` | `Spec => []Inv` |
| `NothingLost` | `Spec => []Conservation` |
| `EndAfterLastResult` | `Spec => []EndMeansComplete` |
| `WakeupsAreNotLost` | `Spec => []NoLostWakeup` |
| `ResultsAreNotStranded` | `Spec => []NotStranded` |
| `TeardownIsSafe` | `Spec => []NoUseAfterFree` |
| `ClosedIsSilent` | `Spec => SilentAfterTerminal` |
| `ImplementsStream` | `Spec => StreamSpec` |

None of the safety properties is inductive alone. That `end` follows the last
result needs two facts about the past: when the pool thread passed the test in
`end()` the vector was empty and has stayed so (`StreamProgress`: no feeder is
active after *feeding*), and what the loop had taken before was emitted before
the loop could turn to `endAsync` (`loopPc` and `batch`). That the worker is not
used after its deletion needs to know which thread can be where when the second
flag is set (`Lifecycle`). `Inv` is the conjunction of these with `TypeOK`,
`QueueConsistent`, `Conservation`, `EndMeansComplete`, `NotStranded` and
`NoLostWakeup`; TLC checks it as an invariant in `function_safety`. The proof
has one lemma per conjunct or group of conjuncts, and in it one step per action.
The action property and the refinement use `Inv` for the state before the step:
the refinement maps `AddPush` to Produce, `EmitResult` to Consume, `EndAsync` to
Finish, an `ExecuteComplete` after an exception to Fail, and all else to a
stutter.

`RegionEventsProofs` proves, for every set of regions and of native threads, any
number of addresses and any number of events, from `RegionAssumption` and
`BoundsAssumption`:

| Theorem | Statement |
|---|---|
| `RegionEventsTyped` | `Spec => []TypeOK` |
| `IteratorStaysValid` | `Spec => []IteratorValid` |
| `ReferencesAreBalanced` | `Spec => []RefMatchesQueue` |
| `NotificationsAreNotLost` | `Spec => []NotStranded` |
| `ExitIsClean` | `Spec => []ExitLosesNothing` |
| `EventsInvariant` | `Spec => []Inv` |
| `NothingMissed` | `Spec => []NoEventMissed` |
| `ImplementsFeed` | `Spec => Feed!Spec` |

The proof has two layers. `Control` (the iterator, the references, the
notification, and `LoopConsistent`: the object the iterator points at is pinned
by a handle, so that the collector cannot remove it) is inductive together with
the types. That no event is missed needs the past: what the loop has taken and
what is in the stream are seen as one sequence, `Queue`. It holds a last part of
the events of each region in their order (`QueueConsistent`), and for each
object the events after the last one it has seen (`SeenBeforeWaiting`,
`NextIsWaiting`), where the first event of the queue counts only while the
iterator has not passed the object (`Unvisited`). Only four actions disturb
this: an event raised is appended, one that ends is dropped from the front, an
object visited passes the first event, and a new object starts with nothing to
wait for. That the iterator visits every object follows from the order of
addresses (`MinInSet`, `AheadStep`). The refinement maps `Push` to Raise,
`NewInstance` to Make, `Collect` to Delete, a `VisitRegion` that emits to Hear,
and all else to a stutter.

`RegionWorkersProofs` proves, for every set of workers, Region objects, regions
and kinds of operations, from `RegionOfAssumption` and `KindsAssumption`:

| Theorem | Statement |
|---|---|
| `WorkersInvariant` | `Spec => []Inv` |
| `WorkersTyped` | `Spec => []TypeOK` |
| `RegionObjectsStayAlive` | `Spec => []RegionObjectAlive` |
| `ReportsAreTrue` | `Spec => []ReportsExplainContents` |
| `PutsAreFound` | `Spec => []ReportedPutIsFound` |

`RegionObjectAlive` speaks of the objects that a worker uses, and what keeps
them is that the worker has saved them: `PinnedAreLive` is the inductive form,
which a drop and a collection preserve because neither takes a pinned object;
`CallsConsistent` (a worker that is not evented has a callback) says that what
is used is pinned. `ReportedPutIsFound` is about the moment of the native call
of the second put. `EntriesStay` carries the fact there: the entry is present
from the execution of the first put on, and stays unless a call that takes
entries away was made, of which there is then one for ever (`TakenStaysTaken`).
`ReportsAreTrue` needs that, the converse (`EntriesWerePut`: what is in a region
was put by a call that succeeded), and that a finished worker has told of its
failure exactly if it had one (`NoticesConsistent`).

`CacheLifecycleProofs` proves, for every set of factories, Cache objects, native
caches and values, finite or not, from `NoWrapperAssumption`,
`NoCacheAssumption`, `ValuesAssumption` and `SettingsAssumption`:

| Theorem | Statement |
|---|---|
| `LifecycleInvariant` | `Spec => []Inv` |
| `LifecycleTyped` | `Spec => []TypeOK` |
| `SingletonIsRight` | `Spec => []SingletonWrapsOpenCache` |
| `OneObjectIsSafe` | `Spec => []OpenUntilClosedIfWrappedOnce` |

The collector closes the open cache only through a Cache object that the
singleton is not. The singleton wraps the open cache (`SingletonWrapsOpenCache`),
so there are then two objects of one cache, and one object is safe. That needs
`HeldAreLive`: what the program holds or can get was made by `create()`, and the
collector has not deleted it.

`ServerCallsProofs` proves, for any number of queries, functions and pools, any
answers, and calls of `each()` to any depth, from `PoolsAssumption`,
`MaxEachAssumption`, `AnswersAssumption` and `QueryArgsAssumption` (answers and
argument lists are sequences) and `NoneAssumption`:

| Theorem | Statement |
|---|---|
| `CallsInvariant` | `Spec => []Inv` |
| `CallsTyped` | `Spec => []TypeOK` |
| `ServersGetWhatIsAsked` | `Spec => []ServedAsAsked` |
| `EachIsComplete` | `Spec => EachHearsAll` |

`FramesConsistent` is about every call of `each()` that is running, not the last
one only: its results are there and do not change, and its handler has heard
them up to its iterator. A call inside another one adds a frame and leaves those
below as they are, so that the property, which is about the last frame at the
moment it is removed, holds at every depth. `ServedAsAsked` is inductive with
the types; what has to be shown is that the search for the callback, the options
and the parameters finds what was meant in every documented form of a query, and
no parameters where they stand alone (`DocumentedRequest`), and in a synchronous
call (`SynchronousRun`).

`ConversionsProofs` and `RegionDataProofs` prove, for all values, however deep,
all keys, maps and other clients, all field names and all widths, from
`WidthsAssumption`, `JsValuesAssumption`, `JavaValuesAssumption`,
`InputsAssumption` (what calls are given are JavaScript values):

| Theorem | Statement |
|---|---|
| `ThereAndBack` | a storable value is read as it was put: `Storable[v] => V8Value[GemfireValue[v]] = v` |
| `SilentIntegersKept` | two integers rounded to one number are both warned of |
| `ClassNamesDistinct` | two objects with one class name have the same fields, and arrays in the same ones |
| `SilentIntegers` | `Spec => []SilentIntegersDistinct` |
| `ShapesNamed` | `Spec => []ShapesHaveOwnNames` |
| `RegionTyped` | `Spec => []TypeOK` |
| `SyncCallsAreAMap` | `Spec => MapSpec` |

The provers have no induction over values. `RecursiveFunction` in `Recursion`
takes its place: a function whose body looks at the parts of its argument only,
where the parts are well-founded, satisfies its equation. It is proved by a
minimal counterexample, with the body a constant operator of the module, and
used by INSTANCE for `GemfireValue`, `Throws`, `Storable` and `V8Value`. What holds
of all values is then proved of a value with no counterexample among its parts:
`ThereAndBack` is one level of the conversion (`OneLevelThereAndBack`) and that
argument. `SilentIntegersKept` needs the powers of two, which are a recursive
function too: an integer that is not warned of is kept as it is (`SafeIsKept`),
and one that is does not become a safe one (`UnsafeStaysUnsafe`).

`ClassNamesDistinct` is that a class name can be read: no escaped character is
the beginning of another, and none begins like a mark, so the end of a name can
be seen (`EscapeDecoded`); hence no field name with its mark is the beginning
of another (`TokenDecoded`); hence the joined names can be taken apart again
(`Decoded`), and the set they come from is what the order lists (`OrderedRange`,
by a rank that counts the names before one). Without the escaping it is false,
which TLC shows.

The refinement needs no invariant of the entries. What it needs is that keys
which can be kept stay distinct in the native client (`KeptKeysApart`, from
`ThereAndBack`), that every entry of a map of `gemfireHashMap()` comes from one
of the names that become its key (`HashMap`), and that NULL stands for null,
functions and refused objects only (`NullExactly`). It maps a successful
`PutSync` to Put, `GetSync` to Get, `PutAllSync` to PutAll, `GetAllSync` to
GetAll, the steps of other clients to OtherClient, `CloseCache` to CloseCache,
and each refusal to Fail.

**Only model-checked.** The liveness properties (`EveryCallCompletes`,
`EventsArePublished`, `EveryOperationReported`, `EveryQueryReported`, the
fairness of `FeedSpec`): fairness and ENABLED are outside the reach of the
prover. The violated statements have their counterexamples. That the recursive
functions are what the code does is translation; the theorems are about the
functions.

## Not modelled, and why

* `registerAllKeys`, `unregisterAllKeys` and the attributes of a region: each is
  one call of the native client. `getRegion` and `rootRegions` make Region
  objects, which is in `RegionEvents`.
* Arguments and filters of `executeFunction()` and parameters of a query that
  throw while they are converted: the calls go on with what is left, as put()
  does (`ThrownStoresNothing`), but the value that reaches a server is not
  modelled. Handlers of `each()` that throw: what V8 does with an exception that
  is pending when the next handler is called is outside this code.
* Of the conversions: dates that are not a number, objects with two fields
  whose names differ after a NUL only, hash sets, structs and Java exceptions as
  values, clocks that count microseconds (libc++ on macOS; the width is a
  constant). Whether the PDX factory refuses an object depends on the object
  alone (`Unwritable`), not on the moment, and an object key whose `ToString()`
  throws is left out.
* The properties file that `createCacheFactory()` and `configure()` hand to the
  native factory: which settings are in it is outside.
* `region_shortcuts.cpp`, `exceptions.cpp`, `dependencies.cpp`, `binding.cpp`: no
  state that changes, or wording only.
* `getCacheFromRegion()` takes any open cache for the region's own: an operation
  on a region of a closed cache then fails in the native client, which is
  outside, instead of in the check.
* The native client and its servers: external. The memory model: `uv_ref` from
  a native thread is a data race on a counter of the loop; the models take each
  libuv call as atomic.
* `closeCacheAtExit` in `cache.cpp` is never registered and never runs.

## Plan

1. Done: `FunctionExecution` with `FunctionStream`; `RegionEvents` with
   `EventFeed`; `RegionWorkers`; `CacheLifecycle`; `Conversions`, `RegionData` and
   `JsMap`; `ServerCalls`; and the proofs of their safety properties.
2. Next: an abstract specification of a region's operations, of which
   `RegionWorkers` with its pool is shown to be an implementation, as `RegionData`
   is of `JsMap`.
3. `RegionEvents` composed with `RegionWorkers`: a worker's put raises the event
   on a pool thread, and the worker's persistent handle is what keeps the object.
