----------------------------- MODULE RegionWorkers -----------------------------
(***************************************************************************)
(* The asynchronous operations of a Region: each is a GemfireWorker (a     *)
(* Nan::AsyncWorker) that a JavaScript call creates and queues, a libuv    *)
(* pool thread executes, and the JavaScript thread completes by calling    *)
(* the callback, or by emitting "error" on the Region object when there is *)
(* none.  Meanwhile the program may close the cache, destroy the region,   *)
(* change it synchronously, or drop the Region object, which the garbage   *)
(* collector then deletes unless a queued worker pins it.                  *)
(*                                                                         *)
(* Pool threads take work in any order, which includes every order that a  *)
(* queue served by several threads can produce.  The contents of a region  *)
(* are abstracted to whether it holds the one key all operations are       *)
(* about.  What the native client does on a closed cache, on a destroyed   *)
(* region or when a server fails is external: it throws, except that       *)
(* clear() on a closed cache crashes the process, as the comment in        *)
(* ClearWorker reports.                                                    *)
(***************************************************************************)
EXTENDS Naturals, Sequences

CONSTANTS
  Workers,   \* the asynchronous calls the program may make
  Objects,   \* the JavaScript Region objects
  Regions,   \* the native regions
  RegionOf,  \* the region each object wraps
  Kinds,     \* the operations called, a subset of AllKinds
  NoWork     \* the work of a worker that was not created

\* "read" stands for query, selectValue, existsValue, serverKeys, keys, values
\* and entries, which are alike; "destroy" for destroyRegion and
\* localDestroyRegion; "get" for get and getAll.
AllKinds == {"put", "putAll", "remove", "clear", "destroy", "get", "read"}

ASSUME RegionOfAssumption == RegionOf \in [Objects -> Regions]
ASSUME KindsAssumption == Kinds \subseteq AllKinds

\* GemfireEventedWorkers: the Region object is saved in a persistent handle,
\* and the callback is optional.
Evented == {"put", "putAll", "remove", "clear", "destroy"}

\* The worker keeps the raw Region * instead of a copy of its RegionPtr.
UsesRawPointer == {"put", "clear", "destroy"}

\* The call throws at once if getCacheFromRegion finds no open cache.
ChecksCache == {"put", "putAll", "remove", "get"}

\* The operations that store an entry, and those that take entries away.
Storing == {"put", "putAll"}
Removing == {"remove", "clear", "destroy"}

\* The call converts a key, and maybe a value.
TakesInput == {"put", "putAll", "remove", "get"}

\* What the call is given as its key or value: something that can be stored;
\* null; a function; or an object that contains a function.
Inputs == {"good", "null", "function", "nested"}

\* Calls that take no input have nothing wrong with it.
InputsOf(kind) == IF kind \in TakesInput THEN Inputs ELSE {"good"}

\* gemfireValue() throws, but what it returns is used nevertheless: NULL for a
\* function, and for an object that contains one the object with null instead.
Throws(input) == input \in {"function", "nested"}
Converted(input) == input \in {"good", "nested"}

Work == [kind : Kinds, object : Objects, callback : BOOLEAN, input : Inputs]

VARIABLES
  work,       \* what each worker is to do
  pc,         \* how far it is
  error,      \* the error name it has set
  thrown,     \* workers whose call has thrown an exception
  follows,    \* history: puts called after a put of the region was reported
  syncPuts,   \* history: regions into which putSync() has put
  event,      \* history: the entry event the worker's operation raised
  notices,    \* history: what JavaScript was told about it
  open,       \* the cache is open
  destroyed,  \* regions that were destroyed
  present,    \* regions that hold the key
  live,       \* Region objects that were not deleted
  jsHeld,     \* Region objects JavaScript can reach
  crashed     \* clear() was called on a closed cache

callVars == <<work, thrown, follows>>
workerVars == <<callVars, pc, error, event, notices>>
cacheVars == <<open, destroyed, present, syncPuts, crashed>>
objectVars == <<live, jsHeld>>
vars == <<workerVars, cacheVars, objectVars>>

Init ==
  /\ work = [w \in Workers |-> NoWork]
  /\ pc = [w \in Workers |-> "none"]
  /\ error = [w \in Workers |-> "none"]
  /\ thrown = {} /\ follows = {} /\ syncPuts = {}
  /\ event = [w \in Workers |-> "none"]
  /\ notices = [w \in Workers |-> <<>>]
  /\ open = TRUE /\ destroyed = {} /\ present = {} /\ crashed = FALSE
  /\ live = Objects /\ jsHeld = Objects

InProgress == {w \in Workers : pc[w] \in {"queued", "clearing", "executed"}}

\* A slip: the worker does not save the object.
SlipNotPinned == {}

\* SaveToPersistent("v8Object", ...) pins the object until the worker is gone.
Pinned == {work[w].object : w \in {v \in InProgress : work[v].kind \in Evented}}

RegionOfWorker(w) == RegionOf[work[w].object]

\* The worker was executed, without an error.
Succeeded(w) == pc[w] \in {"executed", "finished"} /\ error[w] = "none"

\* Regions for which a put was reported to have succeeded.
Reported ==
  {RegionOfWorker(w) : w \in {v \in Workers : /\ pc[v] = "finished" /\ Succeeded(v)
                                            /\ work[v].kind \in Storing}}

\* The native region can serve an operation.
Usable(r) == open /\ r \notin destroyed

-----------------------------------------------------------------------------
(* The JavaScript thread.                                                  *)

\* put(), get(), ...: the arguments are checked and converted, and a worker is
\* queued even if the conversion has thrown.
Submit(w, kind, o, callback, input) ==
  /\ ~crashed
  /\ pc[w] = "none"
  /\ o \in jsHeld
  /\ kind \in ChecksCache => open
  /\ kind \notin Evented => callback
  /\ input \in InputsOf(kind)
  /\ work' = [work EXCEPT ![w] = [kind |-> kind, object |-> o,
                                  callback |-> callback, input |-> input]]
  /\ thrown' = IF Throws(input) THEN thrown \cup {w} ELSE thrown
  /\ follows' = IF kind \in Storing /\ RegionOf[o] \in Reported
                THEN follows \cup {w} ELSE follows
  /\ pc' = [pc EXCEPT ![w] = "queued"]
  /\ UNCHANGED <<error, event, notices, cacheVars, objectVars>>

\* putSync() and putAllSync(): on the JavaScript thread, or an exception.
PutSync(o) ==
  /\ ~crashed
  /\ o \in jsHeld
  /\ Usable(RegionOf[o])
  /\ present' = present \cup {RegionOf[o]}
  /\ syncPuts' = syncPuts \cup {RegionOf[o]}
  /\ UNCHANGED <<workerVars, open, destroyed, crashed, objectVars>>

\* cache.close().
Close ==
  /\ ~crashed
  /\ open
  /\ open' = FALSE
  /\ UNCHANGED <<workerVars, destroyed, present, syncPuts, crashed, objectVars>>

\* JavaScript drops its last reference to a Region object.
Drop(o) ==
  /\ ~crashed
  /\ o \in jsHeld
  /\ jsHeld' = jsHeld \ {o}
  /\ UNCHANGED <<workerVars, cacheVars, live>>

\* A slip: the object is not referenced while JavaScript holds it.
SlipCollectHeld(o) ==
  /\ ~crashed
  /\ o \in live \ Pinned
  /\ live' = live \ {o}
  /\ UNCHANGED <<workerVars, cacheVars, jsHeld>>

\* The garbage collector deletes a Region object nothing refers to.
Collect(o) ==
  /\ ~crashed
  /\ o \in live \ (jsHeld \cup Pinned)
  /\ live' = live \ {o}
  /\ UNCHANGED <<workerVars, cacheVars, jsHeld>>

\* What the completion tells JavaScript: the callback, with or without an
\* error; without a callback, an "error" event or nothing.
Notice(w) ==
  CASE work[w].callback /\ error[w] = "none" -> <<"ok">>
    [] work[w].callback /\ error[w] # "none" -> <<"error">>
    [] ~work[w].callback /\ error[w] = "none" -> <<>>
    [] OTHER -> <<"errorEvent">>

\* A slip: nothing is reported of a Region object the program has dropped.
SlipCompleteIfHeld(w) ==
  /\ ~crashed
  /\ pc[w] = "executed"
  /\ work[w].object \in jsHeld
  /\ notices' = [notices EXCEPT ![w] = @ \o Notice(w)]
  /\ pc' = [pc EXCEPT ![w] = "finished"]
  /\ UNCHANGED <<callVars, error, event, cacheVars, objectVars>>

\* A slip: a call is reported as soon as it is queued.
SlipCompleteEarly(w) ==
  /\ ~crashed
  /\ pc[w] \in {"queued", "executed"}
  /\ notices' = [notices EXCEPT ![w] = @ \o Notice(w)]
  /\ pc' = [pc EXCEPT ![w] = "finished"]
  /\ UNCHANGED <<callVars, error, event, cacheVars, objectVars>>

\* AsyncWorker::WorkComplete: HandleOKCallback or HandleErrorCallback, then
\* the worker and its persistent handles are deleted.
Complete(w) ==
  /\ ~crashed
  /\ pc[w] = "executed"
  /\ notices' = [notices EXCEPT ![w] = @ \o Notice(w)]
  /\ pc' = [pc EXCEPT ![w] = "finished"]
  /\ UNCHANGED <<callVars, error, event, cacheVars, objectVars>>

-----------------------------------------------------------------------------
(* A pool thread: GemfireWorker::Execute.                                  *)

\* ExecuteGemfireWork returns, or Execute catches its exception, or it set an
\* error itself.
Executed(w, err) ==
  /\ pc' = [pc EXCEPT ![w] = "executed"]
  /\ error' = [error EXCEPT ![w] = err]
  /\ UNCHANGED <<callVars, notices, objectVars>>

\* A slip: Execute catches the exception and sets no error.
SlipSwallow(w) ==
  /\ pc[w] \in {"queued", "clearing"}
  /\ ~crashed
  /\ Converted(work[w].input)
  /\ Executed(w, "none")
  /\ UNCHANGED <<event, cacheVars>>

\* The native client refuses, or the server fails, and nothing changes.
NativeException(w) ==
  /\ pc[w] \in {"queued", "clearing"}
  /\ ~crashed
  /\ Converted(work[w].input)
  /\ Executed(w, "native")
  /\ UNCHANGED <<event, cacheVars>>

\* A key or value that could not be converted is reported by the worker.
InvalidInput(w) ==
  /\ pc[w] = "queued"
  /\ ~crashed
  /\ ~Converted(work[w].input)
  /\ Executed(w, "invalid")
  /\ UNCHANGED <<event, cacheVars>>

\* The thread starts a valid operation on a region that can serve it.
Starts(w, kind) ==
  /\ pc[w] = "queued"
  /\ ~crashed
  /\ work[w].kind = kind /\ Converted(work[w].input)
  /\ Usable(RegionOfWorker(w))

\* The native client raises "update" for a present key, else "create".
RunPut(w) ==
  /\ Starts(w, "put") \/ Starts(w, "putAll")
  /\ event' = [event EXCEPT ![w] =
                 IF RegionOfWorker(w) \in present THEN "update" ELSE "create"]
  /\ present' = present \cup {RegionOfWorker(w)}
  /\ Executed(w, "none")
  /\ UNCHANGED <<open, destroyed, syncPuts, crashed>>

\* destroy() of an absent key throws EntryNotFoundException.
RunRemove(w) ==
  /\ Starts(w, "remove")
  /\ present' = present \ {RegionOfWorker(w)}
  /\ IF RegionOfWorker(w) \in present
     THEN /\ Executed(w, "none")
          /\ event' = [event EXCEPT ![w] = "destroy"]
     ELSE Executed(w, "notFound") /\ UNCHANGED event
  /\ UNCHANGED <<open, destroyed, syncPuts, crashed>>

\* Reading changes nothing: an absent key gives NULL, which is not an error.
RunRead(w) ==
  /\ Starts(w, "get") \/ Starts(w, "read")
  /\ Executed(w, "none")
  /\ UNCHANGED <<event, cacheVars>>

RunDestroy(w) ==
  /\ Starts(w, "destroy")
  /\ destroyed' = destroyed \cup {RegionOfWorker(w)}
  /\ present' = present \ {RegionOfWorker(w)}
  /\ Executed(w, "none")
  /\ UNCHANGED <<event, open, syncPuts, crashed>>

\* getRegionService()->isClosed(): throws if the cache was closed.
ClearChecks(w) ==
  /\ Starts(w, "clear")
  /\ pc' = [pc EXCEPT ![w] = "clearing"]
  /\ UNCHANGED <<callVars, error, event, notices, cacheVars, objectVars>>

\* clear(), whatever has happened since.
RunClear(w) ==
  /\ pc[w] = "clearing"
  /\ ~crashed
  /\ \/ /\ Usable(RegionOfWorker(w))
        /\ present' = present \ {RegionOfWorker(w)}
        /\ Executed(w, "none")
        /\ UNCHANGED <<event, open, destroyed, syncPuts, crashed>>
     \/ /\ ~open
        /\ crashed' = TRUE
        /\ UNCHANGED <<workerVars, open, destroyed, present, syncPuts, objectVars>>

-----------------------------------------------------------------------------
Execute(w) ==
  \/ NativeException(w) \/ InvalidInput(w)
  \/ RunPut(w) \/ RunRemove(w) \/ RunRead(w) \/ RunDestroy(w)
  \/ ClearChecks(w) \/ RunClear(w)

Next ==
  \/ \E w \in Workers :
       \/ \E kind \in Kinds, o \in Objects, callback \in BOOLEAN, input \in Inputs :
            Submit(w, kind, o, callback, input)
       \/ Execute(w)
       \/ Complete(w)
  \/ \E o \in Objects : PutSync(o) \/ Drop(o) \/ Collect(o)
  \/ Close

Spec == Init /\ [][Next]_vars

\* A pool thread executes every queued worker, the native call returns or
\* throws, and the loop runs every completion.
Fairness == \A w \in Workers : WF_vars(Execute(w)) /\ WF_vars(Complete(w))

FairSpec == Spec /\ Fairness

-----------------------------------------------------------------------------
(* Properties.                                                             *)

TypeOK ==
  /\ work \in [Workers -> Work \cup {NoWork}]
  /\ pc \in [Workers -> {"none", "queued", "clearing", "executed", "finished"}]
  /\ error \in [Workers -> {"none", "invalid", "notFound", "native"}]
  /\ thrown \subseteq Workers /\ follows \subseteq Workers
  /\ syncPuts \subseteq Regions
  /\ event \in [Workers -> {"none", "create", "update", "destroy"}]
  /\ notices \in [Workers -> Seq({"ok", "error", "errorEvent"})]
  /\ open \in BOOLEAN /\ crashed \in BOOLEAN
  /\ destroyed \subseteq Regions /\ present \subseteq Regions
  /\ jsHeld \subseteq live /\ live \subseteq Objects

\* A worker that a pool thread may still run, and that goes through the raw
\* Region *, finds the Region object alive, even if the program dropped its
\* last reference while the worker was queued; and the object an "error"
\* event would be emitted on is alive until the completion.
RegionObjectAlive ==
  \A w \in InProgress :
    work[w].kind \in UsesRawPointer \/ ~work[w].callback =>
      work[w].object \in live

\* The workers of a region that were created, and those of them that make
\* calls of some kinds.
WorkersOf(r) == {w \in Workers : pc[w] # "none" /\ RegionOfWorker(w) = r}
Calls(r, kinds) == {w \in WorkersOf(r) : work[w].kind \in kinds}

\* JavaScript was told that the operation failed, in either way.
ToldFailure(w) ==
  \E i \in DOMAIN notices[w] : notices[w][i] \in {"error", "errorEvent"}

\* A call of these kinds was made, and no failure of it was reported.
Believed(r, kinds) == \E w \in Calls(r, kinds) : ~ToldFailure(w)

\* When no operation on a region is under way, what the program was told
\* explains what the region holds: what is there was put by putSync() or by a
\* put of which no failure was reported, and what such a put has stored is
\* there unless a call takes entries away of which no failure was reported.
ReportsExplainContents ==
  \A r \in Regions : (\A w \in WorkersOf(r) : pc[w] = "finished") =>
    /\ r \in present => r \in syncPuts \/ Believed(r, Storing)
    /\ Believed(r, Storing) => r \in present \/ Believed(r, Removing)

\* Operations under way when the cache is closed, or when their Region object
\* is dropped, are reported like any other.
EveryOperationReported ==
  \A w \in Workers : pc[w] = "queued" ~> pc[w] = "finished" \/ crashed

\* The comment in ClearWorker: clear() must not be called on a closed cache.
NeverClearsClosedCache == ~crashed

\* doc/region.md: functions cannot be stored.  A call that throws because of one
\* changes no entry.
ThrownStoresNothing == \A w \in thrown : event[w] = "none"

\* A call has taken entries of the region away.
TakenAway(r) == \E v \in Calls(r, Removing) : Succeeded(v)

\* Calls may be executed in any order, but the report of a put can be relied
\* on: a put called after it finds the entry, unless one of the calls has taken
\* entries of the region away.
ReportedPutIsFound ==
  \A w \in follows : event[w] = "create" => TakenAway(RegionOfWorker(w))

-----------------------------------------------------------------------------
(* The inductive invariant.                                                *)

\* What a worker was created with, and that it raises no event before it runs.
CallsConsistent ==
  /\ \A w \in Workers : pc[w] # "none" =>
       /\ work[w] \in Work /\ (work[w].kind \notin Evented => work[w].callback)
       /\ pc[w] = "clearing" => work[w].kind = "clear"
  /\ \A w \in Workers : pc[w] \in {"none", "queued", "clearing"} => event[w] = "none"
  /\ \A w \in follows : pc[w] # "none" /\ work[w].kind \in Storing

\* The objects that workers saved are there.
PinnedAreLive == Pinned \subseteq live

\* A completion says what became of the worker, and nothing is said before.
NoticesConsistent ==
  \A w \in Workers : IF pc[w] # "finished" THEN notices[w] = <<>>
                     ELSE notices[w] = Notice(w)

\* Nothing is in a region but what a call has put there.
EntriesWerePut ==
  \A r \in present : r \in syncPuts \/ (\E w \in Calls(r, Storing) : Succeeded(w))

\* What a put has stored stays, from its execution on and not only from its
\* report, unless one of the calls has taken entries of the region away.
EntriesStay ==
  \A w \in Workers :
    (Succeeded(w) /\ work[w].kind \in Storing) \/ w \in follows
    => RegionOfWorker(w) \in present \/ TakenAway(RegionOfWorker(w))

\* The inductive invariant of RegionWorkersProofs: what calls, pool threads,
\* completions and the collector rely on in each other.
Inv ==
  /\ TypeOK /\ CallsConsistent /\ PinnedAreLive /\ NoticesConsistent
  /\ EntriesWerePut /\ EntriesStay /\ ReportedPutIsFound
=============================================================================
