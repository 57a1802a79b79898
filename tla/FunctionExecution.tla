-------------------------- MODULE FunctionExecution --------------------------
(***************************************************************************)
(* Asynchronous function execution: cache.executeFunction() and            *)
(* region.executeFunction() without the synchronous option.  Three kinds   *)
(* of threads share one ExecuteFunctionWorker and its ResultStream:        *)
(*                                                                         *)
(*   - the JavaScript thread (the libuv loop) creates the worker, runs the *)
(*     two uv_async callbacks (Data, End) and the completion callback;     *)
(*   - a libuv pool thread runs Execute(), which blocks in the native      *)
(*     client and, in the collector's endResults(), in ResultStream::end(); *)
(*   - native client threads ("feeders") call addResult() while the native *)
(*     execute() of the call is running.                                   *)
(*                                                                         *)
(* A result is an opaque value.  Data() emits it as "data", or as "error"  *)
(* when it converts to a JavaScript Error; either way it is one event of   *)
(* the emitter, and `delivered' records these events in order.             *)
(*                                                                         *)
(* What the native client does is external: it calls addResult() from any  *)
(* thread while execute() runs, and then either calls endResults() once    *)
(* and returns, or throws without calling it.                              *)
(***************************************************************************)
EXTENDS Naturals, Sequences, FiniteSets

CONSTANTS
  Calls,       \* the executeFunction() calls the program may make
  Feeders,     \* the native client threads that can deliver results
  Results,     \* the values a function can return
  MaxResults,  \* bound: results one call receives
  PoolSize,    \* threads of the libuv pool (UV_THREADPOOL_SIZE)
  NoCall       \* the loop is in no call's Data()

ASSUME CallsAssumption == NoCall \notin Calls
ASSUME BoundsAssumption == MaxResults \in Nat /\ PoolSize \in Nat \ {0}

VARIABLES
  workQueue,         \* requests queued with uv_queue_work, oldest first
  execPc,            \* where the pool thread is in Execute() of each call
  feederPc,          \* where each feeder is in ResultStream::add
  results,           \* ResultStream::resultsPtr
  resultsAsync,      \* calls whose resultsAsync handle is pending
  endAsync,          \* calls whose endAsync handle is pending
  exception,         \* calls whose exceptionPtr is set
  loopPc,            \* where the JavaScript thread is in Data()
  loopCall,          \* and for which call
  batch,             \* what nextResults() returned and is not yet emitted
  ended,             \* calls whose `ended' is true
  executeCompleted,  \* calls whose `executeCompleted' is true
  freed,             \* calls whose worker was deleted
  sent,              \* history: results passed to add(), in order
  delivered,         \* history: results emitted to JavaScript, in order
  terminal           \* history: the event that closed the emitter

streamVars == <<results, resultsAsync, endAsync>>
loopVars == <<loopPc, loopCall, batch>>
flagVars == <<exception, ended, executeCompleted, freed>>
historyVars == <<sent, delivered, terminal>>
vars == <<workQueue, execPc, feederPc, streamVars, loopVars, flagVars,
          historyVars>>

ExecPcs == {"none", "queued", "feeding", "check", "wait", "waiting",
            "reacquire", "send", "returning", "done"}

\* The pool thread holds resultsProcessedMutex.
MutexHeld(c) == execPc[c] \in {"check", "wait"}

\* The pool threads are busy with these calls.
Running == {c \in Calls : execPc[c] \notin {"none", "queued", "done"}}

FeedersIdle(c) == \A f \in Feeders : feederPc[c][f] = "idle"

\* JavaScript code runs from the loop or from a handler of a data event.
JsRunning == loopPc \in {"idle", "emit"}

Init ==
  /\ workQueue = <<>>
  /\ execPc = [c \in Calls |-> "none"]
  /\ feederPc = [c \in Calls |-> [f \in Feeders |-> "idle"]]
  /\ results = [c \in Calls |-> <<>>]
  /\ resultsAsync = {} /\ endAsync = {}
  /\ exception = {} /\ ended = {} /\ executeCompleted = {} /\ freed = {}
  /\ loopPc = "idle" /\ loopCall = NoCall /\ batch = <<>>
  /\ sent = [c \in Calls |-> <<>>]
  /\ delivered = [c \in Calls |-> <<>>]
  /\ terminal = [c \in Calls |-> "none"]

-----------------------------------------------------------------------------
(* The JavaScript thread, outside the callbacks.                           *)

\* executeFunction(): new worker, uv_queue_work.
ExecuteFunction(c) ==
  /\ JsRunning
  /\ execPc[c] = "none"
  /\ execPc' = [execPc EXCEPT ![c] = "queued"]
  /\ workQueue' = Append(workQueue, c)
  /\ UNCHANGED <<feederPc, streamVars, loopVars, flagVars, historyVars>>

-----------------------------------------------------------------------------
(* The pool thread: ExecuteFunctionWorker::Execute().                      *)

\* A free pool thread takes the oldest request and enters the try block.
StartWork ==
  /\ workQueue # <<>>
  /\ Cardinality(Running) < PoolSize
  /\ execPc' = [execPc EXCEPT ![Head(workQueue)] = "feeding"]
  /\ workQueue' = Tail(workQueue)
  /\ UNCHANGED <<feederPc, streamVars, loopVars, flagVars, historyVars>>

\* The thread moves from one control point to another and changes nothing
\* else.
ExecStep(c, from, to) ==
  /\ execPc[c] = from
  /\ execPc' = [execPc EXCEPT ![c] = to]
  /\ UNCHANGED <<workQueue, feederPc, streamVars, loopVars, flagVars,
                 historyVars>>

\* The native client calls endResults(): end() locks resultsProcessedMutex.
EndEnter(c) == FeedersIdle(c) /\ ExecStep(c, "feeding", "check")

\* Slips in end(), which no action uses: off by one, and `if' for `while'.
SlipSizeAtMostOne(c) == Len(results[c]) <= 1 /\ ExecStep(c, "check", "send")
SlipIfForWhile(c) == ExecStep(c, "reacquire", "send")

\* `while (resultsPtr->size() > 0)': the size is read without resultsMutex.
EndSizeIsZero(c) == results[c] = <<>> /\ ExecStep(c, "check", "send")
EndSizeIsPositive(c) == results[c] # <<>> /\ ExecStep(c, "check", "wait")

\* uv_cond_wait releases the mutex and sleeps, in one step.
EndWait(c) == ExecStep(c, "wait", "waiting")

\* pthread condition variables may wake without a signal.
SpuriousWakeup(c) == ExecStep(c, "waiting", "reacquire")

\* uv_cond_wait takes the mutex again before it returns to the loop test.
EndReacquire(c) == ExecStep(c, "reacquire", "check")

\* uv_async_send(endAsync).
EndSend(c) ==
  /\ execPc[c] = "send"
  /\ execPc' = [execPc EXCEPT ![c] = "returning"]
  /\ endAsync' = endAsync \cup {c}
  /\ UNCHANGED <<workQueue, feederPc, results, resultsAsync, loopVars,
                 flagVars, historyVars>>

\* execute() and then Execute() return; libuv queues the completion.
ExecReturn(c) == ExecStep(c, "returning", "done")

\* execute(), or one of the with...() calls before it, throws.
ExecThrow(c) ==
  /\ execPc[c] = "feeding"
  /\ FeedersIdle(c)
  /\ exception' = exception \cup {c}
  /\ execPc' = [execPc EXCEPT ![c] = "done"]
  /\ UNCHANGED <<workQueue, feederPc, streamVars, loopVars, ended,
                 executeCompleted, freed, historyVars>>

-----------------------------------------------------------------------------
(* A native client thread: addResult(), that is ResultStream::add().       *)

\* push_back under resultsMutex.
AddPush(c, f, r) ==
  /\ execPc[c] = "feeding"
  /\ feederPc[c][f] = "idle"
  /\ Len(sent[c]) < MaxResults
  /\ results' = [results EXCEPT ![c] = Append(@, r)]
  /\ sent' = [sent EXCEPT ![c] = Append(@, r)]
  /\ feederPc' = [feederPc EXCEPT ![c][f] = "send"]
  /\ UNCHANGED <<workQueue, execPc, resultsAsync, endAsync, loopVars,
                 flagVars, delivered, terminal>>

\* Slips in add(): the loop is not told, or the data of the handle is not set.
SlipNoSend(c, f) ==
  /\ feederPc[c][f] = "send"
  /\ feederPc' = [feederPc EXCEPT ![c][f] = "idle"]
  /\ UNCHANGED <<workQueue, execPc, streamVars, loopVars, flagVars, historyVars>>
SlipNoHandleData(c, f) ==
  /\ feederPc[c][f] = "send"
  /\ feederPc' = [feederPc EXCEPT ![c][f] = "idle"]
  /\ resultsAsync' = resultsAsync \cup {NoCall}
  /\ UNCHANGED <<workQueue, execPc, results, endAsync, loopVars, flagVars,
                 historyVars>>

\* uv_async_send(resultsAsync), after the unlock.
AddSend(c, f) ==
  /\ feederPc[c][f] = "send"
  /\ feederPc' = [feederPc EXCEPT ![c][f] = "idle"]
  /\ resultsAsync' = resultsAsync \cup {c}
  /\ UNCHANGED <<workQueue, execPc, results, endAsync, loopVars, flagVars,
                 historyVars>>

-----------------------------------------------------------------------------
(* The JavaScript thread: the callbacks of the worker.                     *)

\* libuv clears the pending flag, then calls DataAsyncCallback.
DataAsync(c) ==
  /\ loopPc = "idle"
  /\ c \in resultsAsync
  /\ resultsAsync' = resultsAsync \ {c}
  /\ loopPc' = "take" /\ loopCall' = c
  /\ UNCHANGED <<workQueue, execPc, feederPc, results, endAsync, batch,
                 flagVars, historyVars>>

\* A slip in nextResults(): the vector is copied and not cleared.
SlipNotCleared(c) ==
  /\ loopPc = "take" /\ loopCall = c
  /\ batch' = results[c]
  /\ loopPc' = "emit"
  /\ UNCHANGED <<workQueue, execPc, feederPc, streamVars, loopCall, flagVars,
                 historyVars>>

\* nextResults(): copy and clear under resultsMutex.
NextResults(c) ==
  /\ loopPc = "take" /\ loopCall = c
  /\ batch' = results[c]
  /\ results' = [results EXCEPT ![c] = <<>>]
  /\ loopPc' = "emit"
  /\ UNCHANGED <<workQueue, execPc, feederPc, resultsAsync, endAsync,
                 loopCall, flagVars, historyVars>>

\* One turn of the loop in Data(); the handlers run here.
EmitResult(c) ==
  /\ loopPc = "emit" /\ loopCall = c
  /\ batch # <<>>
  /\ delivered' = [delivered EXCEPT ![c] = Append(@, Head(batch))]
  /\ batch' = Tail(batch)
  /\ UNCHANGED <<workQueue, execPc, feederPc, streamVars, loopPc, loopCall,
                 flagVars, sent, terminal>>

\* Slips in resultsProcessed(): the mutex is not taken, or nothing signalled.
SlipNoMutex(c) ==
  /\ loopPc = "emit" /\ loopCall = c
  /\ batch = <<>>
  /\ execPc' = [execPc EXCEPT ![c] = IF @ = "waiting" THEN "reacquire" ELSE @]
  /\ loopPc' = "idle" /\ loopCall' = NoCall
  /\ UNCHANGED <<workQueue, feederPc, streamVars, batch, flagVars,
                 historyVars>>
SlipNoSignal(c) ==
  /\ loopPc = "emit" /\ loopCall = c
  /\ batch = <<>>
  /\ ~MutexHeld(c)
  /\ loopPc' = "idle" /\ loopCall' = NoCall
  /\ UNCHANGED <<workQueue, execPc, feederPc, streamVars, batch, flagVars,
                 historyVars>>

\* resultsProcessed(): signal with resultsProcessedMutex held; Data() returns.
ResultsProcessed(c) ==
  /\ loopPc = "emit" /\ loopCall = c
  /\ batch = <<>>
  /\ ~MutexHeld(c)
  /\ execPc' = [execPc EXCEPT ![c] = IF @ = "waiting" THEN "reacquire" ELSE @]
  /\ loopPc' = "idle" /\ loopCall' = NoCall
  /\ UNCHANGED <<workQueue, feederPc, streamVars, batch, flagVars,
                 historyVars>>

\* A slip in teardownIfReady(): one flag is not tested.
SlipTeardownOnEnd(c) ==
  IF c \in ended'
  THEN /\ freed' = freed \cup {c}
       /\ resultsAsync' = resultsAsync \ {c}
       /\ results' = [results EXCEPT ![c] = <<>>]
  ELSE UNCHANGED <<freed, resultsAsync, results>>

\* teardownIfReady(): the destructor closes both handles, so that a pending
\* callback is dropped, and releases the results still in the stream.
TeardownIfReady(c) ==
  IF c \in ended' /\ c \in executeCompleted'
  THEN /\ freed' = freed \cup {c}
       /\ resultsAsync' = resultsAsync \ {c}
       /\ results' = [results EXCEPT ![c] = <<>>]
  ELSE UNCHANGED <<freed, resultsAsync, results>>

\* EndAsyncCallback and End().
EndAsync(c) ==
  /\ loopPc = "idle"
  /\ c \in endAsync
  /\ terminal' = [terminal EXCEPT ![c] = "end"]
  /\ ended' = ended \cup {c}
  /\ UNCHANGED executeCompleted
  /\ endAsync' = endAsync \ {c}
  /\ TeardownIfReady(c)
  /\ UNCHANGED <<workQueue, execPc, feederPc, loopVars, exception, sent,
                 delivered>>

\* A slip in ExecuteComplete(): an exception is emitted, `ended' stays false.
SlipErrorDoesNotEnd(c) ==
  /\ loopPc = "idle"
  /\ execPc[c] = "done"
  /\ c \notin executeCompleted
  /\ terminal' = [terminal EXCEPT ![c] = IF c \in exception THEN "error" ELSE @]
  /\ ended' = ended
  /\ executeCompleted' = executeCompleted \cup {c}
  /\ TeardownIfReady(c)
  /\ endAsync' = endAsync \ freed'
  /\ UNCHANGED <<workQueue, execPc, feederPc, loopVars, exception, sent,
                 delivered>>

\* ExecuteComplete(), the completion callback of uv_queue_work.
ExecuteComplete(c) ==
  /\ loopPc = "idle"
  /\ execPc[c] = "done"
  /\ c \notin executeCompleted
  /\ terminal' = [terminal EXCEPT ![c] = IF c \in exception THEN "error" ELSE @]
  /\ ended' = IF c \in exception THEN ended \cup {c} ELSE ended
  /\ executeCompleted' = executeCompleted \cup {c}
  /\ TeardownIfReady(c)
  /\ endAsync' = endAsync \ freed'
  /\ UNCHANGED <<workQueue, execPc, feederPc, loopVars, exception, sent,
                 delivered>>

-----------------------------------------------------------------------------
\* Every call has been made and its worker deleted: the process may stop.
Terminated == freed = Calls /\ loopPc = "idle" /\ UNCHANGED vars

PoolThread(c) ==
  \/ EndEnter(c) \/ EndSizeIsZero(c) \/ EndSizeIsPositive(c) \/ EndWait(c)
  \/ EndReacquire(c) \/ EndSend(c) \/ ExecReturn(c) \/ ExecThrow(c)

Loop(c) ==
  \/ DataAsync(c) \/ NextResults(c) \/ EmitResult(c) \/ ResultsProcessed(c)
  \/ EndAsync(c) \/ ExecuteComplete(c)

Feeder(c, f) == AddSend(c, f) \/ \E r \in Results : AddPush(c, f, r)

Next ==
  \/ StartWork
  \/ Terminated
  \/ \E c \in Calls :
       \/ ExecuteFunction(c)
       \/ PoolThread(c) \/ SpuriousWakeup(c)
       \/ \E f \in Feeders : Feeder(c, f)
       \/ Loop(c)

Spec == Init /\ [][Next]_vars

\* Threads that can move do move, the loop runs every pending callback, and
\* the native client ends every execute() with endResults() or an exception.
\* A mutex that is free again and again is eventually taken: with weak
\* fairness alone, spurious wakeups of the pool thread could keep the loop
\* out of resultsProcessed() for ever.  JavaScript need not make another call,
\* a server need not send another result, and no wakeup need be spurious.
Fairness ==
  /\ WF_vars(StartWork)
  /\ \A c \in Calls :
       /\ WF_vars(PoolThread(c))
       /\ WF_vars(Loop(c)) /\ SF_vars(ResultsProcessed(c))
       /\ \A f \in Feeders : WF_vars(AddSend(c, f))

FairSpec == Spec /\ Fairness

-----------------------------------------------------------------------------
(* Properties.                                                             *)

TypeOK ==
  /\ workQueue \in Seq(Calls)
  /\ execPc \in [Calls -> ExecPcs]
  /\ feederPc \in [Calls -> [Feeders -> {"idle", "send"}]]
  /\ results \in [Calls -> Seq(Results)]
  /\ resultsAsync \subseteq Calls /\ endAsync \subseteq Calls
  /\ exception \subseteq Calls /\ ended \subseteq Calls
  /\ executeCompleted \subseteq Calls /\ freed \subseteq Calls
  /\ loopPc \in {"idle", "take", "emit"}
  /\ loopCall \in Calls \cup {NoCall}
  /\ batch \in Seq(Results)
  /\ sent \in [Calls -> Seq(Results)]
  /\ delivered \in [Calls -> Seq(Results)]
  /\ terminal \in [Calls -> {"none", "end", "error"}]

\* Results taken from the stream of c and not emitted yet.
InFlight(c) == IF loopCall = c THEN batch ELSE <<>>

\* The JavaScript thread is in Data() of call c.
InData(c) == loopPc # "idle" /\ loopCall = c

\* The work queue holds exactly the requests no pool thread has taken.
QueueConsistent ==
  /\ \A i \in 1..Len(workQueue) : execPc[workQueue[i]] = "queued"
  /\ \A i, j \in 1..Len(workQueue) : workQueue[i] = workQueue[j] => i = j

\* The two flags, the exception and the events agree with how far each thread
\* is, so that teardownIfReady() deletes the worker exactly once, when the
\* last of ExecuteComplete() and End() has run.
Lifecycle ==
  \A c \in Calls :
    /\ c \in freed <=> c \in ended /\ c \in executeCompleted
    /\ c \in ended <=> terminal[c] # "none"
    /\ c \in executeCompleted \cup exception => execPc[c] = "done"
    /\ c \in endAsync =>
         execPc[c] \in {"returning", "done"} /\ c \notin exception \cup ended
    /\ terminal[c] = "end" =>
         execPc[c] \in {"returning", "done"} /\ c \notin exception
    /\ terminal[c] = "error" => c \in exception /\ c \in executeCompleted

\* Where the results of a call can be, given how far its threads are.
StreamProgress ==
  /\ loopPc = "idle" <=> loopCall = NoCall
  /\ loopPc # "emit" => batch = <<>>
  /\ \A c \in Calls :
       /\ ~FeedersIdle(c) => execPc[c] = "feeding"
       /\ c \in resultsAsync \/ InData(c) =>
            execPc[c] \notin {"none", "queued"} /\ c \notin freed
       /\ execPc[c] \in {"send", "returning"} => results[c] = <<>>
       /\ execPc[c] = "done" /\ c \notin exception => results[c] = <<>>
       /\ c \in freed => results[c] = <<>>

\* Between add() in a native thread and emit() in JavaScript no result is
\* lost, duplicated or reordered: as long as the worker lives, what was sent
\* is what was delivered, then what Data() holds, then what the stream holds.
Conservation ==
  \A c \in Calls \ freed :
    sent[c] = (delivered[c] \o InFlight(c)) \o results[c]

\* 'end' is emitted only when every result of the function was emitted.
EndMeansComplete ==
  \A c \in Calls : terminal[c] = "end" => delivered[c] = sent[c]

\* Results in the stream of a live worker are never forgotten: an async
\* notification is pending or about to be sent, or Data() is about to take
\* them.  (uv_async_send coalesces, so one notification must do for many.)
NotStranded ==
  \A c \in Calls \ freed :
    results[c] # <<>> =>
      \/ c \in resultsAsync
      \/ \E f \in Feeders : feederPc[c][f] = "send"
      \/ loopPc = "take" /\ loopCall = c

\* A pool thread that sleeps, or has decided to sleep, in end() has a signal
\* still to come: the condition is signalled by a Data() that has not yet
\* reached resultsProcessed(), or that the results will cause.
NoLostWakeup ==
  \A c \in Calls :
    execPc[c] \in {"wait", "waiting"} => results[c] # <<>> \/ InData(c)

\* After `delete this' no thread is in the worker or its stream, and no
\* callback for it is pending.
NoUseAfterFree ==
  \A c \in freed :
    /\ execPc[c] = "done" /\ FeedersIdle(c)
    /\ ~InData(c)
    /\ c \notin resultsAsync \cup endAsync

\* A closed emitter is silent: after 'end', or the 'error' of an exception,
\* no result is emitted and the closing event is not emitted again or changed.
SilentAfterTerminal ==
  [][\A c \in Calls : terminal[c] # "none" =>
       terminal'[c] = terminal[c] /\ delivered'[c] = delivered[c]]_vars

\* Every call is eventually closed by one event and its worker deleted: the
\* pool threads blocked in end() and the loop never wait for each other.
EveryCallCompletes ==
  \A c \in Calls :
    execPc[c] = "queued" ~> c \in freed /\ terminal[c] # "none"

\* doc/cache.md: 'data' is emitted once for each result sent by the function.
EveryResultEmitted == \A c \in freed : delivered[c] = sent[c]

\* The inductive invariant.
Inv ==
  /\ TypeOK /\ QueueConsistent /\ Lifecycle /\ StreamProgress
  /\ Conservation /\ EndMeansComplete /\ NotStranded /\ NoLostWakeup

\* The threads implement the abstract stream.
Stream == INSTANCE FunctionStream WITH
  produced <- sent, consumed <- delivered, outcome <- terminal

\* Whatever the interleaving of feeders, pool threads and loop, the emitter
\* behaves as FunctionStream says.
StreamSpec == Stream!Spec
=============================================================================
