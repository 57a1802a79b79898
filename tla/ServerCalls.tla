------------------------------ MODULE ServerCalls ------------------------------
(***************************************************************************)
(* The calls that a server answers as a whole: executeQuery(), whose       *)
(* worker runs on the libuv pool and whose callback gets a SelectResults   *)
(* object; toArray() and each() of that object; and executeFunction() with *)
(* the synchronous option, which blocks the JavaScript thread until the    *)
(* server has answered.  What executeFunction() does without that option   *)
(* is the module FunctionExecution.                                        *)
(*                                                                         *)
(* JavaScript is one thread: it runs the program, handlers of each(), in   *)
(* which each() may be called again, and the callbacks of workers when it  *)
(* does nothing else.  External: servers answer with any rows or results,  *)
(* or fail, and fail whatever a closed cache asks for.  Parameters, and     *)
(* arguments and filters, are such that they can be converted.             *)
(***************************************************************************)
EXTENDS Naturals, Sequences, SequencesExt

CONSTANTS
  Queries,       \* the calls of executeQuery()
  Functions,     \* the calls of executeFunction()
  Pools,         \* the pools that exist
  DefaultPool,   \* the pool of the cache's default query service
  FirstPool,     \* the first pool of the pool manager
  Answers,       \* the sequences a server may answer with
  QueryArgs,     \* what executeQuery() is given after the query string
  FunctionArgs,  \* what executeFunction() is given after the name
  NoPool,        \* the pool of options that name none
  None,          \* undefined
  MaxEach        \* a bound on the calls of each() the program makes

ASSUME PoolsAssumption ==
  {DefaultPool, FirstPool} \subseteq Pools /\ NoPool \notin Pools

ASSUME MaxEachAssumption == MaxEach \in Nat

ASSUME AnswersAssumption ==
  \A rows \in Answers : rows \in Seq({rows[i] : i \in DOMAIN rows})

\* The kinds of JavaScript arguments the code tells apart.
Callback == [kind |-> "function"]
Array(params) == [kind |-> "array", params |-> params]
Options(pool) == [kind |-> "object", pool |-> pool]
Other == [kind |-> "other"]
FunctionOptions(arguments, filter, synchronous, pool) ==
  [kind |-> "object", arguments |-> arguments, filter |-> filter,
   synchronous |-> synchronous, pool |-> pool]

\* Arguments come in a list, and an array is not undefined.
ASSUME QueryArgsAssumption ==
  \A args \in QueryArgs :
    /\ args \in Seq({args[i] : i \in DOMAIN args})
    /\ \A i \in DOMAIN args : args[i].kind = "array" => args[i].params # None

VARIABLES
  open,       \* the cache is open
  query,      \* how far each query is
  request,    \* what its worker asks of the server
  result,     \* what the worker got, then the rows of the SelectResults object
  frames,     \* the calls of each() under way, the innermost last
  eachCalls,  \* how many there were
  function,   \* how far each call of executeFunction() is
  ran,        \* what it asked the server to run
  answer      \* what a synchronous one returned

queryVars == <<query, request, result>>
eachVars == <<frames, eachCalls>>
functionVars == <<function, ran, answer>>
vars == <<open, queryVars, eachVars, functionVars>>

Init ==
  /\ open = TRUE
  /\ query = [q \in Queries |-> "none"]
  /\ request = [q \in Queries |-> None]
  /\ result = [q \in Queries |-> None]
  /\ frames = <<>> /\ eachCalls = 0
  /\ function = [f \in Functions |-> "none"]
  /\ ran = [f \in Functions |-> None]
  /\ answer = [f \in Functions |-> None]

\* No synchronous call keeps the JavaScript thread from running the program.
JsRuns == \A f \in Functions : function[f] # "waiting"

\* It has returned to the loop.
JsIdle == JsRuns /\ frames = <<>>

-----------------------------------------------------------------------------
(* executeQuery().                                                         *)

\* The callback is the first function among three arguments; 0: there is none.
CallbackAt(args) ==
  LET At == {i \in 1 .. 3 : i <= Len(args) /\ args[i].kind = "function"}
  IN IF At = {} THEN 0 ELSE CHOOSE i \in At : \A j \in At : i <= j

\* A slip: options are looked for in the first argument.
SlipFirstOptions(args) == IF args[1].kind = "object" THEN args[1].pool ELSE NoPool

\* The options are the argument before the callback; in an array, which is an
\* object too, there is no poolName.
PoolNamed(args) ==
  LET i == CallbackAt(args)
  IN IF i > 1 /\ args[i - 1].kind = "object" THEN args[i - 1].pool ELSE NoPool

\* Parameters are taken only when options, or something else, follow them.
ParamsGiven(args) ==
  IF CallbackAt(args) = 3 /\ args[1].kind = "array" THEN args[1].params ELSE None

\* A slip: the name of the pool is not checked.
SlipAnyPool(pool, default) == {IF pool = NoPool THEN default ELSE pool}

\* The pool to use: none if the one that was named does not exist.
PoolsFor(pool, default) == Pools \cap {IF pool = NoPool THEN default ELSE pool}

\* The call throws, or queues a worker.
ExecuteQuery(q, args) ==
  /\ JsRuns
  /\ query[q] = "none"
  /\ LET pools == PoolsFor(PoolNamed(args), DefaultPool)
     IN \/ /\ CallbackAt(args) = 0 \/ ~open \/ pools = {}
           /\ query' = [query EXCEPT ![q] = "thrown"]
           /\ UNCHANGED request
        \/ /\ CallbackAt(args) # 0 /\ open
           /\ \E pool \in pools :
                request' = [request EXCEPT ![q] = [given |-> args, pool |-> pool,
                                                   params |-> ParamsGiven(args)]]
           /\ query' = [query EXCEPT ![q] = "queued"]
  /\ UNCHANGED <<open, result, eachVars, functionVars>>

\* ExecuteQueryWorker on a pool thread: rows, or an exception.
Execute(q) ==
  /\ query[q] = "queued"
  /\ \/ /\ open
        /\ \E rows \in Answers : result' = [result EXCEPT ![q] = rows]
        /\ query' = [query EXCEPT ![q] = "executed"]
     \/ query' = [query EXCEPT ![q] = "failed"] /\ UNCHANGED result
  /\ UNCHANGED <<open, request, eachVars, functionVars>>

\* The callback is called with a SelectResults object.
HandleOK(q) ==
  /\ query[q] = "executed"
  /\ query' = [query EXCEPT ![q] = "answered"]

\* The callback is called with an error.
HandleError(q) ==
  /\ query[q] = "failed"
  /\ query' = [query EXCEPT ![q] = "refused"]

\* A slip: only the first of the two is there.
SlipOnlyOK(q) ==
  /\ JsIdle
  /\ HandleOK(q)
  /\ request' = [request EXCEPT ![q] = None]
  /\ UNCHANGED <<open, result, eachVars, functionVars>>

\* The loop completes the worker and deletes it.
WorkComplete(q) ==
  /\ JsIdle
  /\ HandleOK(q) \/ HandleError(q)
  /\ request' = [request EXCEPT ![q] = None]
  /\ UNCHANGED <<open, result, eachVars, functionVars>>

-----------------------------------------------------------------------------
(* SelectResults.  A frame is one call of each(): the results, its own      *)
(* iterator, and as a history what its handler has been called with.       *)

Frame(q, next) == [of |-> q, next |-> next, heard |-> <<>>]

\* A slip: the results have one iterator, which is where another call left it.
SlipOneIterator(q) ==
  LET On == {i \in DOMAIN frames : frames[i].of = q}
  IN Frame(q, IF On = {} THEN 1 ELSE frames[CHOOSE i \in On : TRUE].next)

\* getIterator(): an iterator at the first row.
GetIterator(q) == Frame(q, 1)

\* each() is called, by the program or in a handler.
Each(q) ==
  /\ JsRuns
  /\ query[q] = "answered"
  /\ frames # <<>> => Last(frames).heard # <<>>
  /\ eachCalls < MaxEach
  /\ frames' = Append(frames, GetIterator(q))
  /\ eachCalls' = eachCalls + 1
  /\ UNCHANGED <<open, queryVars, functionVars>>

HasNext == frames # <<>> /\ Last(frames).next <= Len(result[Last(frames).of])

\* The handler of the innermost call returned, if it ran, and runs again.
CallHandler ==
  /\ JsRuns
  /\ HasNext
  /\ LET f == Last(frames)
     IN frames' = Front(frames) \o
          <<[f EXCEPT !.next = @ + 1, !.heard = Append(@, result[f.of][f.next])]>>
  /\ UNCHANGED <<open, queryVars, eachCalls, functionVars>>

\* each() returns.
EachReturns ==
  /\ JsRuns
  /\ frames # <<>> /\ ~HasNext
  /\ frames' = Front(frames)
  /\ UNCHANGED <<open, queryVars, eachCalls, functionVars>>

\* toArray() changes nothing: it is the rows.
ToArray(q) == result[q]

-----------------------------------------------------------------------------
(* executeFunction(), of the cache or of a region.                         *)

\* What the options object, if there is one, has under a name.
Option(a, name) == IF a.kind = "object" THEN a[name] ELSE None

\* The cache refuses a filter before it looks for a pool.
CacheRefuses(a) ==
  Option(a, "filter") # None
    \/ PoolsFor(IF a.kind = "object" THEN a.pool ELSE NoPool, FirstPool) = {}

\* Arguments of the wrong kind.
Malformed(a) ==
  \/ a.kind = "other"
  \/ Option(a, "filter") = "notArray"
  \/ Option(a, "synchronous") = "notBoolean"

\* NULL if arguments are neither given nor anything but null.
ArgumentsGiven(a) ==
  LET given == IF a.kind = "array" THEN a.params ELSE Option(a, "arguments")
  IN IF given = "null" THEN None ELSE given

\* The pool, or the region, that the function runs on.
Target(on, a) ==
  IF on = "region" THEN {on}
  ELSE PoolsFor(IF a.kind = "object" THEN a.pool ELSE NoPool, FirstPool)

\* The results a call returns: the only one, or the array of all.
Returned(results) ==
  IF Len(results) = 1 THEN [one |-> results[1]] ELSE [all |-> results]

\* Without arguments synchronousExecutionPtr is never set: using it throws, and
\* the exception is dropped.
NothingToExecute(f) ==
  /\ function' = [function EXCEPT ![f] = "returned"]
  /\ answer' = [answer EXCEPT ![f] = Returned(<<>>)]
  /\ UNCHANGED ran

ExecuteFunction(f, on, a) ==
  /\ JsRuns
  /\ function[f] = "none"
  /\ LET refused == ~open \/ (on = "cache" /\ CacheRefuses(a)) \/ Malformed(a)
         synchronous == Option(a, "synchronous") = "true"
         Becomes(state) == function' = [function EXCEPT ![f] = state]
     IN \/ refused /\ Becomes("thrown") /\ UNCHANGED <<ran, answer>>
        \/ ~refused /\ ~synchronous /\ Becomes("started") /\ UNCHANGED <<ran, answer>>
        \/ ~refused /\ synchronous /\ ArgumentsGiven(a) = None /\ NothingToExecute(f)
        \/ /\ ~refused /\ synchronous /\ ArgumentsGiven(a) # None
           /\ Becomes("waiting")
           /\ \E target \in Target(on, a) :
                ran' = [ran EXCEPT ![f] = [given |-> a, on |-> target,
                                           arguments |-> ArgumentsGiven(a),
                                           filter |-> Option(a, "filter")]]
           /\ UNCHANGED answer
  /\ UNCHANGED <<open, queryVars, eachVars>>

\* The server has answered, or the native client has thrown: that is dropped.
FunctionReturns(f) ==
  /\ function[f] = "waiting"
  /\ function' = [function EXCEPT ![f] = "returned"]
  /\ \E results \in Answers \cup {<<>>} :
       answer' = [answer EXCEPT ![f] = Returned(results)]
  /\ UNCHANGED <<open, queryVars, eachVars, ran>>

-----------------------------------------------------------------------------
\* cache.close().
Close ==
  /\ JsRuns
  /\ open
  /\ open' = FALSE
  /\ UNCHANGED <<queryVars, eachVars, functionVars>>

\* The process may stop when nothing is under way.
Done ==
  /\ JsIdle
  /\ \A q \in Queries : query[q] \notin {"queued", "executed", "failed"}
  /\ UNCHANGED vars

Next ==
  \/ \E q \in Queries :
       \/ \E args \in QueryArgs : ExecuteQuery(q, args)
       \/ Execute(q) \/ WorkComplete(q) \/ Each(q)
  \/ CallHandler \/ EachReturns
  \/ \E f \in Functions :
       \/ \E on \in {"cache", "region"}, a \in FunctionArgs : ExecuteFunction(f, on, a)
       \/ FunctionReturns(f)
  \/ Close \/ Done

Spec == Init /\ [][Next]_vars

\* Pool threads and the loop run, handlers return, servers answer.
Fairness ==
  /\ \A q \in Queries : WF_vars(Execute(q)) /\ WF_vars(WorkComplete(q))
  /\ \A f \in Functions : WF_vars(FunctionReturns(f))
  /\ WF_vars(CallHandler) /\ WF_vars(EachReturns)

FairSpec == Spec /\ Fairness

-----------------------------------------------------------------------------
(* Properties.                                                             *)

Rows == UNION {{rows[i] : i \in DOMAIN rows} : rows \in Answers}
Requests ==
  [given : QueryArgs, pool : Pools, params : {ParamsGiven(args) : args \in QueryArgs}]
Runs ==
  [given : FunctionArgs, on : Pools \cup {"region"},
   arguments : {ArgumentsGiven(a) : a \in FunctionArgs},
   filter : {Option(a, "filter") : a \in FunctionArgs}]

\* undefined is no answer and no request.
ASSUME NoneAssumption == None \notin Answers \cup Requests \cup Runs \cup {"true"}

\* Every variable has its type; in particular only pools that exist are asked.
TypeOK ==
  /\ open \in BOOLEAN
  /\ query \in [Queries -> {"none", "thrown", "queued", "executed", "failed",
                            "answered", "refused"}]
  /\ request \in [Queries -> Requests \cup {None}]
  /\ result \in [Queries -> Answers \cup {None}]
  /\ \A q \in Queries :
       /\ (request[q] # None) = (query[q] \in {"queued", "executed", "failed"})
       /\ (result[q] # None) = (query[q] \in {"executed", "answered"})
  /\ frames \in Seq([of : Queries, next : Nat, heard : Seq(Rows)])
  /\ eachCalls \in 0 .. MaxEach
  /\ function \in [Functions -> {"none", "thrown", "started", "waiting", "returned"}]
  /\ ran \in [Functions -> Runs \cup {None}]

\* The arguments as doc/cache.md:75 documents them, query, [parameters],
\* [options], callback: each of the two may be left out.
Documented(args) ==
  /\ args # <<>> /\ Last(args) = Callback
  /\ CASE Len(args) = 1 -> TRUE
       [] Len(args) = 2 -> args[1].kind \in {"array", "object"}
       [] Len(args) = 3 -> args[1].kind \in {"array", "other"} /\ args[2].kind = "object"
       [] OTHER -> FALSE

\* Parameters, and no options.
ParametersAlone(args) == Len(args) = 2 /\ args[1].kind = "array"

\* A query goes to the pool its options name, or else to the default one, with
\* its parameters; but parameters given without options never reach a server.
QueryServed(r) ==
  Documented(r.given) =>
    LET named == {r.given[i].pool :
                    i \in {j \in DOMAIN r.given : r.given[j].kind = "object"}} \ {NoPool}
        params == {r.given[i].params :
                    i \in {j \in DOMAIN r.given : r.given[j].kind = "array"}}
    IN /\ r.pool \in IF named = {} THEN {DefaultPool} ELSE named
       /\ {r.params} \ {None} = IF ParametersAlone(r.given) THEN {} ELSE params

\* A function runs on the pool or the region, with its arguments and filter.
FunctionServed(r) ==
  /\ r.given.pool # NoPool => r.on \in {r.given.pool, "region"}
  /\ r.arguments = r.given.arguments /\ r.filter = r.given.filter

\* What a server is asked is what the program asked for, in each query and in
\* each synchronous call of a function, with the one exception of QueryServed.
ServedAsAsked ==
  /\ \A q \in Queries : request[q] # None => QueryServed(request[q])
  /\ \A f \in Functions : ran[f] # None => FunctionServed(ran[f])

\* Whatever handlers do, each() calls its own once for each row of its results,
\* in order, before it returns: calls inside each other, on the same results,
\* do not disturb one another, nor does closing the cache.
EachHearsAll ==
  [][Len(frames') < Len(frames) =>
       Last(frames).heard = ToArray(Last(frames).of)]_vars

\* The callback of a query that was accepted is called, with rows or with an
\* error, also when the cache is closed and when synchronous calls block the
\* JavaScript thread meanwhile.
EveryQueryReported ==
  \A q \in Queries : query[q] = "queued" ~> query[q] \in {"answered", "refused"}

\* doc/cache.md:29 "Executes a Java function on a server": a synchronous call
\* that returned had asked a server to run it.
SyncFunctionRuns ==
  \A f \in Functions : function[f] = "returned" => ran[f] # None

-----------------------------------------------------------------------------
(* The inductive invariant.                                                *)

\* Each call of each() has been through its results, which are there, up to its
\* iterator.
FramesConsistent ==
  \A i \in DOMAIN frames :
    LET f == frames[i]
        rows == result[f.of]
    IN /\ query[f.of] = "answered"
       /\ f.next \in 1 .. Len(rows) + 1
       /\ f.heard = SubSeq(rows, 1, f.next - 1)

\* The inductive invariant of ServerCallsProofs.
Inv == TypeOK /\ FramesConsistent /\ ServedAsAsked
===============================================================================
