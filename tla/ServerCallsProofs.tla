--------------------------- MODULE ServerCallsProofs ---------------------------
(***************************************************************************)
(* Proofs about ServerCalls for any sets of calls, pools and arguments and *)
(* any answers, and however many calls of each() there are.                *)
(***************************************************************************)
EXTENDS ServerCalls, TLAPS, SequenceTheorems

FrameSet == [of : Queries, next : Nat, heard : Seq(Rows)]

-----------------------------------------------------------------------------
(* Lemmas about sequences and about the operators of the model.            *)

\* Front and Last take a sequence apart.
LEMMA FrontLast ==
  ASSUME NEW S, NEW s \in Seq(S), s # <<>>
  PROVE  /\ Front(s) \in Seq(S) /\ Len(Front(s)) = Len(s) - 1
         /\ \A i \in 1 .. Len(s) - 1 : Front(s)[i] = s[i]
         /\ Len(s) \in Nat \ {0} /\ Last(s) = s[Len(s)] /\ Last(s) \in S
<1>1. Len(s) \in Nat \ {0}
  BY EmptySeq
<1>2. \A i \in 1 .. Len(s) : s[i] \in S
  BY ElementOfSeq
<1>3. /\ Front(s) \in Seq(S) /\ Len(Front(s)) = Len(s) - 1
      /\ \A i \in 1 .. Len(s) - 1 : Front(s)[i] = s[i]
  <2> DEFINE n == Len(s) - 1
  <2>1. n \in Nat /\ \A i \in 1 .. n : s[i] \in S
    BY <1>1, <1>2
  <2>2. /\ SubSeq(s, 1, n) \in Seq(S)
        /\ Len(SubSeq(s, 1, n)) = IF 1 <= n THEN n - 1 + 1 ELSE 0
        /\ \A i \in 1 .. n - 1 + 1 : SubSeq(s, 1, n)[i] = s[1 + i - 1]
    BY <2>1, SubSeqProperties
  <2>3. Front(s) = SubSeq(s, 1, n)
    BY DEF Front
  <2> HIDE DEF n
  <2>4. /\ Len(SubSeq(s, 1, n)) = n
        /\ \A i \in 1 .. n : SubSeq(s, 1, n)[i] = s[i]
    BY <2>1, <2>2
  <2>5. QED
    BY <2>2, <2>3, <2>4 DEF n
<1>4. QED
  BY <1>1, <1>2, <1>3 DEF Last

\* Another last element.
LEMMA LastReplaced ==
  ASSUME NEW S, NEW s \in Seq(S), s # <<>>, NEW e \in S
  PROVE  LET t == Front(s) \o <<e>>
         IN /\ t \in Seq(S) /\ Len(t) = Len(s)
            /\ t[Len(s)] = e
            /\ \A i \in 1 .. Len(s) - 1 : t[i] = s[i]
<1>1. <<e>> \in Seq(S) /\ Len(<<e>>) = 1 /\ <<e>>[1] = e
  OBVIOUS
<1> DEFINE f == Front(s)
           g == <<e>>
<1>2. /\ f \in Seq(S) /\ Len(f) = Len(s) - 1 /\ Len(s) \in Nat \ {0}
      /\ \A i \in 1 .. Len(s) - 1 : f[i] = s[i]
  BY FrontLast
<1>3. g \in Seq(S) /\ Len(g) = 1 /\ g[1] = e
  BY <1>1
<1> HIDE DEF f, g
<1>4. /\ f \o g \in Seq(S)
      /\ Len(f \o g) = Len(f) + Len(g)
      /\ \A i \in 1 .. Len(f) + Len(g) :
           (f \o g)[i] = IF i <= Len(f) THEN f[i] ELSE g[i - Len(f)]
  BY <1>2, <1>3, ConcatProperties
<1>5. Len(f \o g) = Len(s) /\ (f \o g)[Len(s)] = e
  BY <1>2, <1>3, <1>4
<1>6. \A i \in 1 .. Len(s) - 1 : (f \o g)[i] = s[i]
  BY <1>2, <1>3, <1>4
<1>7. QED
  BY <1>4, <1>5, <1>6 DEF f, g

\* An answer is a sequence of rows.
LEMMA AnswerRows ==
  ASSUME NEW rows \in Answers
  PROVE  rows \in Seq(Rows)
<1>1. rows \in Seq({rows[i] : i \in DOMAIN rows})
  BY AnswersAssumption
<1>2. {rows[i] : i \in DOMAIN rows} \subseteq Rows
  BY DEF Rows
<1>3. QED
  BY <1>1, <1>2, SeqMonotonic

\* What the worker of a query is given is a request, which undefined is not.
LEMMA RequestTyped ==
  ASSUME NEW args \in QueryArgs, NEW pool \in Pools
  PROVE  LET r == [given |-> args, pool |-> pool, params |-> ParamsGiven(args)]
         IN r \in Requests /\ r # None
BY NoneAssumption DEF Requests

\* What a function is run with is a run, which undefined is not.
LEMMA RunTyped ==
  ASSUME NEW a \in FunctionArgs, NEW on \in {"cache", "region"}, NEW target \in Target(on, a)
  PROVE  LET r == [given |-> a, on |-> target, arguments |-> ArgumentsGiven(a),
                   filter |-> Option(a, "filter")]
         IN r \in Runs /\ r # None
<1>1. target \in Pools \cup {"region"}
  BY DEF Target, PoolsFor
<1>2. QED
  BY <1>1, NoneAssumption DEF Runs

\* A query with the documented arguments goes to the pool its options name, or
\* to the default one, with its parameters if it has options, too.
LEMMA DocumentedRequest ==
  ASSUME NEW args \in QueryArgs, NEW pool \in PoolsFor(PoolNamed(args), DefaultPool)
  PROVE  QueryServed([given |-> args, pool |-> pool, params |-> ParamsGiven(args)])
<1> DEFINE r == [given |-> args, pool |-> pool, params |-> ParamsGiven(args)]
<1> SUFFICES ASSUME Documented(args)
             PROVE  LET named == {args[i].pool :
                                    i \in {j \in DOMAIN args : args[j].kind = "object"}}
                                   \ {NoPool}
                        params == {args[i].params :
                                    i \in {j \in DOMAIN args : args[j].kind = "array"}}
                    IN /\ pool \in IF named = {} THEN {DefaultPool} ELSE named
                       /\ {ParamsGiven(args)} \ {None}
                            = IF ParametersAlone(args) THEN {} ELSE params
  <2>1. r.given = args /\ r.pool = pool /\ r.params = ParamsGiven(args)
    OBVIOUS
  <2> HIDE DEF r
  <2>2. QueryServed(r)
    BY <2>1 DEF QueryServed
  <2>3. QED
    BY <2>2 DEF r
<1> DEFINE n == Len(args)
<1>1. args \in Seq({args[i] : i \in DOMAIN args})
  BY QueryArgsAssumption
<1>2. n \in Nat \ {0} /\ DOMAIN args = 1 .. n
  BY <1>1, EmptySeq, LenProperties DEF Documented
<1>3. n \in 1 .. 3 /\ args[n].kind = "function"
  BY <1>2 DEF Documented, Last, Callback
<1>4. n = 2 => args[1].kind \in {"array", "object"}
  BY <1>2 DEF Documented
<1>5. n = 3 => args[1].kind \in {"array", "other"} /\ args[2].kind = "object"
  BY <1>2 DEF Documented
<1>6. CallbackAt(args) = n
  <2> DEFINE At == {i \in 1 .. 3 : i <= Len(args) /\ args[i].kind = "function"}
  <2>1. At = {n}
    <3>1. \A i \in 1 .. 3 : i < n => args[i].kind # "function"
      BY <1>3, <1>4, <1>5
    <3>2. QED
      BY <1>2, <1>3, <3>1
  <2>2. (CHOOSE i \in At : \A j \in At : i <= j) = n
    BY <2>1, <1>2
  <2>3. QED
    BY <2>1, <2>2 DEF CallbackAt
<1>7. PoolNamed(args) = IF n > 1 /\ args[n - 1].kind = "object" THEN args[n - 1].pool
                       ELSE NoPool
  BY <1>3, <1>6 DEF PoolNamed
<1>8. pool = IF PoolNamed(args) = NoPool THEN DefaultPool ELSE PoolNamed(args)
  BY DEF PoolsFor
<1>9. {j \in DOMAIN args : args[j].kind = "object"}
        = IF n > 1 /\ args[n - 1].kind = "object" THEN {n - 1} ELSE {}
  BY <1>2, <1>3, <1>4, <1>5
<1>10. {j \in DOMAIN args : args[j].kind = "array"}
         = IF n > 1 /\ args[1].kind = "array" THEN {1} ELSE {}
  BY <1>2, <1>3, <1>4, <1>5
<1>11. n = 3 /\ args[1].kind = "array" => args[1].params # None
  <2>1. n = 3 => 1 \in DOMAIN args
    BY <1>2
  <2>2. \A i \in DOMAIN args : args[i].kind = "array" => args[i].params # None
    BY QueryArgsAssumption
  <2>3. QED
    BY <2>1, <2>2
<1>12. ParamsGiven(args) = IF n = 3 /\ args[1].kind = "array" THEN args[1].params ELSE None
  BY <1>6 DEF ParamsGiven
<1>13. ParametersAlone(args) <=> n = 2 /\ args[1].kind = "array"
  BY DEF ParametersAlone
<1> DEFINE objects == {j \in DOMAIN args : args[j].kind = "object"}
           arrays == {j \in DOMAIN args : args[j].kind = "array"}
           named == {args[i].pool : i \in objects} \ {NoPool}
           params == {args[i].params : i \in arrays}
<1> HIDE DEF n
<1>14. pool \in IF named = {} THEN {DefaultPool} ELSE named
  BY <1>7, <1>8, <1>9
<1>15. {ParamsGiven(args)} \ {None} = IF ParametersAlone(args) THEN {} ELSE params
  <2>1. CASE n = 1
    BY <1>10, <1>12, <1>13, <2>1
  <2>2. CASE n = 2
    BY <1>10, <1>12, <1>13, <2>2
  <2>3. CASE n = 3
    BY <1>10, <1>11, <1>12, <1>13, <2>3
  <2>4. QED
    BY <1>3, <2>1, <2>2, <2>3
<1>16. QED
  BY <1>14, <1>15

\* A synchronous call with arguments has them in its options, undefined being
\* no "true", and runs on the pool of these or on the region.
LEMMA SynchronousRun ==
  ASSUME NEW a \in FunctionArgs, NEW on \in {"cache", "region"},
         Option(a, "synchronous") = "true", ArgumentsGiven(a) # None,
         NEW target \in Target(on, a)
  PROVE  FunctionServed([given |-> a, on |-> target, arguments |-> ArgumentsGiven(a),
                         filter |-> Option(a, "filter")])
<1>1. a.kind = "object"
  BY NoneAssumption DEF Option
<1>2. ArgumentsGiven(a) = a["arguments"] /\ Option(a, "filter") = a["filter"]
  BY <1>1 DEF ArgumentsGiven, Option
<1>3. a.pool # NoPool => target \in {a.pool, "region"}
  BY <1>1 DEF Target, PoolsFor
<1>4. QED
  BY <1>2, <1>3 DEF FunctionServed

-----------------------------------------------------------------------------
(* Type correctness.                                                       *)

\* The state a process starts in satisfies the inductive invariant.
LEMMA InitInv == Init => Inv
<1> SUFFICES ASSUME Init PROVE Inv
  OBVIOUS
<1>1. TypeOK
  BY EmptySeq, MaxEachAssumption DEF Init, TypeOK
<1>2. FramesConsistent
  BY DEF Init, FramesConsistent
<1>3. ServedAsAsked
  BY DEF Init, ServedAsAsked
<1>4. QED
  BY <1>1, <1>2, <1>3 DEF Inv

\* The part of the type invariant that is about queries.
QueriesTyped ==
  /\ query \in [Queries -> {"none", "thrown", "queued", "executed", "failed",
                            "answered", "refused"}]
  /\ request \in [Queries -> Requests \cup {None}]
  /\ result \in [Queries -> Answers \cup {None}]
  /\ \A q \in Queries :
       /\ (request[q] # None) = (query[q] \in {"queued", "executed", "failed"})
       /\ (result[q] # None) = (query[q] \in {"executed", "answered"})

\* The other part, which no step of a query disturbs.
LEMMA OthersTyped ==
  ASSUME TypeOK, UNCHANGED <<open, eachVars, functionVars>>, QueriesTyped'
  PROVE  TypeOK'
BY DEF TypeOK, QueriesTyped, eachVars, functionVars

\* Queries keep their type: a request is there from the call until the callback,
\* a result from its arrival.
LEMMA QueryTypeOK ==
  ASSUME TypeOK, NEW q \in Queries,
         \/ \E args \in QueryArgs : ExecuteQuery(q, args)
         \/ Execute(q) \/ WorkComplete(q)
  PROVE  TypeOK'
<1>1. ASSUME NEW args \in QueryArgs, ExecuteQuery(q, args)
      PROVE  TypeOK'
  <2>1. CASE query' = [query EXCEPT ![q] = "thrown"] /\ UNCHANGED request
    BY <1>1, <2>1 DEF ExecuteQuery, TypeOK, eachVars, functionVars
  <2>2. CASE /\ query' = [query EXCEPT ![q] = "queued"]
             /\ \E pool \in PoolsFor(PoolNamed(args), DefaultPool) :
                  request' = [request EXCEPT ![q] = [given |-> args, pool |-> pool,
                                                     params |-> ParamsGiven(args)]]
    <3>1. PICK r \in Requests : r # None /\ request' = [request EXCEPT ![q] = r]
      BY <2>2, RequestTyped DEF PoolsFor
    <3>2. QED
      BY <1>1, <2>2, <3>1 DEF ExecuteQuery, TypeOK, eachVars, functionVars
  <2>3. QED
    BY <1>1, <2>1, <2>2 DEF ExecuteQuery
<1>2. CASE Execute(q)
  <2>1. /\ query[q] = "queued" /\ UNCHANGED request
        /\ \/ /\ query' = [query EXCEPT ![q] = "executed"]
              /\ \E rows \in Answers : result' = [result EXCEPT ![q] = rows]
           \/ query' = [query EXCEPT ![q] = "failed"] /\ UNCHANGED result
    BY <1>2 DEF Execute
  <2>2. CASE query' = [query EXCEPT ![q] = "failed"] /\ UNCHANGED result
    <3>1. QueriesTyped'
      BY <2>1, <2>2 DEF TypeOK, QueriesTyped
    <3>2. QED
      BY <1>2, <3>1, OthersTyped DEF Execute, eachVars, functionVars
  <2>3. CASE /\ query' = [query EXCEPT ![q] = "executed"]
             /\ \E rows \in Answers : result' = [result EXCEPT ![q] = rows]
    <3>1. PICK rows \in Answers : result' = [result EXCEPT ![q] = rows]
      BY <2>3
    <3>2. rows # None
      BY NoneAssumption
    <3>3. QueriesTyped'
      BY <2>1, <2>3, <3>1, <3>2 DEF TypeOK, QueriesTyped
    <3>4. QED
      BY <1>2, <3>3, OthersTyped DEF Execute, eachVars, functionVars
  <2>4. QED
    BY <2>1, <2>2, <2>3
<1>3. CASE WorkComplete(q)
  <2>1. /\ request' = [request EXCEPT ![q] = None] /\ UNCHANGED result
        /\ \/ query[q] = "executed" /\ query' = [query EXCEPT ![q] = "answered"]
           \/ query[q] = "failed" /\ query' = [query EXCEPT ![q] = "refused"]
    BY <1>3 DEF WorkComplete, HandleOK, HandleError
  <2>2. QueriesTyped'
    BY <2>1 DEF TypeOK, QueriesTyped
  <2>3. QED
    BY <1>3, <2>2, OthersTyped DEF WorkComplete, eachVars, functionVars
<1>4. QED
  BY <1>1, <1>2, <1>3

\* Calls of executeFunction() keep their type.
LEMMA FunctionTypeOK ==
  ASSUME TypeOK, NEW f \in Functions,
         \/ \E on \in {"cache", "region"}, a \in FunctionArgs : ExecuteFunction(f, on, a)
         \/ FunctionReturns(f)
  PROVE  TypeOK'
<1>1. ASSUME NEW on \in {"cache", "region"}, NEW a \in FunctionArgs, ExecuteFunction(f, on, a)
      PROVE  TypeOK'
  <2>1. /\ \E state \in {"thrown", "started", "waiting", "returned"} :
             function' = [function EXCEPT ![f] = state]
        /\ ran' = ran \/ \E r \in Runs : ran' = [ran EXCEPT ![f] = r]
    BY <1>1, RunTyped DEF ExecuteFunction, NothingToExecute
  <2>2. QED
    BY <1>1, <2>1 DEF ExecuteFunction, TypeOK, queryVars, eachVars
<1>2. CASE FunctionReturns(f)
  BY <1>2 DEF FunctionReturns, TypeOK, queryVars, eachVars
<1>3. QED
  BY <1>1, <1>2

\* A call of each() on results, as the other steps leave it: where it was.
GoodFrame(f) ==
  LET rows == result[f.of]
  IN /\ query[f.of] = "answered"
     /\ f.next \in 1 .. Len(rows) + 1
     /\ f.heard = SubSeq(rows, 1, f.next - 1)

\* A new call starts at the first row.
LEMMA NewFrameGood ==
  ASSUME TypeOK, NEW q \in Queries, Each(q)
  PROVE  GetIterator(q) \in FrameSet /\ GoodFrame(GetIterator(q))
<1> DEFINE f == GetIterator(q)
<1>1. f = [of |-> q, next |-> 1, heard |-> <<>>]
  BY DEF GetIterator, Frame
<1>2. f \in FrameSet
  BY <1>1, EmptySeq DEF FrameSet
<1>3. query[q] = "answered"
  BY DEF Each
<1>4. Len(result[q]) \in Nat
  BY <1>3, AnswerRows, LenProperties DEF TypeOK
<1>5. <<>> = SubSeq(result[q], 1, 0)
  BY SubSeqEmpty
<1>6. QED
  BY <1>1, <1>2, <1>3, <1>4, <1>5 DEF GoodFrame

\* What the handler of the innermost call of each() is called with is a row.
LEMMA NextRow ==
  ASSUME TypeOK, FramesConsistent, HasNext
  PROVE  LET f == Last(frames)
         IN /\ f \in FrameSet /\ query[f.of] = "answered" /\ result[f.of] \in Seq(Rows)
            /\ f.next \in 1 .. Len(result[f.of])
            /\ result[f.of][f.next] \in Rows
            /\ f.heard = SubSeq(result[f.of], 1, f.next - 1)
<1> DEFINE f == Last(frames)
           rows == result[f.of]
<1>1. frames \in Seq(FrameSet) /\ frames # <<>>
  BY DEF TypeOK, FrameSet, HasNext
<1>2. f \in FrameSet /\ f = frames[Len(frames)] /\ Len(frames) \in DOMAIN frames
  BY <1>1, FrontLast, LenProperties
<1>3. /\ query[f.of] = "answered"
      /\ f.next \in 1 .. Len(rows) + 1
      /\ f.heard = SubSeq(rows, 1, f.next - 1)
  BY <1>2 DEF FramesConsistent
<1>4. rows \in Answers
  BY <1>2, <1>3 DEF TypeOK, FrameSet
<1>5. rows \in Seq(Rows) /\ Len(rows) \in Nat
  BY <1>4, AnswerRows, LenProperties
<1>6. f.next \in 1 .. Len(rows)
  BY <1>2, <1>3, <1>5 DEF HasNext, FrameSet
<1>7. QED
  BY <1>2, <1>3, <1>5, <1>6, ElementOfSeq

\* A call whose handler has been called has been through one more row.
LEMMA NextFrameGood ==
  ASSUME TypeOK, FramesConsistent, HasNext
  PROVE  LET f == Last(frames)
             e == [f EXCEPT !.next = @ + 1, !.heard = Append(@, result[f.of][f.next])]
         IN e \in FrameSet /\ GoodFrame(e)
<1> DEFINE f == Last(frames)
           rows == result[f.of]
           n == f.next
           e == [f EXCEPT !.next = @ + 1, !.heard = Append(@, rows[n])]
<1>1. /\ f \in FrameSet /\ rows \in Seq(Rows) /\ n \in 1 .. Len(rows)
      /\ rows[n] \in Rows /\ f.heard = SubSeq(rows, 1, n - 1)
      /\ query[f.of] = "answered"
  BY NextRow
<1>2. Len(rows) \in Nat /\ n \in Nat
  BY <1>1, LenProperties
<1>3. e.of = f.of /\ e.next = n + 1 /\ e.heard = Append(f.heard, rows[n])
  BY <1>1 DEF FrameSet
<1>4. f.heard \in Seq(Rows)
  BY <1>1 DEF FrameSet
<1>5. Append(f.heard, rows[n]) \in Seq(Rows)
  BY <1>1, <1>4, AppendProperties
<1>6. Append(f.heard, rows[n]) = SubSeq(rows, 1, n)
  <2>1. Append(f.heard, rows[n]) = f.heard \o <<rows[n]>>
    BY <1>1, <1>4, AppendIsConcat
  <2>2. SubSeq(rows, 1, n) = SubSeq(rows, 1, n - 1) \o <<rows[n]>>
    <3>1. 1 \in 1 .. Len(rows) /\ n \in 1 .. Len(rows)
      BY <1>1, <1>2
    <3>2. QED
      BY <1>1, <3>1, SubSeqRecursiveSecond
  <2>3. QED
    BY <1>1, <2>1, <2>2
<1>7. e \in FrameSet
  <2>1. e = [f EXCEPT !.next = n + 1, !.heard = Append(f.heard, rows[n])]
    BY <1>1 DEF FrameSet
  <2>2. n + 1 \in Nat
    BY <1>2
  <2> HIDE DEF e, rows, n
  <2>3. QED
    BY <1>1, <1>5, <2>1, <2>2 DEF FrameSet
<1>8. GoodFrame(e)
  <2>1. e.next \in 1 .. Len(rows) + 1 /\ e.next - 1 = n
    BY <1>1, <1>2, <1>3
  <2>2. e.heard = SubSeq(result[e.of], 1, e.next - 1)
    BY <1>3, <1>6, <2>1
  <2> HIDE DEF e
  <2>3. QED
    BY <1>1, <1>3, <2>1, <2>2 DEF GoodFrame
<1>9. QED
  BY <1>7, <1>8

\* Calls of each() keep their type.
LEMMA EachTypeOK ==
  ASSUME TypeOK, FramesConsistent,
         (\E q \in Queries : Each(q)) \/ CallHandler \/ EachReturns
  PROVE  TypeOK'
<1>1. frames \in Seq(FrameSet)
  BY DEF TypeOK, FrameSet
<1>2. ASSUME NEW q \in Queries, Each(q)
      PROVE  TypeOK'
  <2>1. GetIterator(q) \in FrameSet
    BY <1>2, NewFrameGood
  <2>2. frames' \in Seq(FrameSet)
    BY <1>1, <1>2, <2>1, AppendProperties DEF Each
  <2>3. eachCalls' \in 0 .. MaxEach
    BY <1>2, MaxEachAssumption DEF Each, TypeOK
  <2>4. QED
    BY <1>2, <2>2, <2>3 DEF Each, TypeOK, FrameSet, queryVars, functionVars
<1>3. CASE CallHandler
  <2> DEFINE f == Last(frames)
             e == [f EXCEPT !.next = @ + 1, !.heard = Append(@, result[f.of][f.next])]
  <2>1. e \in FrameSet
    BY <1>3, NextFrameGood DEF CallHandler
  <2>2. frames' = Front(frames) \o <<e>> /\ frames # <<>>
    BY <1>3 DEF CallHandler, HasNext
  <2> HIDE DEF e
  <2>3. frames' \in Seq(FrameSet)
    BY <1>1, <2>1, <2>2, LastReplaced
  <2>4. QED
    BY <1>3, <2>3 DEF CallHandler, TypeOK, FrameSet, queryVars, functionVars
<1>4. CASE EachReturns
  <2>1. frames' \in Seq(FrameSet)
    BY <1>1, <1>4, FrontLast DEF EachReturns
  <2>2. QED
    BY <1>4, <2>1 DEF EachReturns, TypeOK, FrameSet, queryVars, functionVars
<1>5. QED
  BY <1>2, <1>3, <1>4

\* Every step keeps the types.
LEMMA NextTypeOK ==
  ASSUME TypeOK, FramesConsistent, [Next]_vars
  PROVE  TypeOK'
<1>1. CASE Close
  BY <1>1 DEF Close, TypeOK, queryVars, eachVars, functionVars
<1>2. CASE UNCHANGED vars
  BY <1>2 DEF TypeOK, vars, queryVars, eachVars, functionVars
<1>3. QED
  BY <1>1, <1>2, QueryTypeOK, FunctionTypeOK, EachTypeOK DEF Next, Done

-----------------------------------------------------------------------------
(* Calls of each().                                                        *)

\* What has been answered stays answered, with the same rows.
LEMMA AnsweredStays ==
  ASSUME TypeOK, [Next]_vars, NEW q \in Queries, query[q] = "answered"
  PROVE  query'[q] = "answered" /\ result'[q] = result[q]
<1>1. ASSUME NEW p \in Queries, NEW args \in QueryArgs, ExecuteQuery(p, args)
      PROVE  query'[q] = "answered" /\ result'[q] = result[q]
  <2>1. /\ query[p] = "none" /\ UNCHANGED result
        /\ \E state \in {"thrown", "queued"} : query' = [query EXCEPT ![p] = state]
    BY <1>1 DEF ExecuteQuery
  <2>2. QED
    BY <2>1 DEF TypeOK
<1>2. ASSUME NEW p \in Queries, Execute(p)
      PROVE  query'[q] = "answered" /\ result'[q] = result[q]
  BY <1>2 DEF Execute, TypeOK
<1>3. ASSUME NEW p \in Queries, WorkComplete(p)
      PROVE  query'[q] = "answered" /\ result'[q] = result[q]
  BY <1>3 DEF WorkComplete, HandleOK, HandleError, TypeOK
<1>4. CASE UNCHANGED queryVars
  BY <1>4 DEF queryVars
<1>5. ASSUME NEW p \in Queries, Each(p)
      PROVE  UNCHANGED queryVars
  BY <1>5 DEF Each
<1>6. CASE CallHandler \/ EachReturns \/ Close \/ Done \/ UNCHANGED vars
  BY <1>6 DEF CallHandler, EachReturns, Close, Done, vars, queryVars
<1>7. ASSUME NEW f \in Functions,
             \/ \E on \in {"cache", "region"}, a \in FunctionArgs : ExecuteFunction(f, on, a)
             \/ FunctionReturns(f)
      PROVE  UNCHANGED queryVars
  BY <1>7 DEF ExecuteFunction, FunctionReturns
<1>8. QED
  BY <1>1, <1>2, <1>3, <1>4, <1>5, <1>6, <1>7 DEF Next

\* Only each() changes the calls of each().
LEMMA FramesStay ==
  ASSUME [Next]_vars, ~(\E q \in Queries : Each(q)), ~CallHandler, ~EachReturns
  PROVE  UNCHANGED frames
<1>1. ASSUME NEW q \in Queries,
             \/ \E args \in QueryArgs : ExecuteQuery(q, args)
             \/ Execute(q) \/ WorkComplete(q)
      PROVE  UNCHANGED eachVars
  BY <1>1 DEF ExecuteQuery, Execute, WorkComplete
<1>2. ASSUME NEW f \in Functions,
             \/ \E on \in {"cache", "region"}, a \in FunctionArgs : ExecuteFunction(f, on, a)
             \/ FunctionReturns(f)
      PROVE  UNCHANGED eachVars
  BY <1>2 DEF ExecuteFunction, FunctionReturns
<1>3. CASE Close \/ Done \/ UNCHANGED vars
  BY <1>3 DEF Close, Done, vars, eachVars
<1>4. QED
  BY <1>1, <1>2, <1>3 DEF Next, eachVars

\* Whatever is called in the handlers, each call has been through its own
\* results up to its own iterator.
LEMMA NextFramesConsistent ==
  ASSUME TypeOK, FramesConsistent, [Next]_vars
  PROVE  FramesConsistent'
<1>1. frames \in Seq(FrameSet) /\ frames' \in Seq(FrameSet)
  BY NextTypeOK DEF TypeOK, FrameSet
<1>2. /\ DOMAIN frames = 1 .. Len(frames) /\ Len(frames) \in Nat
      /\ DOMAIN frames' = 1 .. Len(frames')
  BY <1>1, LenProperties
<1>3. \A i \in DOMAIN frames : frames[i] \in FrameSet /\ GoodFrame(frames[i])
  BY <1>1, <1>2, ElementOfSeq DEF FramesConsistent, GoodFrame
<1>4. \A i \in DOMAIN frames : GoodFrame(frames[i])'
         \/ frames'[i] # frames[i]
  <2> SUFFICES ASSUME NEW i \in DOMAIN frames, frames'[i] = frames[i]
               PROVE  GoodFrame(frames[i])'
    OBVIOUS
  <2> DEFINE f == frames[i]
  <2>1. f \in FrameSet /\ GoodFrame(f)
    BY <1>3
  <2>2. QED
    BY <2>1, AnsweredStays DEF GoodFrame, FrameSet
<1> SUFFICES ASSUME NEW i \in DOMAIN frames' PROVE GoodFrame(frames[i])'
  BY DEF FramesConsistent, GoodFrame
<1>5. ASSUME NEW q \in Queries, Each(q)
      PROVE  GoodFrame(frames[i])'
  <2>1. GetIterator(q) \in FrameSet /\ GoodFrame(GetIterator(q))
    BY <1>5, NewFrameGood
  <2>2. UNCHANGED <<query, result>>
    BY <1>5 DEF Each, queryVars
  <2>3. /\ Len(frames') = Len(frames) + 1
        /\ \A j \in 1 .. Len(frames) : frames'[j] = frames[j]
        /\ frames'[Len(frames) + 1] = GetIterator(q)
    BY <1>1, <1>5, <2>1, AppendProperties DEF Each
  <2>4. CASE i = Len(frames) + 1
    BY <2>1, <2>2, <2>3, <2>4 DEF GoodFrame
  <2>5. CASE i \in DOMAIN frames
    BY <1>2, <1>4, <2>3, <2>5
  <2>6. QED
    BY <1>2, <2>3, <2>4, <2>5
<1>6. CASE CallHandler
  <2> DEFINE f == Last(frames)
             e == [f EXCEPT !.next = @ + 1, !.heard = Append(@, result[f.of][f.next])]
  <2>1. e \in FrameSet /\ GoodFrame(e)
    BY <1>6, NextFrameGood DEF CallHandler
  <2>2. frames' = Front(frames) \o <<e>> /\ frames # <<>> /\ UNCHANGED <<query, result>>
    BY <1>6 DEF CallHandler, HasNext, queryVars
  <2> HIDE DEF e
  <2>3. /\ Len(frames') = Len(frames) /\ frames'[Len(frames)] = e
        /\ \A j \in 1 .. Len(frames) - 1 : frames'[j] = frames[j]
    BY <1>1, <2>1, <2>2, LastReplaced
  <2>4. CASE i = Len(frames)
    BY <2>1, <2>2, <2>3, <2>4 DEF GoodFrame
  <2>5. CASE i # Len(frames)
    BY <1>2, <1>4, <2>3, <2>5
  <2>6. QED
    BY <2>4, <2>5
<1>7. CASE EachReturns
  <2>1. frames' = Front(frames) /\ frames # <<>>
    BY <1>7 DEF EachReturns
  <2>2. /\ Len(frames') = Len(frames) - 1
        /\ \A j \in 1 .. Len(frames) - 1 : frames'[j] = frames[j]
    BY <1>1, <2>1, FrontLast
  <2>3. QED
    BY <1>2, <1>4, <2>2
<1>8. CASE UNCHANGED frames
  BY <1>4, <1>8
<1>9. QED
  BY <1>5, <1>6, <1>7, <1>8, FramesStay

\* Only each() takes a call away, and only when there is no row left for it.
LEMMA NextEachHearsAll ==
  ASSUME TypeOK, FramesConsistent, [Next]_vars, Len(frames') < Len(frames)
  PROVE  Last(frames).heard = ToArray(Last(frames).of)
<1>1. frames \in Seq(FrameSet) /\ Len(frames) \in Nat
  BY LenProperties DEF TypeOK, FrameSet
<1>2. ASSUME NEW q \in Queries, Each(q)
      PROVE  FALSE
  <2>1. GetIterator(q) \in FrameSet
    BY <1>2, NewFrameGood
  <2>2. Len(frames') = Len(frames) + 1
    BY <1>1, <1>2, <2>1, AppendProperties DEF Each
  <2>3. QED
    BY <1>1, <2>2
<1>3. ASSUME CallHandler
      PROVE  FALSE
  <2> DEFINE f == Last(frames)
             e == [f EXCEPT !.next = @ + 1, !.heard = Append(@, result[f.of][f.next])]
  <2>1. e \in FrameSet
    BY <1>3, NextFrameGood DEF CallHandler
  <2>2. frames' = Front(frames) \o <<e>> /\ frames # <<>>
    BY <1>3 DEF CallHandler, HasNext
  <2> HIDE DEF e
  <2>3. Len(frames') = Len(frames)
    BY <1>1, <2>1, <2>2, LastReplaced
  <2>4. QED
    BY <1>1, <2>3
<1>4. EachReturns
  BY <1>1, <1>2, <1>3, FramesStay
<1> DEFINE f == Last(frames)
           rows == result[f.of]
<1>5. frames # <<>> /\ ~HasNext
  BY <1>4 DEF EachReturns
<1>6. f \in FrameSet /\ f = frames[Len(frames)] /\ Len(frames) \in DOMAIN frames
  BY <1>1, <1>5, FrontLast, LenProperties
<1>7. query[f.of] = "answered" /\ f.next \in 1 .. Len(rows) + 1
      /\ f.heard = SubSeq(rows, 1, f.next - 1)
  BY <1>6 DEF FramesConsistent
<1>8. rows \in Seq(Rows) /\ Len(rows) \in Nat
  BY <1>6, <1>7, AnswerRows, LenProperties DEF TypeOK, FrameSet
<1>9. f.next - 1 = Len(rows)
  BY <1>5, <1>6, <1>7, <1>8 DEF HasNext, FrameSet
<1>10. f.heard = rows
  BY <1>7, <1>8, <1>9, SubSeqFull
<1>11. QED
  BY <1>10 DEF ToArray

-----------------------------------------------------------------------------
(* What servers are asked.                                                 *)

\* A query is asked when it is accepted, and nothing changes its request before
\* its callback.
LEMMA NextQueriesServed ==
  ASSUME TypeOK, ServedAsAsked, [Next]_vars
  PROVE  \A q \in Queries : request'[q] # None => QueryServed(request'[q])
<1>1. ASSUME NEW p \in Queries, NEW args \in QueryArgs, ExecuteQuery(p, args)
      PROVE  \A q \in Queries : request'[q] # None => QueryServed(request'[q])
  <2>1. CASE UNCHANGED request
    BY <2>1 DEF ServedAsAsked
  <2>2. CASE \E pool \in PoolsFor(PoolNamed(args), DefaultPool) :
               request' = [request EXCEPT ![p] = [given |-> args, pool |-> pool,
                                                  params |-> ParamsGiven(args)]]
    <3>1. PICK r : QueryServed(r) /\ request' = [request EXCEPT ![p] = r]
      BY <2>2, DocumentedRequest
    <3>2. \A q \in Queries : request'[q] = IF q = p THEN r ELSE request[q]
      BY <3>1 DEF TypeOK
    <3>3. QED
      BY <3>1, <3>2 DEF ServedAsAsked
  <2>3. QED
    BY <1>1, <2>1, <2>2 DEF ExecuteQuery
<1>2. ASSUME NEW p \in Queries, WorkComplete(p)
      PROVE  \A q \in Queries : request'[q] # None => QueryServed(request'[q])
  <2>1. \A q \in Queries : request'[q] = IF q = p THEN None ELSE request[q]
    BY <1>2 DEF WorkComplete, TypeOK
  <2>2. QED
    BY <2>1 DEF ServedAsAsked
<1>3. CASE UNCHANGED request
  BY <1>3 DEF ServedAsAsked
<1>4. ASSUME NEW p \in Queries, Execute(p) \/ Each(p)
      PROVE  UNCHANGED request
  BY <1>4 DEF Execute, Each, queryVars
<1>5. ASSUME NEW f \in Functions,
             \/ \E on \in {"cache", "region"}, a \in FunctionArgs : ExecuteFunction(f, on, a)
             \/ FunctionReturns(f)
      PROVE  UNCHANGED request
  BY <1>5 DEF ExecuteFunction, FunctionReturns, queryVars
<1>6. CASE CallHandler \/ EachReturns \/ Close \/ Done \/ UNCHANGED vars
  BY <1>6, <1>3 DEF CallHandler, EachReturns, Close, Done, vars, queryVars
<1>7. QED
  BY <1>1, <1>2, <1>3, <1>4, <1>5, <1>6 DEF Next

\* A function is run once, by the call that waits for it.
LEMMA NextFunctionsServed ==
  ASSUME TypeOK, ServedAsAsked, [Next]_vars
  PROVE  \A g \in Functions : ran'[g] # None => FunctionServed(ran'[g])
<1>1. ASSUME NEW f \in Functions, NEW on \in {"cache", "region"}, NEW a \in FunctionArgs,
             ExecuteFunction(f, on, a)
      PROVE  \A g \in Functions : ran'[g] # None => FunctionServed(ran'[g])
  <2>1. CASE UNCHANGED ran
    BY <2>1 DEF ServedAsAsked
  <2>2. CASE /\ Option(a, "synchronous") = "true" /\ ArgumentsGiven(a) # None
             /\ \E target \in Target(on, a) :
                  ran' = [ran EXCEPT ![f] = [given |-> a, on |-> target,
                                             arguments |-> ArgumentsGiven(a),
                                             filter |-> Option(a, "filter")]]
    <3>1. PICK r : FunctionServed(r) /\ ran' = [ran EXCEPT ![f] = r]
      BY <2>2, SynchronousRun
    <3>2. \A g \in Functions : ran'[g] = IF g = f THEN r ELSE ran[g]
      BY <3>1 DEF TypeOK
    <3>3. QED
      BY <3>1, <3>2 DEF ServedAsAsked
  <2>3. QED
    BY <1>1, <2>1, <2>2 DEF ExecuteFunction, NothingToExecute
<1>2. CASE UNCHANGED ran
  BY <1>2 DEF ServedAsAsked
<1>3. ASSUME NEW q \in Queries,
             \/ \E args \in QueryArgs : ExecuteQuery(q, args)
             \/ Execute(q) \/ WorkComplete(q) \/ Each(q)
      PROVE  UNCHANGED ran
  BY <1>3 DEF ExecuteQuery, Execute, WorkComplete, Each, functionVars
<1>4. ASSUME NEW f \in Functions, FunctionReturns(f)
      PROVE  UNCHANGED ran
  BY <1>4 DEF FunctionReturns
<1>5. CASE CallHandler \/ EachReturns \/ Close \/ Done \/ UNCHANGED vars
  BY <1>2, <1>5 DEF CallHandler, EachReturns, Close, Done, vars, functionVars
<1>6. QED
  BY <1>1, <1>2, <1>3, <1>4, <1>5 DEF Next

-----------------------------------------------------------------------------
(* The theorems.                                                           *)

\* The inductive invariant holds in every state the calls of the program, the
\* pool threads, the loop and the servers lead to.
THEOREM CallsInvariant == Spec => []Inv
<1>1. Inv /\ [Next]_vars => Inv'
  <2> SUFFICES ASSUME Inv, [Next]_vars PROVE Inv'
    OBVIOUS
  <2>1. ServedAsAsked'
    BY NextQueriesServed, NextFunctionsServed DEF Inv, ServedAsAsked
  <2>2. QED
    BY <2>1, NextTypeOK, NextFramesConsistent DEF Inv
<1>2. QED
  BY InitInv, <1>1, PTL DEF Spec

\* Every variable has its type: a worker asks only pools that exist, and there
\* is a result exactly from the worker's answer on.
THEOREM CallsTyped == Spec => []TypeOK
<1>1. Inv => TypeOK
  BY DEF Inv
<1>2. QED
  BY CallsInvariant, <1>1, PTL

\* For every documented form of the arguments, with or without parameters and
\* options: a server is asked what the program asked for, except that parameters
\* without options are lost; and a synchronous function runs where and with what
\* the program asked.
THEOREM ServersGetWhatIsAsked == Spec => []ServedAsAsked
<1>1. Inv => ServedAsAsked
  BY DEF Inv
<1>2. QED
  BY CallsInvariant, <1>1, PTL

\* Calls of each(), one in the handler of the other and any number of them, go
\* through the rows of their own results, whole and in order.
THEOREM EachIsComplete == Spec => EachHearsAll
<1>1. Inv /\ [Next]_vars =>
        [Len(frames') < Len(frames) => Last(frames).heard = ToArray(Last(frames).of)]_vars
  BY NextEachHearsAll DEF Inv
<1>2. QED
  BY CallsInvariant, <1>1, PTL DEF Spec, EachHearsAll
===============================================================================
