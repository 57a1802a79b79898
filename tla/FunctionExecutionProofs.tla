------------------------ MODULE FunctionExecutionProofs ------------------------
(***************************************************************************)
(* Proofs about FunctionExecution for any set of calls, feeders and        *)
(* results, any pool size and any bound on the results of a call.          *)
(***************************************************************************)
EXTENDS FunctionExecution, TLAPS, SequenceTheorems

-----------------------------------------------------------------------------
(* Type correctness.                                                       *)

\* Every control step of the pool thread leaves the state well typed.
LEMMA ExecStepTypeOK ==
  ASSUME TypeOK, NEW c \in Calls, NEW from, NEW to \in ExecPcs,
         ExecStep(c, from, to)
  PROVE  TypeOK'
BY DEF TypeOK, ExecStep, streamVars, loopVars, flagVars, historyVars

\* teardownIfReady() leaves what it may change well typed.
LEMMA TeardownTypeOK ==
  ASSUME TypeOK, NEW c \in Calls, TeardownIfReady(c)
  PROVE  /\ freed' \subseteq Calls
         /\ resultsAsync' \subseteq Calls
         /\ results' \in [Calls -> Seq(Results)]
<1>1. CASE c \in ended' /\ c \in executeCompleted'
  <2>1. /\ freed' = freed \cup {c}
        /\ resultsAsync' = resultsAsync \ {c}
        /\ results' = [results EXCEPT ![c] = <<>>]
    BY <1>1 DEF TeardownIfReady
  <2>2. results' \in [Calls -> Seq(Results)]
    BY <2>1 DEF TypeOK
  <2>3. QED
    BY <2>1, <2>2 DEF TypeOK
<1>2. CASE ~(c \in ended' /\ c \in executeCompleted')
  BY <1>2 DEF TypeOK, TeardownIfReady
<1>3. QED
  BY <1>1, <1>2

\* The initial state is well typed.
LEMMA InitTypeOK == Init => TypeOK
BY DEF Init, TypeOK, ExecPcs

\* Every step of every thread leaves the state well typed.
LEMMA NextTypeOK == TypeOK /\ [Next]_vars => TypeOK'
<1> SUFFICES ASSUME TypeOK, [Next]_vars PROVE TypeOK'
  OBVIOUS
<1> USE DEF streamVars, loopVars, flagVars, historyVars
<1>1. CASE StartWork
  <2>1. Head(workQueue) \in Calls /\ Tail(workQueue) \in Seq(Calls)
    BY <1>1, HeadTailProperties DEF TypeOK, StartWork
  <2>2. QED
    BY <1>1, <2>1 DEF TypeOK, StartWork, ExecPcs
<1>2. CASE UNCHANGED vars
  BY <1>2 DEF TypeOK, vars
<1>3. ASSUME NEW c \in Calls, ExecuteFunction(c) PROVE TypeOK'
  BY <1>3 DEF TypeOK, ExecuteFunction, ExecPcs
<1>4. ASSUME NEW c \in Calls, PoolThread(c) \/ SpuriousWakeup(c) PROVE TypeOK'
  <2>1. CASE EndSend(c)
    BY <2>1 DEF TypeOK, EndSend, ExecPcs
  <2>2. CASE ExecThrow(c)
    BY <2>2 DEF TypeOK, ExecThrow, ExecPcs
  <2>3. ASSUME NEW from, NEW to \in ExecPcs, ExecStep(c, from, to) PROVE TypeOK'
    BY <2>3, ExecStepTypeOK
  <2>4. QED
    BY <1>4, <2>1, <2>2, <2>3
    DEF PoolThread, SpuriousWakeup, EndEnter, EndSizeIsZero,
        EndSizeIsPositive, EndWait, EndReacquire, ExecReturn, ExecPcs
<1>5. ASSUME NEW c \in Calls, NEW f \in Feeders, Feeder(c, f) PROVE TypeOK'
  <2>1. CASE AddSend(c, f)
    BY <2>1 DEF TypeOK, AddSend
  <2>2. ASSUME NEW r \in Results, AddPush(c, f, r) PROVE TypeOK'
    BY <2>2 DEF TypeOK, AddPush
  <2>3. QED
    BY <1>5, <2>1, <2>2 DEF Feeder
<1>6. ASSUME NEW c \in Calls, Loop(c) PROVE TypeOK'
  <2>1. CASE DataAsync(c)
    BY <2>1 DEF TypeOK, DataAsync
  <2>2. CASE NextResults(c)
    BY <2>2 DEF TypeOK, NextResults
  <2>3. CASE EmitResult(c)
    <3>1. Head(batch) \in Results /\ Tail(batch) \in Seq(Results)
      BY <2>3, HeadTailProperties DEF TypeOK, EmitResult
    <3>2. QED
      BY <2>3, <3>1 DEF TypeOK, EmitResult
  <2>4. CASE ResultsProcessed(c)
    BY <2>4 DEF TypeOK, ResultsProcessed, ExecPcs
  <2>5. CASE EndAsync(c)
    BY <2>5, TeardownTypeOK DEF TypeOK, EndAsync
  <2>6. CASE ExecuteComplete(c)
    BY <2>6, TeardownTypeOK DEF TypeOK, ExecuteComplete
  <2>7. QED
    BY <1>6, <2>1, <2>2, <2>3, <2>4, <2>5, <2>6 DEF Loop
<1>7. QED
  BY <1>1, <1>2, <1>3, <1>4, <1>5, <1>6 DEF Next, Terminated

\* Every state variable keeps its type in every reachable state.
THEOREM TypeCorrect == Spec => []TypeOK
BY InitTypeOK, NextTypeOK, PTL DEF Spec

-----------------------------------------------------------------------------
(* The work queue.                                                         *)

\* Only executeFunction() and a pool thread taking work touch the queue, and
\* no other step moves a queued call.
LEMMA QueueFrame ==
  ASSUME TypeOK, NEW c \in Calls,
         \/ PoolThread(c) \/ SpuriousWakeup(c) \/ Loop(c)
         \/ \E f \in Feeders : Feeder(c, f)
  PROVE  /\ workQueue' = workQueue
         /\ \A d \in Calls : execPc[d] = "queued" => execPc'[d] = "queued"
<1>1. CASE PoolThread(c) \/ SpuriousWakeup(c)
  BY <1>1 DEF TypeOK, PoolThread, SpuriousWakeup, EndEnter, EndSizeIsZero,
     EndSizeIsPositive, EndWait, EndReacquire, EndSend, ExecReturn, ExecThrow,
     ExecStep
<1>2. CASE Loop(c)
  BY <1>2 DEF TypeOK, Loop, DataAsync, NextResults, EmitResult,
     ResultsProcessed, EndAsync, ExecuteComplete
<1>3. CASE \E f \in Feeders : Feeder(c, f)
  BY <1>3 DEF Feeder, AddPush, AddSend
<1>4. QED
  BY <1>1, <1>2, <1>3

\* The queue holds each waiting request once.
LEMMA QueueInductive ==
  TypeOK /\ QueueConsistent /\ [Next]_vars => QueueConsistent'
<1> SUFFICES ASSUME TypeOK, QueueConsistent, [Next]_vars PROVE QueueConsistent'
  OBVIOUS
<1>0. \A i \in 1..Len(workQueue) : workQueue[i] \in Calls
  BY ElementOfSeq DEF TypeOK
<1>1. CASE StartWork
  <2>1. workQueue \in Seq(Calls) /\ workQueue # <<>>
        /\ workQueue' = Tail(workQueue)
        /\ execPc' = [execPc EXCEPT ![Head(workQueue)] = "feeding"]
    BY <1>1 DEF TypeOK, StartWork
  <2>2. /\ Len(workQueue) \in Nat \ {0}
        /\ Len(workQueue') = Len(workQueue) - 1
        /\ \A i \in 1..Len(workQueue') : workQueue'[i] = workQueue[i + 1]
        /\ Head(workQueue) = workQueue[1]
    BY <2>1, HeadTailProperties, EmptySeq
  <2>3. \A i \in 1..Len(workQueue') : i + 1 \in 1..Len(workQueue) /\ i + 1 # 1
    BY <2>2
  <2>4. ASSUME NEW i \in 1..Len(workQueue')
        PROVE  execPc'[workQueue'[i]] = "queued"
    <3>1. workQueue'[i] = workQueue[i + 1] /\ workQueue[i + 1] # Head(workQueue)
      BY <2>2, <2>3 DEF QueueConsistent
    <3>2. workQueue[i + 1] \in Calls /\ execPc[workQueue[i + 1]] = "queued"
      BY <2>3, <1>0 DEF QueueConsistent
    <3>3. QED
      BY <2>1, <3>1, <3>2 DEF TypeOK
  <2>5. ASSUME NEW i \in 1..Len(workQueue'), NEW j \in 1..Len(workQueue'),
               workQueue'[i] = workQueue'[j]
        PROVE  i = j
    <3>1. i \in Int /\ j \in Int /\ i + 1 = j + 1
      BY <2>2, <2>3, <2>5 DEF QueueConsistent
    <3>2. QED
      BY <3>1
  <2>6. QED
    BY <2>4, <2>5 DEF QueueConsistent
<1>2. CASE UNCHANGED vars
  BY <1>2 DEF QueueConsistent, vars
<1>3. ASSUME NEW c \in Calls, ExecuteFunction(c) PROVE QueueConsistent'
  <2>1. /\ workQueue \in Seq(Calls)
        /\ workQueue' = Append(workQueue, c)
        /\ execPc[c] = "none"
        /\ execPc' = [execPc EXCEPT ![c] = "queued"]
    BY <1>3 DEF TypeOK, ExecuteFunction
  <2>2. /\ Len(workQueue) \in Nat
        /\ Len(workQueue') = Len(workQueue) + 1
        /\ \A i \in 1..Len(workQueue) : workQueue'[i] = workQueue[i]
        /\ workQueue'[Len(workQueue) + 1] = c
    BY <2>1, AppendProperties, LenProperties
  <2>3. \A i \in 1..Len(workQueue) : workQueue[i] # c
    BY <2>1 DEF QueueConsistent
  <2>4. \A i \in 1..Len(workQueue') :
          i \in 1..Len(workQueue) \/ i = Len(workQueue) + 1
    BY <2>2
  <2>5. \A i \in 1..Len(workQueue') : execPc'[workQueue'[i]] = "queued"
    BY <2>1, <2>2, <2>3, <2>4, <1>0 DEF QueueConsistent, TypeOK
  <2>6. \A i, j \in 1..Len(workQueue') :
          workQueue'[i] = workQueue'[j] => i = j
    BY <2>2, <2>3, <2>4 DEF QueueConsistent
  <2>7. QED
    BY <2>5, <2>6 DEF QueueConsistent
<1>4. ASSUME NEW c \in Calls,
             \/ PoolThread(c) \/ SpuriousWakeup(c) \/ Loop(c)
             \/ \E f \in Feeders : Feeder(c, f)
      PROVE  QueueConsistent'
  BY <1>0, <1>4, QueueFrame DEF QueueConsistent
<1>5. QED
  BY <1>1, <1>2, <1>3, <1>4 DEF Next, Terminated

-----------------------------------------------------------------------------
(* Flags, exception and events.                                            *)

\* The request a pool thread takes is a queued call.
LEMMA HeadIsQueued ==
  ASSUME TypeOK, QueueConsistent, StartWork
  PROVE  Head(workQueue) \in Calls /\ execPc[Head(workQueue)] = "queued"
<1>1. workQueue \in Seq(Calls) /\ workQueue # <<>>
  BY DEF TypeOK, StartWork
<1>2. Head(workQueue) = workQueue[1] /\ 1 \in 1..Len(workQueue)
  BY <1>1, EmptySeq
<1>3. QED
  BY <1>1, <1>2, HeadTailProperties DEF QueueConsistent

\* Of the shared state, a control step of the pool thread changes execPc only.
LEMMA ExecStepFrame ==
  ASSUME TypeOK, NEW c \in Calls,
         \/ EndEnter(c) \/ EndSizeIsZero(c) \/ EndSizeIsPositive(c)
         \/ EndWait(c) \/ SpuriousWakeup(c) \/ EndReacquire(c) \/ ExecReturn(c)
  PROVE  /\ \/ execPc[c] = "feeding" /\ FeedersIdle(c) /\ execPc'[c] = "check"
            \/ execPc[c] = "check" /\ results[c] = <<>> /\ execPc'[c] = "send"
            \/ execPc[c] = "check" /\ results[c] # <<>> /\ execPc'[c] = "wait"
            \/ execPc[c] = "wait" /\ execPc'[c] = "waiting"
            \/ execPc[c] = "waiting" /\ execPc'[c] = "reacquire"
            \/ execPc[c] = "reacquire" /\ execPc'[c] = "check"
            \/ execPc[c] = "returning" /\ execPc'[c] = "done"
         /\ \A d \in Calls : d # c => execPc'[d] = execPc[d]
         /\ UNCHANGED <<workQueue, feederPc, results, resultsAsync, endAsync,
                        loopPc, loopCall, batch, exception, ended,
                        executeCompleted, freed, sent, delivered, terminal>>
BY DEF TypeOK, EndEnter, EndSizeIsZero, EndSizeIsPositive, EndWait,
   SpuriousWakeup, EndReacquire, ExecReturn, ExecStep, streamVars, loopVars,
   flagVars, historyVars

\* The flags and events agree with the progress of the threads.
LEMMA LifecycleInductive ==
  TypeOK /\ QueueConsistent /\ Lifecycle /\ [Next]_vars => Lifecycle'
<1> SUFFICES ASSUME TypeOK, QueueConsistent, Lifecycle, [Next]_vars
             PROVE  Lifecycle'
  OBVIOUS
<1> USE DEF Lifecycle, TypeOK, streamVars, loopVars, flagVars, historyVars
<1>1. CASE StartWork
  BY <1>1, HeadIsQueued DEF StartWork
<1>2. CASE UNCHANGED vars
  BY <1>2 DEF vars
<1>3. ASSUME NEW c \in Calls, ExecuteFunction(c) PROVE Lifecycle'
  BY <1>3 DEF ExecuteFunction
<1>4. ASSUME NEW c \in Calls, PoolThread(c) \/ SpuriousWakeup(c)
      PROVE  Lifecycle'
  <2>1. CASE EndSend(c)
    BY <2>1 DEF EndSend
  <2>2. CASE ExecThrow(c)
    BY <2>2 DEF ExecThrow
  <2>3. CASE \/ EndEnter(c) \/ EndSizeIsZero(c) \/ EndSizeIsPositive(c)
             \/ EndWait(c) \/ SpuriousWakeup(c) \/ EndReacquire(c)
             \/ ExecReturn(c)
    <3>. HIDE DEF TypeOK
    <3>. QED
      BY <2>3, ExecStepFrame
  <2>4. QED
    BY <1>4, <2>1, <2>2, <2>3 DEF PoolThread
<1>5. ASSUME NEW c \in Calls, NEW f \in Feeders, Feeder(c, f)
      PROVE  Lifecycle'
  BY <1>5 DEF Feeder, AddPush, AddSend
<1>6. ASSUME NEW c \in Calls, Loop(c) PROVE Lifecycle'
  <2>1. CASE DataAsync(c) \/ NextResults(c) \/ EmitResult(c)
    BY <2>1 DEF DataAsync, NextResults, EmitResult
  <2>2. CASE ResultsProcessed(c)
    BY <2>2 DEF ResultsProcessed
  <2>3. CASE EndAsync(c)
    BY <2>3 DEF EndAsync, TeardownIfReady
  <2>4. CASE ExecuteComplete(c)
    BY <2>4 DEF ExecuteComplete, TeardownIfReady
  <2>5. QED
    BY <1>6, <2>1, <2>2, <2>3, <2>4 DEF Loop
<1>7. QED
  BY <1>1, <1>2, <1>3, <1>4, <1>5, <1>6 DEF Next, Terminated

-----------------------------------------------------------------------------
(* Where the results are.                                                  *)

\* What teardownIfReady() does to the stream and to the set of deleted workers.
LEMMA TeardownFrame ==
  ASSUME TypeOK, NEW c \in Calls, TeardownIfReady(c)
  PROVE  /\ \A d \in Calls : d # c =>
              /\ results'[d] = results[d]
              /\ d \in resultsAsync' <=> d \in resultsAsync
              /\ d \in freed' <=> d \in freed
         /\ c \in freed => c \in freed'
         /\ \/ c \in freed' /\ results'[c] = <<>> /\ c \notin resultsAsync'
            \/ /\ results'[c] = results[c]
               /\ c \in resultsAsync' <=> c \in resultsAsync
               /\ c \in freed' <=> c \in freed
BY DEF TypeOK, TeardownIfReady

\* The results are where the progress of the threads says.
LEMMA StreamProgressInductive ==
  TypeOK /\ QueueConsistent /\ Lifecycle /\ StreamProgress /\ [Next]_vars
    => StreamProgress'
<1> SUFFICES ASSUME TypeOK, QueueConsistent, Lifecycle, StreamProgress,
                    [Next]_vars
             PROVE  StreamProgress'
  OBVIOUS
<1> USE CallsAssumption
    DEF TypeOK, streamVars, loopVars, flagVars, historyVars, FeedersIdle,
        InData
<1>1. CASE StartWork
  BY <1>1, HeadIsQueued DEF StartWork, StreamProgress
<1>2. CASE UNCHANGED vars
  BY <1>2 DEF vars, StreamProgress
<1>3. ASSUME NEW c \in Calls, ExecuteFunction(c) PROVE StreamProgress'
  BY <1>3 DEF ExecuteFunction, StreamProgress
<1>4. ASSUME NEW c \in Calls, PoolThread(c) \/ SpuriousWakeup(c)
      PROVE  StreamProgress'
  <2>1. CASE EndSend(c)
    BY <2>1 DEF EndSend, StreamProgress
  <2>2. CASE ExecThrow(c)
    BY <2>2 DEF ExecThrow, StreamProgress
  <2>3. CASE \/ EndEnter(c) \/ EndSizeIsZero(c) \/ EndSizeIsPositive(c)
             \/ EndWait(c) \/ SpuriousWakeup(c) \/ EndReacquire(c)
             \/ ExecReturn(c)
    <3>. HIDE DEF TypeOK
    <3>. QED
      BY <2>3, ExecStepFrame DEF StreamProgress
  <2>4. QED
    BY <1>4, <2>1, <2>2, <2>3 DEF PoolThread
<1>5. ASSUME NEW c \in Calls, NEW f \in Feeders, Feeder(c, f)
      PROVE  StreamProgress'
  <2>1. CASE AddSend(c, f)
    BY <2>1 DEF AddSend, StreamProgress, Lifecycle
  <2>2. ASSUME NEW r \in Results, AddPush(c, f, r) PROVE StreamProgress'
    BY <2>2 DEF AddPush, StreamProgress, Lifecycle
  <2>3. QED
    BY <1>5, <2>1, <2>2 DEF Feeder
<1>6. ASSUME NEW c \in Calls, Loop(c) PROVE StreamProgress'
  <2>1. CASE DataAsync(c)
    BY <2>1 DEF DataAsync, StreamProgress
  <2>2. CASE NextResults(c)
    BY <2>2 DEF NextResults, StreamProgress
  <2>3. CASE EmitResult(c)
    BY <2>3 DEF EmitResult, StreamProgress
  <2>4. CASE ResultsProcessed(c)
    BY <2>4 DEF ResultsProcessed, StreamProgress
  <2>5. CASE EndAsync(c) \/ ExecuteComplete(c)
    <3>1. /\ UNCHANGED <<execPc, feederPc, loopPc, loopCall, batch, exception>>
          /\ TeardownIfReady(c) /\ loopPc = "idle"
      BY <2>5 DEF EndAsync, ExecuteComplete
    <3>2. /\ \A d \in Calls : d # c =>
               /\ results'[d] = results[d]
               /\ d \in resultsAsync' <=> d \in resultsAsync
               /\ d \in freed' <=> d \in freed
          /\ c \in freed => c \in freed'
          /\ \/ c \in freed' /\ results'[c] = <<>> /\ c \notin resultsAsync'
             \/ /\ results'[c] = results[c]
                /\ c \in resultsAsync' <=> c \in resultsAsync
                /\ c \in freed' <=> c \in freed
      BY <3>1, TeardownFrame
    <3>3. QED
      BY <3>1, <3>2 DEF StreamProgress
  <2>6. QED
    BY <1>6, <2>1, <2>2, <2>3, <2>4, <2>5 DEF Loop
<1>7. QED
  BY <1>1, <1>2, <1>3, <1>4, <1>5, <1>6 DEF Next, Terminated

-----------------------------------------------------------------------------
(* Wakeups.                                                                *)

\* Results left in the stream always have a notification on its way.
LEMMA NotStrandedInductive ==
  TypeOK /\ Lifecycle /\ StreamProgress /\ NotStranded /\ [Next]_vars
    => NotStranded'
<1> SUFFICES ASSUME TypeOK, Lifecycle, StreamProgress, NotStranded, [Next]_vars
             PROVE  NotStranded'
  OBVIOUS
<1> USE DEF TypeOK, NotStranded, streamVars, loopVars, flagVars, historyVars
<1>1. CASE StartWork
  BY <1>1 DEF StartWork
<1>2. CASE UNCHANGED vars
  BY <1>2 DEF vars
<1>3. ASSUME NEW c \in Calls, ExecuteFunction(c) PROVE NotStranded'
  BY <1>3 DEF ExecuteFunction
<1>4. ASSUME NEW c \in Calls, PoolThread(c) \/ SpuriousWakeup(c)
      PROVE  NotStranded'
  BY <1>4 DEF PoolThread, SpuriousWakeup, EndEnter, EndSizeIsZero,
     EndSizeIsPositive, EndWait, EndReacquire, EndSend, ExecReturn, ExecThrow,
     ExecStep
<1>5. ASSUME NEW c \in Calls, NEW f \in Feeders, Feeder(c, f)
      PROVE  NotStranded'
  <2>1. CASE AddSend(c, f)
    BY <2>1 DEF AddSend
  <2>2. ASSUME NEW r \in Results, AddPush(c, f, r) PROVE NotStranded'
    BY <2>2 DEF AddPush
  <2>3. QED
    BY <1>5, <2>1, <2>2 DEF Feeder
<1>6. ASSUME NEW c \in Calls, Loop(c) PROVE NotStranded'
  <2>1. CASE DataAsync(c)
    BY <2>1 DEF DataAsync
  <2>2. CASE NextResults(c)
    BY <2>2 DEF NextResults
  <2>3. CASE EmitResult(c)
    BY <2>3 DEF EmitResult
  <2>4. CASE ResultsProcessed(c)
    BY <2>4 DEF ResultsProcessed
  <2>5. CASE EndAsync(c) \/ ExecuteComplete(c)
    <3>1. UNCHANGED <<feederPc, loopPc, loopCall>> /\ TeardownIfReady(c)
      BY <2>5 DEF EndAsync, ExecuteComplete
    <3>2. QED
      BY <3>1 DEF TeardownIfReady
  <2>6. QED
    BY <1>6, <2>1, <2>2, <2>3, <2>4, <2>5 DEF Loop
<1>7. QED
  BY <1>1, <1>2, <1>3, <1>4, <1>5, <1>6 DEF Next, Terminated

\* A pool thread waiting in end() has a signal still to come.
LEMMA NoLostWakeupInductive ==
  TypeOK /\ Lifecycle /\ StreamProgress /\ NoLostWakeup /\ [Next]_vars
    => NoLostWakeup'
<1> SUFFICES ASSUME TypeOK, Lifecycle, StreamProgress, NoLostWakeup,
                    [Next]_vars
             PROVE  NoLostWakeup'
  OBVIOUS
<1> USE DEF TypeOK, NoLostWakeup, InData, streamVars, loopVars, flagVars,
        historyVars
<1>1. CASE StartWork
  BY <1>1 DEF StartWork
<1>2. CASE UNCHANGED vars
  BY <1>2 DEF vars
<1>3. ASSUME NEW c \in Calls, ExecuteFunction(c) PROVE NoLostWakeup'
  BY <1>3 DEF ExecuteFunction
<1>4. ASSUME NEW c \in Calls, PoolThread(c) \/ SpuriousWakeup(c)
      PROVE  NoLostWakeup'
  BY <1>4 DEF PoolThread, SpuriousWakeup, EndEnter, EndSizeIsZero,
     EndSizeIsPositive, EndWait, EndReacquire, EndSend, ExecReturn, ExecThrow,
     ExecStep
<1>5. ASSUME NEW c \in Calls, NEW f \in Feeders, Feeder(c, f)
      PROVE  NoLostWakeup'
  BY <1>5 DEF Feeder, AddPush, AddSend
<1>6. ASSUME NEW c \in Calls, Loop(c) PROVE NoLostWakeup'
  <2>1. CASE DataAsync(c)
    BY <2>1 DEF DataAsync
  <2>2. CASE NextResults(c)
    BY <2>2 DEF NextResults
  <2>3. CASE EmitResult(c)
    BY <2>3 DEF EmitResult
  <2>4. CASE ResultsProcessed(c)
    BY <2>4 DEF ResultsProcessed, MutexHeld
  <2>5. CASE EndAsync(c) \/ ExecuteComplete(c)
    <3>1. /\ UNCHANGED <<execPc, loopPc, loopCall>>
          /\ TeardownIfReady(c)
          /\ \/ execPc[c] = "done"
             \/ execPc[c] = "returning"
      BY <2>5 DEF EndAsync, ExecuteComplete, Lifecycle
    <3>2. QED
      BY <3>1 DEF TeardownIfReady
  <2>6. QED
    BY <1>6, <2>1, <2>2, <2>3, <2>4, <2>5 DEF Loop
<1>7. QED
  BY <1>1, <1>2, <1>3, <1>4, <1>5, <1>6 DEF Next, Terminated

-----------------------------------------------------------------------------
(* No result is lost, duplicated or reordered.                             *)

\* Appending to the second of two sequences appends to their concatenation.
LEMMA ConcatAppend ==
  ASSUME NEW S, NEW s \in Seq(S), NEW t \in Seq(S), NEW x \in S
  PROVE  s \o Append(t, x) = Append(s \o t, x)
<1>1. <<x>> \in Seq(S) /\ s \o t \in Seq(S)
  BY ConcatProperties
<1>2. Append(t, x) = t \o <<x>> /\ Append(s \o t, x) = (s \o t) \o <<x>>
  BY <1>1, AppendIsConcat
<1>3. QED
  BY <1>1, <1>2, ConcatAssociative

\* Moving the head of the second sequence to the end of the first.
LEMMA MoveHead ==
  ASSUME NEW S, NEW s \in Seq(S), NEW t \in Seq(S), t # <<>>
  PROVE  Append(s, Head(t)) \o Tail(t) = s \o t
<1>1. Head(t) \in S /\ Tail(t) \in Seq(S) /\ <<Head(t)>> \in Seq(S)
  BY HeadTailProperties
<1>2. Append(s, Head(t)) = s \o <<Head(t)>>
  BY <1>1, AppendIsConcat
<1>3. <<Head(t)>> \o Tail(t) = t
  OBVIOUS
<1>4. QED
  BY <1>1, <1>2, <1>3, ConcatAssociative

\* Every step moves results along add(), stream, Data() and emitter.
LEMMA ConservationInductive ==
  TypeOK /\ QueueConsistent /\ Lifecycle /\ StreamProgress /\ Conservation
         /\ [Next]_vars
    => Conservation'
<1> SUFFICES ASSUME TypeOK, QueueConsistent, Lifecycle, StreamProgress,
                    Conservation, [Next]_vars
             PROVE  Conservation'
  OBVIOUS
<1> USE DEF streamVars, loopVars, flagVars, historyVars
<1>1. CASE StartWork
  BY <1>1 DEF StartWork, Conservation, InFlight
<1>2. CASE UNCHANGED vars
  BY <1>2 DEF vars, Conservation, InFlight
<1>3. ASSUME NEW c \in Calls, ExecuteFunction(c) PROVE Conservation'
  BY <1>3 DEF ExecuteFunction, Conservation, InFlight
<1>4. ASSUME NEW c \in Calls, PoolThread(c) \/ SpuriousWakeup(c)
      PROVE  Conservation'
  BY <1>4 DEF Conservation, InFlight, PoolThread, SpuriousWakeup, EndEnter,
     EndSizeIsZero, EndSizeIsPositive, EndWait, EndReacquire, EndSend,
     ExecReturn, ExecThrow, ExecStep
<1>5. ASSUME NEW c \in Calls, NEW f \in Feeders, Feeder(c, f)
      PROVE  Conservation'
  <2>1. CASE AddSend(c, f)
    BY <2>1 DEF AddSend, Conservation, InFlight
  <2>2. ASSUME NEW r \in Results, AddPush(c, f, r) PROVE Conservation'
    <3>1. /\ results' = [results EXCEPT ![c] = Append(results[c], r)]
          /\ sent' = [sent EXCEPT ![c] = Append(sent[c], r)]
          /\ UNCHANGED <<loopCall, batch, delivered, freed>>
      BY <2>2 DEF AddPush
    <3>2. ASSUME NEW d \in Calls \ freed
          PROVE  sent'[d] = (delivered[d] \o InFlight(d)) \o results'[d]
      <4>1. CASE d = c
        <5>1. /\ delivered[c] \in Seq(Results) /\ InFlight(c) \in Seq(Results)
              /\ results[c] \in Seq(Results)
          BY EmptySeq DEF TypeOK, InFlight
        <5>2. delivered[c] \o InFlight(c) \in Seq(Results)
          BY <5>1, ConcatProperties
        <5>3. sent'[c] = Append((delivered[c] \o InFlight(c)) \o results[c], r)
          BY <3>1, <3>2, <4>1 DEF TypeOK, Conservation
        <5>4. results'[c] = Append(results[c], r)
          BY <3>1 DEF TypeOK
        <5>5. (delivered[c] \o InFlight(c)) \o Append(results[c], r)
                = Append((delivered[c] \o InFlight(c)) \o results[c], r)
          <6> DEFINE before == delivered[c] \o InFlight(c)
          <6>1. /\ before \in Seq(Results) /\ results[c] \in Seq(Results)
                /\ r \in Results
            BY <2>2, <5>1, <5>2
          <6>. HIDE DEF before
          <6>2. before \o Append(results[c], r) = Append(before \o results[c], r)
            BY <6>1, ConcatAppend
          <6>3. QED
            BY <6>2 DEF before
        <5>6. QED
          BY <4>1, <5>3, <5>4, <5>5
      <4>2. CASE d # c
        BY <3>1, <3>2, <4>2 DEF TypeOK, Conservation
      <4>3. QED
        BY <4>1, <4>2
    <3>3. QED
      BY <3>1, <3>2 DEF Conservation, InFlight
  <2>3. QED
    BY <1>5, <2>1, <2>2 DEF Feeder
<1>6. ASSUME NEW c \in Calls, Loop(c) PROVE Conservation'
  <2>1. CASE DataAsync(c)
    BY <2>1, CallsAssumption DEF DataAsync, Conservation, InFlight, TypeOK,
       StreamProgress
  <2>2. CASE NextResults(c)
    <3>1. /\ loopCall = c /\ batch = <<>>
          /\ batch' = results[c]
          /\ results' = [results EXCEPT ![c] = <<>>]
          /\ UNCHANGED <<loopCall, sent, delivered, freed>>
      BY <2>2 DEF NextResults, StreamProgress
    <3>2. ASSUME NEW d \in Calls \ freed
          PROVE  sent'[d] = (delivered'[d] \o InFlight(d)') \o results'[d]
      <4>1. CASE d = c
        <5>1. delivered[c] \in Seq(Results) /\ results[c] \in Seq(Results)
          BY DEF TypeOK
        <5>2. delivered[c] \o results[c] \in Seq(Results)
          BY <5>1, ConcatProperties
        <5>3. sent[c] = (delivered[c] \o <<>>) \o results[c]
          BY <3>1, <3>2, <4>1 DEF Conservation, InFlight
        <5>4. /\ InFlight(c)' = results[c] /\ results'[c] = <<>>
              /\ sent'[c] = sent[c] /\ delivered'[c] = delivered[c]
          BY <3>1 DEF InFlight, TypeOK
        <5>5. QED
          BY <4>1, <5>1, <5>2, <5>3, <5>4, ConcatEmptySeq
      <4>2. CASE d # c
        BY <3>1, <3>2, <4>2 DEF TypeOK, Conservation, InFlight
      <4>3. QED
        BY <4>1, <4>2
    <3>3. QED
      BY <3>1, <3>2 DEF Conservation
  <2>3. CASE EmitResult(c)
    <3>1. /\ loopCall = c /\ batch # <<>>
          /\ delivered' = [delivered EXCEPT ![c] = Append(delivered[c], Head(batch))]
          /\ batch' = Tail(batch)
          /\ UNCHANGED <<loopCall, sent, results, freed>>
      BY <2>3 DEF EmitResult
    <3>2. delivered'[c] \o batch' = delivered[c] \o batch
      BY <3>1, MoveHead DEF TypeOK
    <3>3. QED
      BY <3>1, <3>2 DEF Conservation, InFlight, TypeOK
  <2>4. CASE ResultsProcessed(c)
    BY <2>4 DEF ResultsProcessed, Conservation, InFlight
  <2>5. CASE EndAsync(c) \/ ExecuteComplete(c)
    <3>1. UNCHANGED <<loopCall, batch, sent, delivered>> /\ TeardownIfReady(c)
      BY <2>5 DEF EndAsync, ExecuteComplete
    <3>2. \A d \in Calls \ freed' : d \notin freed /\ results'[d] = results[d]
      BY <3>1 DEF TeardownIfReady, TypeOK
    <3>3. QED
      BY <3>1, <3>2 DEF Conservation, InFlight
  <2>6. QED
    BY <1>6, <2>1, <2>2, <2>3, <2>4, <2>5 DEF Loop
<1>7. QED
  BY <1>1, <1>2, <1>3, <1>4, <1>5, <1>6 DEF Next, Terminated

-----------------------------------------------------------------------------
(* The closing event.                                                      *)

\* A sequence that continues itself continues with nothing.
LEMMA ConcatSelf ==
  ASSUME NEW S, NEW s \in Seq(S), NEW t \in Seq(S), NEW u \in Seq(S),
         s = (s \o t) \o u
  PROVE  t = <<>>
<1>1. s \o t \in Seq(S) /\ Len(s \o t) = Len(s) + Len(t)
  BY ConcatProperties
<1>2. Len(s) = (Len(s) + Len(t)) + Len(u)
  BY <1>1, ConcatProperties
<1>3. Len(s) \in Nat /\ Len(t) \in Nat /\ Len(u) \in Nat
  BY LenProperties
<1>4. Len(t) = 0
  BY <1>2, <1>3
<1>5. QED
  BY <1>4, EmptySeq

\* Data() emits only through an emitter that has not been closed.
LEMMA EmitterIsOpen ==
  ASSUME Inv, NEW c \in Calls, EmitResult(c)
  PROVE  terminal[c] = "none"
<1>1. /\ loopPc = "emit" /\ loopCall = c /\ batch # <<>> /\ InData(c)
      /\ batch \in Seq(Results) /\ results[c] \in Seq(Results)
      /\ delivered[c] \in Seq(Results)
      /\ terminal[c] \in {"none", "end", "error"}
  BY DEF Inv, TypeOK, EmitResult, InData
<1>2. c \notin freed
  BY <1>1 DEF Inv, StreamProgress
<1>3. terminal[c] # "error"
  BY <1>2 DEF Inv, Lifecycle
<1>4. ASSUME terminal[c] = "end" PROVE FALSE
  <2>1. delivered[c] = (delivered[c] \o batch) \o results[c]
    BY <1>1, <1>2, <1>4 DEF Inv, Conservation, EndMeansComplete, InFlight
  <2>2. QED
    BY <1>1, <2>1, ConcatSelf
<1>5. QED
  BY <1>1, <1>3, <1>4

\* When End() runs, everything that was sent has been delivered.
LEMMA EndFindsAllDelivered ==
  ASSUME Inv, NEW c \in Calls, EndAsync(c)
  PROVE  delivered[c] = sent[c]
<1>1. /\ c \notin freed /\ c \notin ended /\ c \notin exception
      /\ execPc[c] \in {"returning", "done"}
  BY DEF Inv, Lifecycle, EndAsync
<1>2. results[c] = <<>> /\ loopCall = NoCall /\ delivered[c] \in Seq(Results)
  BY <1>1 DEF Inv, TypeOK, StreamProgress, EndAsync
<1>3. InFlight(c) = <<>>
  BY <1>2, CallsAssumption DEF InFlight
<1>4. sent[c] = (delivered[c] \o <<>>) \o <<>>
  BY <1>1, <1>2, <1>3 DEF Inv, Conservation
<1>5. QED
  BY <1>2, <1>4, ConcatEmptySeq

\* The steps that touch the history: what they do to it.
LEMMA HistorySteps ==
  ASSUME Inv, [Next]_vars
  PROVE  \/ UNCHANGED historyVars
         \/ \E c \in Calls :
              \/ \E f \in Feeders, r \in Results : AddPush(c, f, r)
              \/ EmitResult(c) \/ EndAsync(c)
              \/ /\ ExecuteComplete(c) /\ c \in exception
                 /\ terminal' = [terminal EXCEPT ![c] = "error"]
<1> USE DEF historyVars
<1>1. CASE StartWork \/ Terminated \/ UNCHANGED vars
  BY <1>1 DEF StartWork, Terminated, vars
<1>2. ASSUME NEW c \in Calls,
             \/ ExecuteFunction(c) \/ PoolThread(c) \/ SpuriousWakeup(c)
             \/ \E f \in Feeders : AddSend(c, f)
             \/ DataAsync(c) \/ NextResults(c) \/ ResultsProcessed(c)
      PROVE  UNCHANGED historyVars
  BY <1>2 DEF ExecuteFunction, PoolThread, SpuriousWakeup, EndEnter,
     EndSizeIsZero, EndSizeIsPositive, EndWait, EndReacquire, EndSend,
     ExecReturn, ExecThrow, ExecStep, AddSend, DataAsync, NextResults,
     ResultsProcessed
<1>3. ASSUME NEW c \in Calls, ExecuteComplete(c), c \notin exception
      PROVE  UNCHANGED historyVars
  BY <1>3 DEF ExecuteComplete, Inv, TypeOK
<1>4. ASSUME NEW c \in Calls, ExecuteComplete(c), c \in exception
      PROVE  terminal' = [terminal EXCEPT ![c] = "error"]
  BY <1>4 DEF ExecuteComplete
<1>5. QED
  BY <1>1, <1>2, <1>3, <1>4 DEF Next, Loop, Feeder

\* No step closes an emitter that still owes results to its program, and a
\* closed emitter owes none.
LEMMA EndMeansCompleteInductive == Inv /\ [Next]_vars => EndMeansComplete'
<1> SUFFICES ASSUME Inv, [Next]_vars PROVE EndMeansComplete'
  OBVIOUS
<1> USE DEF historyVars
<1>1. CASE UNCHANGED historyVars
  BY <1>1 DEF Inv, EndMeansComplete
<1>2. ASSUME NEW c \in Calls, NEW f \in Feeders, NEW r \in Results,
             AddPush(c, f, r)
      PROVE  EndMeansComplete'
  <2>1. terminal[c] # "end"
    BY <1>2 DEF AddPush, Inv, Lifecycle
  <2>2. QED
    BY <1>2, <2>1 DEF AddPush, Inv, TypeOK, EndMeansComplete
<1>3. ASSUME NEW c \in Calls, EmitResult(c) PROVE EndMeansComplete'
  BY <1>3, EmitterIsOpen DEF EmitResult, Inv, TypeOK, EndMeansComplete
<1>4. ASSUME NEW c \in Calls, EndAsync(c) PROVE EndMeansComplete'
  BY <1>4, EndFindsAllDelivered DEF EndAsync, Inv, TypeOK, EndMeansComplete
<1>5. ASSUME NEW c \in Calls, ExecuteComplete(c), c \in exception
      PROVE  EndMeansComplete'
  BY <1>5 DEF ExecuteComplete, Inv, TypeOK, EndMeansComplete
<1>6. QED
  BY <1>1, <1>2, <1>3, <1>4, <1>5, HistorySteps

-----------------------------------------------------------------------------
(* The invariant, and what it implies.                                     *)

\* The invariant holds initially.
LEMMA InitInv == Init => Inv
<1> SUFFICES ASSUME Init PROVE Inv
  OBVIOUS
<1>1. TypeOK
  BY InitTypeOK
<1>2. QueueConsistent
  BY DEF Init, QueueConsistent
<1>3. Lifecycle /\ StreamProgress
  BY CallsAssumption DEF Init, Lifecycle, StreamProgress, FeedersIdle, InData
<1>4. Conservation
  <2>1. <<>> \o <<>> = <<>>
    BY ConcatEmptySeq, EmptySeq
  <2>2. QED
    BY <2>1 DEF Init, Conservation, InFlight
<1>5. EndMeansComplete /\ NotStranded /\ NoLostWakeup
  BY DEF Init, EndMeansComplete, NotStranded, NoLostWakeup
<1>6. QED
  BY <1>1, <1>2, <1>3, <1>4, <1>5 DEF Inv

\* Every step preserves the invariant.
LEMMA NextInv == Inv /\ [Next]_vars => Inv'
<1> SUFFICES ASSUME Inv, [Next]_vars PROVE Inv'
  OBVIOUS
<1>1. EndMeansComplete'
  BY EndMeansCompleteInductive
<1>2. QED
  BY <1>1, NextTypeOK, QueueInductive, LifecycleInductive,
     StreamProgressInductive, ConservationInductive, NotStrandedInductive,
     NoLostWakeupInductive
  DEF Inv

\* The inductive invariant holds in every reachable state.
THEOREM Invariant == Spec => []Inv
BY InitInv, NextInv, PTL DEF Spec

\* Between add() and the emitter no result is lost, duplicated or reordered
\* while the worker lives, whatever the numbers of calls, feeders and results.
THEOREM NothingLost == Spec => []Conservation
BY Invariant, PTL DEF Inv

\* 'end' always comes after the last result.
THEOREM EndAfterLastResult == Spec => []EndMeansComplete
BY Invariant, PTL DEF Inv

\* A pool thread that sleeps in ResultStream::end() will be signalled.
THEOREM WakeupsAreNotLost == Spec => []NoLostWakeup
BY Invariant, PTL DEF Inv

\* libuv may merge the notifications of add(), and still results in the stream
\* always have one to come.
THEOREM ResultsAreNotStranded == Spec => []NotStranded
BY Invariant, PTL DEF Inv

\* `delete this' in teardownIfReady() runs when no thread is left in the
\* worker and no callback is pending.
THEOREM TeardownIsSafe == Spec => []NoUseAfterFree
<1>1. Inv => NoUseAfterFree
  BY DEF Inv, TypeOK, Lifecycle, StreamProgress, NoUseAfterFree
<1>2. QED
  BY <1>1, Invariant, PTL

\* After 'end' or the final 'error' the emitter is silent.
THEOREM ClosedIsSilent == Spec => SilentAfterTerminal
<1> DEFINE Silent == \A c \in Calls : terminal[c] # "none" =>
                       terminal'[c] = terminal[c] /\ delivered'[c] = delivered[c]
<1>1. Inv /\ [Next]_vars => [Silent]_vars
  <2> SUFFICES ASSUME Inv, [Next]_vars PROVE Silent
    OBVIOUS
  <2> USE DEF historyVars
  <2>1. CASE UNCHANGED historyVars
    BY <2>1
  <2>2. ASSUME NEW c \in Calls, NEW f \in Feeders, NEW r \in Results,
               AddPush(c, f, r)
        PROVE  Silent
    BY <2>2 DEF AddPush
  <2>3. ASSUME NEW c \in Calls, EmitResult(c) PROVE Silent
    BY <2>3, EmitterIsOpen DEF EmitResult, Inv, TypeOK
  <2>4. ASSUME NEW c \in Calls, EndAsync(c) PROVE Silent
    BY <2>4 DEF EndAsync, Inv, TypeOK, Lifecycle
  <2>5. ASSUME NEW c \in Calls, ExecuteComplete(c), c \in exception PROVE Silent
    BY <2>5 DEF ExecuteComplete, Inv, TypeOK, Lifecycle
  <2>6. QED
    BY <2>1, <2>2, <2>3, <2>4, <2>5, HistorySteps
<1>2. QED
  BY <1>1, Invariant, PTL DEF Spec, SilentAfterTerminal

-----------------------------------------------------------------------------
(* Refinement.                                                             *)

\* The result emitted next is the oldest one that was not yielded yet.
LEMMA NextResultIsHead ==
  ASSUME Inv, NEW c \in Calls, EmitResult(c)
  PROVE  /\ Len(delivered[c]) < Len(sent[c])
         /\ sent[c][Len(delivered[c]) + 1] = Head(batch)
         /\ Head(batch) \in Results
<1> DEFINE d == delivered[c]
           u == results[c]
<1>1. /\ batch # <<>> /\ loopCall = c /\ InData(c)
      /\ batch \in Seq(Results) /\ d \in Seq(Results) /\ u \in Seq(Results)
  BY DEF EmitResult, Inv, TypeOK, InData
<1>2. sent[c] = (d \o batch) \o u
  BY <1>1 DEF Inv, StreamProgress, Conservation, InFlight
<1>. HIDE DEF d, u
<1>3. /\ d \o batch \in Seq(Results)
      /\ Len(d \o batch) = Len(d) + Len(batch)
      /\ \A i \in 1..Len(d) + Len(batch) :
           (d \o batch)[i] = IF i <= Len(d) THEN d[i] ELSE batch[i - Len(d)]
  BY <1>1, ConcatProperties
<1>4. /\ Len(sent[c]) = (Len(d) + Len(batch)) + Len(u)
      /\ \A i \in 1..Len(d) + Len(batch) : sent[c][i] = (d \o batch)[i]
  <2>1. /\ Len((d \o batch) \o u) = Len(d \o batch) + Len(u)
        /\ \A i \in 1..Len(d \o batch) + Len(u) :
             ((d \o batch) \o u)[i] = IF i <= Len(d \o batch)
               THEN (d \o batch)[i] ELSE u[i - Len(d \o batch)]
    BY <1>1, <1>3, ConcatProperties
  <2>2. Len(d) \in Nat /\ Len(batch) \in Nat /\ Len(u) \in Nat
    BY <1>1, LenProperties
  <2>3. QED
    BY <1>2, <1>3, <2>1, <2>2
<1>5. Len(d) \in Nat /\ Len(batch) \in Nat \ {0} /\ Len(u) \in Nat
  BY <1>1, LenProperties, EmptySeq
<1>6. Len(d) + 1 \in 1..Len(d) + Len(batch)
  BY <1>5
<1>7. sent[c][Len(d) + 1] = batch[1]
  BY <1>3, <1>4, <1>5, <1>6
<1>8. batch[1] = Head(batch) /\ Head(batch) \in Results
  BY <1>1, HeadTailProperties
<1>9. Len(d) < Len(sent[c])
  BY <1>4, <1>5
<1>10. QED
  BY <1>7, <1>8, <1>9 DEF d

\* Feeders, pool threads, loop and their notifications together implement the
\* stream of events that executeFunction() promises.
THEOREM ImplementsStream == Spec => StreamSpec
<1> USE DEF historyVars
<1>1. Init => Stream!Init
  BY DEF Init, Stream!Init
<1>2. Inv /\ [Next]_vars => [Stream!Next]_(Stream!streamVars)
  <2> SUFFICES ASSUME Inv, [Next]_vars
               PROVE  Stream!Next \/ UNCHANGED <<sent, delivered, terminal>>
    BY DEF Stream!streamVars
  <2>1. CASE UNCHANGED historyVars
    BY <2>1
  <2>2. ASSUME NEW c \in Calls, NEW f \in Feeders, NEW r \in Results,
               AddPush(c, f, r)
        PROVE  Stream!Next
    <3>1. terminal[c] = "none"
      BY <2>2 DEF AddPush, Inv, TypeOK, Lifecycle
    <3>2. Stream!Produce(c, r)
      BY <2>2, <3>1 DEF AddPush, Stream!Produce
    <3>3. QED
      BY <3>2 DEF Stream!Next
  <2>3. ASSUME NEW c \in Calls, EmitResult(c) PROVE Stream!Next
    <3>1. Stream!Consume(c)
      BY <2>3, EmitterIsOpen, NextResultIsHead DEF EmitResult, Stream!Consume
    <3>2. QED
      BY <2>3, <3>1 DEF Stream!Next
  <2>4. ASSUME NEW c \in Calls, EndAsync(c) PROVE Stream!Next
    <3>1. terminal[c] = "none"
      BY <2>4 DEF EndAsync, Inv, Lifecycle
    <3>2. Stream!Finish(c)
      BY <2>4, <3>1, EndFindsAllDelivered DEF EndAsync, Stream!Finish
    <3>3. QED
      BY <2>4, <3>2 DEF Stream!Next
  <2>5. ASSUME NEW c \in Calls, ExecuteComplete(c), c \in exception,
               terminal' = [terminal EXCEPT ![c] = "error"]
        PROVE  Stream!Next
    <3>1. terminal[c] = "none"
      BY <2>5 DEF ExecuteComplete, Inv, TypeOK, Lifecycle
    <3>2. Stream!Fail(c)
      BY <2>5, <3>1 DEF ExecuteComplete, Stream!Fail
    <3>3. QED
      BY <2>5, <3>2 DEF Stream!Next
  <2>6. QED
    BY <2>1, <2>2, <2>3, <2>4, <2>5, HistorySteps
<1>3. QED
  BY <1>1, <1>2, Invariant, PTL DEF Spec, StreamSpec, Stream!Spec
=============================================================================
