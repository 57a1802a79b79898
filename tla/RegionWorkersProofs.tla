-------------------------- MODULE RegionWorkersProofs --------------------------
(***************************************************************************)
(* Proofs about RegionWorkers for any sets of workers, Region objects,     *)
(* native regions and kinds of operations.                                 *)
(***************************************************************************)
EXTENDS RegionWorkers, TLAPS, SequenceTheorems

Completions == {"ok", "error", "errorEvent"}

-----------------------------------------------------------------------------
(* Lemmas about the operators of the model.                                *)

\* A worker that was created is about a native region.
LEMMA WorkersHaveRegions ==
  ASSUME CallsConsistent, NEW w \in Workers, pc[w] # "none"
  PROVE  /\ work[w] \in Work /\ work[w].kind \in AllKinds
         /\ work[w].object \in Objects /\ work[w].callback \in BOOLEAN
         /\ RegionOfWorker(w) \in Regions
BY KindsAssumption, RegionOfAssumption DEF CallsConsistent, Work, RegionOfWorker

\* Every completion tells JavaScript at most one thing.
LEMMA NoticeTyped ==
  ASSUME NEW w \in Workers
  PROVE  Notice(w) \in Seq(Completions)
<1>1. \A c \in Completions : <<c>> \in Seq(Completions)
  OBVIOUS
<1>2. <<>> \in Seq(Completions)
  OBVIOUS
<1>3. QED
  BY <1>1, <1>2 DEF Notice, Completions

\* A worker that was created stays what it is, and goes on only.
LEMMA WorkersGoOn ==
  ASSUME TypeOK, [Next]_vars, NEW w \in Workers, pc[w] # "none"
  PROVE  work'[w] = work[w] /\ pc'[w] # "none"
<1> USE DEF TypeOK, workerVars, callVars
<1>1. CASE UNCHANGED vars
  BY <1>1 DEF vars
<1>2. ASSUME NEW v \in Workers, NEW kind \in Kinds, NEW o \in Objects,
             NEW callback \in BOOLEAN, NEW input \in Inputs,
             Submit(v, kind, o, callback, input)
      PROVE  work'[w] = work[w] /\ pc'[w] # "none"
  BY <1>2 DEF Submit
<1>3. ASSUME NEW v \in Workers, Complete(v)
      PROVE  work'[w] = work[w] /\ pc'[w] # "none"
  BY <1>3 DEF Complete
<1>4. ASSUME NEW v \in Workers, Execute(v)
      PROVE  work'[w] = work[w] /\ pc'[w] # "none"
  BY <1>4 DEF Execute, NativeException, InvalidInput, RunPut, RunRemove, RunRead,
              RunDestroy, ClearChecks, RunClear, Executed
<1>5. ASSUME NEW o \in Objects, PutSync(o) \/ Drop(o) \/ Collect(o)
      PROVE  work'[w] = work[w] /\ pc'[w] # "none"
  BY <1>5 DEF PutSync, Drop, Collect
<1>6. CASE Close
  BY <1>6 DEF Close
<1>7. QED
  BY <1>1, <1>2, <1>3, <1>4, <1>5, <1>6 DEF Next

\* A worker that was executed without an error stays so.
LEMMA SuccessLasts ==
  ASSUME TypeOK, [Next]_vars, NEW w \in Workers, Succeeded(w)
  PROVE  Succeeded(w)' /\ pc[w] # "none"
<1> USE DEF TypeOK, workerVars, callVars, Succeeded
<1>1. CASE UNCHANGED vars \/ Close
  BY <1>1 DEF vars, Close
<1>2. ASSUME NEW v \in Workers, NEW kind \in Kinds, NEW o \in Objects,
             NEW callback \in BOOLEAN, NEW input \in Inputs,
             Submit(v, kind, o, callback, input)
      PROVE  Succeeded(w)'
  BY <1>2 DEF Submit
<1>3. ASSUME NEW v \in Workers, Complete(v)
      PROVE  Succeeded(w)'
  BY <1>3 DEF Complete
<1>4. ASSUME NEW v \in Workers, Execute(v)
      PROVE  Succeeded(w)'
  BY <1>4 DEF Execute, NativeException, InvalidInput, RunPut, RunRemove, RunRead,
              RunDestroy, ClearChecks, RunClear, Executed, Starts
<1>5. ASSUME NEW o \in Objects, PutSync(o) \/ Drop(o) \/ Collect(o)
      PROVE  Succeeded(w)'
  BY <1>5 DEF PutSync, Drop, Collect
<1>6. QED
  BY <1>1, <1>2, <1>3, <1>4, <1>5 DEF Next

\* A call of certain kinds that was executed without an error stays one.
LEMMA CallsLast ==
  ASSUME TypeOK, [Next]_vars, NEW r, NEW kinds, NEW w \in Calls(r, kinds), Succeeded(w)
  PROVE  w \in Calls(r, kinds)' /\ Succeeded(w)'
<1>1. w \in Workers /\ pc[w] # "none"
  BY DEF Calls, WorkersOf
<1>2. work'[w] = work[w] /\ pc'[w] # "none" /\ Succeeded(w)'
  BY <1>1, WorkersGoOn, SuccessLasts
<1>3. QED
  BY <1>1, <1>2 DEF Calls, WorkersOf, RegionOfWorker

\* A region from which a call has taken entries away stays one.
LEMMA TakenStaysTaken ==
  ASSUME TypeOK, [Next]_vars, NEW r, TakenAway(r)
  PROVE  TakenAway(r)'
BY CallsLast DEF TakenAway

-----------------------------------------------------------------------------
(* Types, and what a worker was created with.                              *)

\* At the start no call was made.
LEMMA InitInv == Init => Inv
<1> SUFFICES ASSUME Init PROVE Inv
  OBVIOUS
<1>1. <<>> \in Seq(Completions)
  OBVIOUS
<1>2. TypeOK
  BY <1>1 DEF Init, TypeOK, Completions
<1>3. Pinned = {}
  BY DEF Init, Pinned, InProgress
<1>4. QED
  BY <1>2, <1>3 DEF Init, Inv, CallsConsistent, PinnedAreLive, NoticesConsistent,
                    EntriesWerePut, EntriesStay, ReportedPutIsFound, Succeeded

\* Every step leaves the state well typed.
LEMMA NextTypeOK == TypeOK /\ CallsConsistent /\ [Next]_vars => TypeOK'
<1> SUFFICES ASSUME TypeOK, CallsConsistent, [Next]_vars PROVE TypeOK'
  OBVIOUS
<1> USE DEF workerVars, callVars, cacheVars, objectVars
<1>1. CASE UNCHANGED vars
  BY <1>1 DEF TypeOK, vars
<1>2. ASSUME NEW w \in Workers, NEW kind \in Kinds, NEW o \in Objects,
             NEW callback \in BOOLEAN, NEW input \in Inputs,
             Submit(w, kind, o, callback, input)
      PROVE  TypeOK'
  <2>1. [kind |-> kind, object |-> o, callback |-> callback, input |-> input] \in Work
    BY DEF Work
  <2>2. QED
    BY <1>2, <2>1 DEF TypeOK, Submit
<1>3. ASSUME NEW w \in Workers, Complete(w) PROVE TypeOK'
  <2>1. notices[w] \o Notice(w) \in Seq(Completions)
    BY NoticeTyped, ConcatProperties DEF TypeOK, Completions
  <2>2. QED
    BY <1>3, <2>1 DEF TypeOK, Complete, Completions
<1>4. ASSUME NEW w \in Workers, NativeException(w) \/ InvalidInput(w) \/ RunRead(w)
      PROVE  TypeOK'
  BY <1>4 DEF TypeOK, NativeException, InvalidInput, RunRead, Executed
<1>5. ASSUME NEW w \in Workers, RunPut(w) PROVE TypeOK'
  <2>1. RegionOfWorker(w) \in Regions
    BY <1>5, WorkersHaveRegions DEF RunPut, Starts
  <2>2. QED
    BY <1>5, <2>1 DEF TypeOK, RunPut, Executed
<1>6. ASSUME NEW w \in Workers, RunRemove(w) PROVE TypeOK'
  BY <1>6 DEF TypeOK, RunRemove, Executed
<1>7. ASSUME NEW w \in Workers, RunDestroy(w) PROVE TypeOK'
  <2>1. RegionOfWorker(w) \in Regions
    BY <1>7, WorkersHaveRegions DEF RunDestroy, Starts
  <2>2. QED
    BY <1>7, <2>1 DEF TypeOK, RunDestroy, Executed
<1>8. ASSUME NEW w \in Workers, ClearChecks(w) \/ RunClear(w) PROVE TypeOK'
  BY <1>8 DEF TypeOK, ClearChecks, RunClear, Executed
<1>9. ASSUME NEW o \in Objects, PutSync(o) PROVE TypeOK'
  BY <1>9, RegionOfAssumption DEF TypeOK, PutSync
<1>10. ASSUME NEW o \in Objects, Drop(o) \/ Collect(o) PROVE TypeOK'
  BY <1>10 DEF TypeOK, Drop, Collect
<1>11. CASE Close
  BY <1>11 DEF TypeOK, Close
<1>12. QED
  BY <1>1, <1>2, <1>3, <1>4, <1>5, <1>6, <1>7, <1>8, <1>9, <1>10, <1>11
  DEF Next, Execute

\* Calls without a callback are those of a GemfireEventedWorker, and only puts
\* can follow a put.
LEMMA NextCalls == TypeOK /\ CallsConsistent /\ [Next]_vars => CallsConsistent'
<1> SUFFICES ASSUME TypeOK, CallsConsistent, [Next]_vars PROVE CallsConsistent'
  OBVIOUS
<1> USE DEF workerVars, callVars
<1>1. ASSUME NEW v \in Workers, NEW kind \in Kinds, NEW o \in Objects,
             NEW callback \in BOOLEAN, NEW input \in Inputs,
             Submit(v, kind, o, callback, input)
      PROVE  CallsConsistent'
  <2>1. [kind |-> kind, object |-> o, callback |-> callback, input |-> input] \in Work
    BY DEF Work
  <2>2. ASSUME NEW w \in Workers, pc'[w] # "none"
        PROVE  /\ work'[w] \in Work /\ (work'[w].kind \notin Evented => work'[w].callback)
               /\ pc'[w] = "clearing" => work'[w].kind = "clear"
    BY <1>1, <2>1, <2>2 DEF TypeOK, CallsConsistent, Submit
  <2>3. ASSUME NEW w \in follows' PROVE pc'[w] # "none" /\ work'[w].kind \in Storing
    <3>1. CASE w = v
      BY <1>1, <2>3, <3>1 DEF TypeOK, CallsConsistent, Submit
    <3>2. CASE w # v
      BY <1>1, <2>3, <3>2 DEF TypeOK, CallsConsistent, Submit
    <3>3. QED
      BY <3>1, <3>2
  <2>4. event' = event /\ \A w \in Workers : w # v => pc'[w] = pc[w]
    BY <1>1 DEF TypeOK, Submit
  <2>5. event[v] = "none"
    BY <1>1 DEF CallsConsistent, Submit
  <2>6. QED
    BY <2>2, <2>3, <2>4, <2>5 DEF CallsConsistent
<1>2. ASSUME NEW v \in Workers, Complete(v) \/ Execute(v) PROVE CallsConsistent'
  <2>1. UNCHANGED <<work, follows>>
    BY <1>2 DEF Complete, Execute, NativeException, InvalidInput, RunPut,
                RunRemove, RunRead, RunDestroy, ClearChecks, RunClear, Executed
  <2>2. \A w \in Workers : /\ pc'[w] # "none" <=> pc[w] # "none"
                           /\ pc'[w] = "clearing" => pc[w] = "clearing" \/ work[w].kind = "clear"
    BY <1>2 DEF TypeOK, Complete, Execute, NativeException, InvalidInput, RunPut,
                RunRemove, RunRead, RunDestroy, ClearChecks, RunClear, Executed, Starts
  <2>3. \A w \in Workers : pc'[w] \in {"none", "queued", "clearing"} =>
          pc[w] \in {"none", "queued", "clearing"} /\ event'[w] = event[w]
    BY <1>2 DEF TypeOK, Complete, Execute, NativeException, InvalidInput, RunPut,
                RunRemove, RunRead, RunDestroy, ClearChecks, RunClear, Executed, Starts
  <2>4. QED
    BY <2>1, <2>2, <2>3 DEF CallsConsistent, TypeOK
<1>3. ASSUME NEW o \in Objects, PutSync(o) \/ Drop(o) \/ Collect(o) PROVE CallsConsistent'
  BY <1>3 DEF PutSync, Drop, Collect, CallsConsistent
<1>4. CASE Close \/ UNCHANGED vars
  BY <1>4 DEF Close, vars, CallsConsistent
<1>5. QED
  BY <1>1, <1>2, <1>3, <1>4 DEF Next

-----------------------------------------------------------------------------
(* Region objects and reports.                                             *)

\* The collector deletes no object that a worker saved, and a call can only be
\* made on an object that is there.
LEMMA NextPinned ==
  TypeOK /\ CallsConsistent /\ PinnedAreLive /\ [Next]_vars => PinnedAreLive'
<1> SUFFICES ASSUME TypeOK, CallsConsistent, PinnedAreLive, [Next]_vars
             PROVE  PinnedAreLive'
  OBVIOUS
<1> USE DEF workerVars, callVars, objectVars
<1>1. ASSUME NEW v \in Workers, NEW kind \in Kinds, NEW o \in Objects,
             NEW callback \in BOOLEAN, NEW input \in Inputs,
             Submit(v, kind, o, callback, input)
      PROVE  PinnedAreLive'
  <2>1. Pinned' \subseteq Pinned \cup {o}
    BY <1>1 DEF Submit, Pinned, InProgress, TypeOK
  <2>2. QED
    BY <1>1, <2>1 DEF Submit, PinnedAreLive, TypeOK
<1>2. ASSUME NEW v \in Workers, Complete(v) \/ Execute(v) PROVE PinnedAreLive'
  <2>1. live' = live /\ work' = work
    BY <1>2 DEF Complete, Execute, NativeException, InvalidInput, RunPut, RunRemove,
                RunRead, RunDestroy, ClearChecks, RunClear, Executed
  <2>2. InProgress' \subseteq InProgress
    BY <1>2 DEF TypeOK, InProgress, Complete, Execute, NativeException, InvalidInput,
                RunPut, RunRemove, RunRead, RunDestroy, ClearChecks, RunClear,
                Executed, Starts
  <2>3. QED
    BY <2>1, <2>2 DEF PinnedAreLive, Pinned
<1>3. ASSUME NEW o \in Objects, Collect(o) PROVE PinnedAreLive'
  BY <1>3 DEF Collect, PinnedAreLive, Pinned, InProgress
<1>4. ASSUME NEW o \in Objects, PutSync(o) \/ Drop(o) PROVE PinnedAreLive'
  BY <1>4 DEF PutSync, Drop, PinnedAreLive, Pinned, InProgress
<1>5. CASE Close \/ UNCHANGED vars
  BY <1>5 DEF Close, vars, PinnedAreLive, Pinned, InProgress
<1>6. QED
  BY <1>1, <1>2, <1>3, <1>4, <1>5 DEF Next

\* A completion tells what Notice() says, to a worker that was silent so far,
\* and whose error and callback do not change any more.
LEMMA NextNotices ==
  TypeOK /\ CallsConsistent /\ NoticesConsistent /\ [Next]_vars => NoticesConsistent'
<1> SUFFICES ASSUME TypeOK, CallsConsistent, NoticesConsistent, [Next]_vars,
                    NEW w \in Workers
             PROVE  (IF pc[w] # "finished" THEN notices[w] = <<>>
                     ELSE notices[w] = Notice(w))'
  BY DEF NoticesConsistent
<1> USE DEF workerVars, callVars
<1>0. IF pc[w] # "finished" THEN notices[w] = <<>> ELSE notices[w] = Notice(w)
  BY DEF NoticesConsistent
<1>1. ASSUME NEW v \in Workers, NEW kind \in Kinds, NEW o \in Objects,
             NEW callback \in BOOLEAN, NEW input \in Inputs,
             Submit(v, kind, o, callback, input)
      PROVE  (IF pc[w] # "finished" THEN notices[w] = <<>>
              ELSE notices[w] = Notice(w))'
  BY <1>0, <1>1 DEF Submit, TypeOK, Notice
<1>2. ASSUME NEW v \in Workers, Complete(v)
      PROVE  (IF pc[w] # "finished" THEN notices[w] = <<>>
              ELSE notices[w] = Notice(w))'
  <2>1. Notice(w)' = Notice(w)
    BY <1>2 DEF Complete, Notice
  <2>2. CASE w = v
    <3>1. notices[w] = <<>> /\ pc'[w] = "finished" /\ notices'[w] = notices[w] \o Notice(w)
      BY <1>0, <1>2, <2>2 DEF Complete, TypeOK
    <3>2. notices'[w] = Notice(w)
      BY <3>1, NoticeTyped, ConcatEmptySeq
    <3>3. QED
      BY <2>1, <3>1, <3>2
  <2>3. CASE w # v
    BY <1>0, <1>2, <2>1, <2>3 DEF Complete, TypeOK
  <2>4. QED
    BY <2>2, <2>3
<1>3. ASSUME NEW v \in Workers, Execute(v)
      PROVE  (IF pc[w] # "finished" THEN notices[w] = <<>>
              ELSE notices[w] = Notice(w))'
  <2>1. notices' = notices /\ work' = work
    BY <1>3 DEF Execute, NativeException, InvalidInput, RunPut, RunRemove, RunRead,
                RunDestroy, ClearChecks, RunClear, Executed
  <2>2. pc'[w] = "finished" <=> pc[w] = "finished"
    BY <1>3 DEF TypeOK, Execute, NativeException, InvalidInput, RunPut, RunRemove,
                RunRead, RunDestroy, ClearChecks, RunClear, Executed, Starts
  <2>3. pc[w] = "finished" => error'[w] = error[w]
    BY <1>3 DEF TypeOK, Execute, NativeException, InvalidInput, RunPut, RunRemove,
                RunRead, RunDestroy, ClearChecks, RunClear, Executed, Starts
  <2>4. QED
    BY <1>0, <2>1, <2>2, <2>3 DEF Notice
<1>4. ASSUME NEW o \in Objects, PutSync(o) \/ Drop(o) \/ Collect(o)
      PROVE  (IF pc[w] # "finished" THEN notices[w] = <<>>
              ELSE notices[w] = Notice(w))'
  BY <1>0, <1>4 DEF PutSync, Drop, Collect, Notice
<1>5. CASE Close \/ UNCHANGED vars
  BY <1>0, <1>5 DEF Close, vars, Notice
<1>6. QED
  BY <1>1, <1>2, <1>3, <1>4, <1>5 DEF Next

-----------------------------------------------------------------------------
(* Entries.                                                                *)

\* The region holds the key, or a call takes it away.
Kept(r) == r \in present \/ TakenAway(r)

\* An entry goes only by a call that takes it away.
LEMMA KeptStays ==
  ASSUME TypeOK, CallsConsistent, [Next]_vars, NEW r, Kept(r)
  PROVE  Kept(r)'
<1> USE DEF workerVars, callVars, cacheVars, objectVars
<1>1. CASE TakenAway(r)
  BY <1>1, TakenStaysTaken DEF Kept
<1>2. CASE r \in present /\ r \notin present'
  <2>1. PICK w \in Workers : RunRemove(w) \/ RunDestroy(w) \/ RunClear(w)
    BY <1>2 DEF Next, vars, Submit, Complete, Execute, NativeException, InvalidInput,
                RunPut, RunRead, ClearChecks, PutSync, Drop, Collect, Close
  <2>2. r = RegionOfWorker(w) /\ work[w].kind \in Removing /\ pc[w] # "none"
    BY <1>2, <2>1 DEF RunRemove, RunDestroy, RunClear, Starts, CallsConsistent, Removing
  <2>3. Executed(w, "none")
    BY <1>2, <2>1, <2>2 DEF RunRemove, RunDestroy, RunClear
  <2>4. Succeeded(w)' /\ work' = work
    BY <2>3 DEF Executed, Succeeded, TypeOK
  <2>5. w \in Calls(r, Removing)'
    BY <2>2, <2>3, <2>4 DEF Calls, WorkersOf, RegionOfWorker, Executed, TypeOK
  <2>6. QED
    BY <2>4, <2>5 DEF TakenAway, Kept
<1>3. CASE r \in present /\ r \in present'
  BY <1>3 DEF Kept
<1>4. QED
  BY <1>1, <1>2, <1>3 DEF Kept

\* A put succeeds only by storing.
LEMMA StoredByPut ==
  ASSUME TypeOK, CallsConsistent, [Next]_vars, NEW w \in Workers, pc[w] # "none",
         Succeeded(w)', work[w].kind \in Storing
  PROVE  Succeeded(w) \/ RegionOfWorker(w) \in present'
<1> USE DEF workerVars, callVars, TypeOK, Succeeded
<1>1. ASSUME NEW v \in Workers, NEW kind \in Kinds, NEW o \in Objects,
             NEW callback \in BOOLEAN, NEW input \in Inputs,
             Submit(v, kind, o, callback, input)
      PROVE  Succeeded(w)
  BY <1>1 DEF Submit
<1>2. ASSUME NEW v \in Workers, Complete(v)
      PROVE  Succeeded(w)
  BY <1>2 DEF Complete
<1>3. ASSUME NEW v \in Workers, Execute(v), v # w
      PROVE  Succeeded(w)
  BY <1>3 DEF Execute, NativeException, InvalidInput, RunPut, RunRemove, RunRead,
              RunDestroy, ClearChecks, RunClear, Executed
<1>4. ASSUME Execute(w)
      PROVE  RegionOfWorker(w) \in present'
  <2>1. CASE RunPut(w)
    BY <2>1 DEF RunPut
  <2>2. ~(NativeException(w) \/ InvalidInput(w))
    BY DEF NativeException, InvalidInput, Executed
  <2>3. ~(RunRemove(w) \/ RunRead(w) \/ RunDestroy(w) \/ ClearChecks(w) \/ RunClear(w))
    BY DEF RunRemove, RunRead, RunDestroy, ClearChecks, RunClear, Starts, Storing,
           CallsConsistent
  <2>4. QED
    BY <1>4, <2>1, <2>2, <2>3 DEF Execute
<1>5. ASSUME NEW o \in Objects, PutSync(o) \/ Drop(o) \/ Collect(o)
      PROVE  Succeeded(w)
  BY <1>5 DEF PutSync, Drop, Collect
<1>6. CASE Close \/ UNCHANGED vars
  BY <1>6 DEF Close, vars
<1>7. QED
  BY <1>1, <1>2, <1>3, <1>4, <1>5, <1>6 DEF Next

\* A region gets an entry only from putSync() and from puts.
LEMMA NextEntriesWerePut ==
  TypeOK /\ CallsConsistent /\ EntriesWerePut /\ [Next]_vars => EntriesWerePut'
<1> SUFFICES ASSUME TypeOK, CallsConsistent, EntriesWerePut, [Next]_vars,
                    NEW r \in present'
             PROVE  r \in syncPuts' \/ (\E w \in Calls(r, Storing)' : Succeeded(w)')
  BY DEF EntriesWerePut
<1> USE DEF workerVars, callVars, cacheVars
<1>1. syncPuts \subseteq syncPuts'
  BY DEF Next, vars, Submit, Complete, Execute, NativeException, InvalidInput,
         RunPut, RunRemove, RunRead, RunDestroy, ClearChecks, RunClear, PutSync, Drop,
         Collect, Close
<1>2. CASE r \in present
  <2>1. CASE r \in syncPuts
    BY <1>1, <2>1
  <2>2. CASE \E w \in Calls(r, Storing) : Succeeded(w)
    BY <2>2, CallsLast
  <2>3. QED
    BY <1>2, <2>1, <2>2 DEF EntriesWerePut
<1>3. CASE r \notin present
  <2>1. (\E w \in Workers : RunPut(w)) \/ (\E o \in Objects : PutSync(o))
    BY <1>3 DEF Next, vars, Submit, Complete, Execute, NativeException, InvalidInput,
                RunRemove, RunRead, RunDestroy, ClearChecks, RunClear, Drop, Collect, Close
  <2>2. ASSUME NEW o \in Objects, PutSync(o)
        PROVE  r \in syncPuts'
    BY <1>3, <2>2 DEF PutSync
  <2>3. ASSUME NEW w \in Workers, RunPut(w)
        PROVE  w \in Calls(r, Storing)' /\ Succeeded(w)'
    <3>1. Executed(w, "none") /\ r = RegionOfWorker(w) /\ work[w].kind \in Storing
      BY <1>3, <2>3 DEF RunPut, Starts, Storing
    <3>2. pc'[w] = "executed" /\ error'[w] = "none" /\ work' = work
      BY <3>1 DEF Executed, TypeOK
    <3>3. QED
      BY <3>1, <3>2 DEF Calls, WorkersOf, RegionOfWorker, Succeeded
  <2>4. QED
    BY <2>1, <2>2, <2>3
<1>4. QED
  BY <1>2, <1>3

\* A call that is new follows a put only if one was reported that stored into
\* its region.
LEMMA FollowsReported ==
  ASSUME TypeOK, CallsConsistent, EntriesStay, [Next]_vars, NEW w \in Workers,
         w \in follows', w \notin follows
  PROVE  Kept(RegionOf[work'[w].object]) /\ pc[w] = "none"
<1> USE DEF workerVars, callVars
<1>1. PICK kind \in Kinds, o \in Objects, callback \in BOOLEAN, input \in Inputs :
        Submit(w, kind, o, callback, input)
  BY DEF Next, vars, Submit, Complete, Execute, NativeException, InvalidInput, RunPut,
         RunRemove, RunRead, RunDestroy, ClearChecks, RunClear, Executed, PutSync,
         Drop, Collect, Close
<1>2. RegionOf[o] \in Reported /\ work'[w].object = o
  BY <1>1 DEF Submit, TypeOK
<1>3. PICK v \in Workers : /\ Succeeded(v) /\ work[v].kind \in Storing
                           /\ RegionOfWorker(v) = RegionOf[o]
  BY <1>2 DEF Reported
<1>4. QED
  BY <1>1, <1>2, <1>3 DEF EntriesStay, Kept, Submit

\* What puts have stored stays until it is taken away.
LEMMA NextEntriesStay ==
  TypeOK /\ CallsConsistent /\ EntriesStay /\ [Next]_vars => EntriesStay'
<1> SUFFICES ASSUME TypeOK, CallsConsistent, EntriesStay, [Next]_vars, NEW w \in Workers,
                    (Succeeded(w)' /\ work'[w].kind \in Storing) \/ w \in follows'
             PROVE  (Kept(RegionOfWorker(w)))'
  BY DEF EntriesStay, Kept
<1>1. PICK r : r = RegionOf[work'[w].object]
  OBVIOUS
<1>2. CASE pc[w] = "none"
  <2>1. w \in follows' /\ w \notin follows
    <3>1. w \notin follows
      BY <1>2 DEF CallsConsistent
    <3>2. pc'[w] \in {"none", "queued"}
      BY <1>2 DEF Next, vars, workerVars, callVars, TypeOK, Submit, Complete, Execute,
        NativeException, InvalidInput, RunPut, RunRemove, RunRead, RunDestroy,
        ClearChecks, RunClear, Executed, Starts, PutSync, Drop, Collect, Close
    <3>3. QED
      BY <3>1, <3>2 DEF Succeeded
  <2>2. Kept(r)
    BY <1>1, <2>1, FollowsReported
  <2>3. QED
    BY <1>1, <2>2, KeptStays DEF RegionOfWorker
<1>3. CASE pc[w] # "none"
  <2>1. work'[w] = work[w] /\ r = RegionOfWorker(w)
    BY <1>1, <1>3, WorkersGoOn DEF RegionOfWorker
  <2>2. CASE w \in follows'
    <3>1. w \in follows
      BY <1>3, <2>2, FollowsReported
    <3>2. Kept(r)
      BY <2>1, <3>1 DEF EntriesStay, Kept
    <3>3. QED
      BY <1>1, <3>2, KeptStays DEF RegionOfWorker
  <2>3. CASE Succeeded(w)' /\ work'[w].kind \in Storing
    <3>1. CASE Succeeded(w)
      <4>1. Kept(r)
        BY <2>1, <2>3, <3>1 DEF EntriesStay, Kept
      <4>2. QED
        BY <1>1, <4>1, KeptStays DEF RegionOfWorker
    <3>2. CASE r \in present'
      BY <1>1, <3>2 DEF Kept, RegionOfWorker
    <3>3. QED
      BY <1>3, <2>1, <2>3, <3>1, <3>2, StoredByPut
  <2>4. QED
    BY <2>2, <2>3
<1>4. QED
  BY <1>2, <1>3

\* A put that follows another raises "create" only when the entry was taken.
LEMMA NextPutIsFound ==
  TypeOK /\ CallsConsistent /\ EntriesStay /\ ReportedPutIsFound /\ [Next]_vars
    => ReportedPutIsFound'
<1> SUFFICES ASSUME TypeOK, CallsConsistent, EntriesStay, ReportedPutIsFound, [Next]_vars,
                    NEW w \in follows', event'[w] = "create"
             PROVE  (TakenAway(RegionOfWorker(w)))'
  BY DEF ReportedPutIsFound
<1> USE DEF workerVars, callVars
<1>1. w \in Workers
  BY NextTypeOK DEF TypeOK
<1>2. PICK r : r = RegionOf[work'[w].object]
  OBVIOUS
<1>3. TakenAway(r)
  <2>1. CASE w \in follows
    <3>1. r = RegionOfWorker(w) /\ pc[w] # "none" /\ work[w].kind \in Storing
      BY <1>1, <1>2, <2>1, WorkersGoOn DEF RegionOfWorker, CallsConsistent
    <3>2. CASE event[w] = "create"
      BY <2>1, <3>1, <3>2 DEF ReportedPutIsFound
    <3>3. CASE event[w] # "create"
      <4>1. r \notin present
        BY <1>1, <3>1, <3>3 DEF Next, vars, TypeOK, Submit, Complete, Execute,
          NativeException, InvalidInput, RunPut, RunRemove, RunRead, RunDestroy,
          ClearChecks, RunClear, Executed, Starts, PutSync, Drop, Collect, Close
      <4>2. QED
        BY <1>1, <2>1, <3>1, <4>1 DEF EntriesStay
    <3>4. QED
      BY <3>2, <3>3
  <2>2. CASE w \notin follows
    <3>1. pc[w] = "none"
      BY <1>1, <2>2, FollowsReported
    <3>2. event[w] = "none"
      BY <1>1, <3>1 DEF CallsConsistent
    <3>3. event'[w] = event[w]
      BY <1>1, <3>1 DEF Next, vars, TypeOK, Submit, Complete, Execute,
        NativeException, InvalidInput, RunPut, RunRemove, RunRead, RunDestroy,
        ClearChecks, RunClear, Executed, Starts, PutSync, Drop, Collect, Close
    <3>4. QED
      BY <3>2, <3>3
  <2>3. QED
    BY <2>1, <2>2
<1>4. QED
  BY <1>2, <1>3, TakenStaysTaken DEF RegionOfWorker

-----------------------------------------------------------------------------
(* Theorems.                                                               *)

\* The inductive invariant.
THEOREM WorkersInvariant == Spec => []Inv
<1>1. Init => Inv
  BY InitInv
<1>2. Inv /\ [Next]_vars => Inv'
  BY NextTypeOK, NextCalls, NextPinned, NextNotices, NextEntriesWerePut, NextEntriesStay,
     NextPutIsFound
  DEF Inv
<1>3. QED
  BY <1>1, <1>2, PTL DEF Spec

\* Every variable keeps its type, whatever is called, executed and collected.
THEOREM WorkersTyped == Spec => []TypeOK
BY WorkersInvariant, PTL DEF Inv

\* A worker that goes through a raw Region *, or that may emit "error", finds
\* its Region object alive, for any number of workers and objects.
THEOREM RegionObjectsStayAlive == Spec => []RegionObjectAlive
<1>1. Inv => RegionObjectAlive
  <2> SUFFICES ASSUME Inv, NEW w \in InProgress,
                      work[w].kind \in UsesRawPointer \/ ~work[w].callback
               PROVE  work[w].object \in live
    BY DEF RegionObjectAlive
  <2>1. work[w].kind \in Evented
    BY DEF Inv, CallsConsistent, InProgress, UsesRawPointer, Evented
  <2>2. QED
    BY <2>1 DEF Inv, PinnedAreLive, Pinned
<1>2. QED
  BY <1>1, WorkersInvariant, PTL

\* Once a worker is finished, JavaScript was told of a failure if there was one.
LEMMA FailuresAreTold ==
  ASSUME NoticesConsistent, NEW w \in Workers, pc[w] = "finished"
  PROVE  ToldFailure(w) <=> ~Succeeded(w)
<1>1. notices[w] = Notice(w)
  BY DEF NoticesConsistent
<1>2. CASE error[w] = "none"
  <2>1. Notice(w) = <<"ok">> \/ Notice(w) = <<>>
    BY <1>2 DEF Notice
  <2>2. ~ToldFailure(w)
    BY <1>1, <2>1 DEF ToldFailure
  <2>3. QED
    BY <1>2, <2>2 DEF Succeeded
<1>3. CASE error[w] # "none"
  <2>1. Notice(w) = <<"error">> \/ Notice(w) = <<"errorEvent">>
    BY <1>3 DEF Notice
  <2>2. ToldFailure(w)
    BY <1>1, <2>1 DEF ToldFailure
  <2>3. QED
    BY <1>3, <2>2 DEF Succeeded
<1>4. QED
  BY <1>2, <1>3

\* For any number of workers and regions, what the program was told by callbacks
\* and "error" events explains what a region holds once nothing is under way.
THEOREM ReportsAreTrue == Spec => []ReportsExplainContents
<1>1. ASSUME Inv, NEW r \in Regions, \A w \in WorkersOf(r) : pc[w] = "finished"
      PROVE  /\ r \in present => r \in syncPuts \/ Believed(r, Storing)
             /\ Believed(r, Storing) => r \in present \/ Believed(r, Removing)
  <2>1. ASSUME NEW kinds
        PROVE  Believed(r, kinds) <=> \E w \in Calls(r, kinds) : Succeeded(w)
    <3>1. ASSUME NEW w \in Calls(r, kinds)
          PROVE  ~ToldFailure(w) <=> Succeeded(w)
      <4>1. w \in Workers /\ w \in WorkersOf(r)
        BY DEF Calls, WorkersOf
      <4>2. QED
        BY <1>1, <4>1, FailuresAreTold DEF Inv
    <3>2. QED
      BY <3>1 DEF Believed
  <2>2. r \in present => r \in syncPuts \/ Believed(r, Storing)
    BY <1>1, <2>1 DEF Inv, EntriesWerePut
  <2>3. ASSUME Believed(r, Storing) PROVE r \in present \/ Believed(r, Removing)
    <3>1. PICK w \in Calls(r, Storing) : Succeeded(w)
      BY <2>1, <2>3
    <3>2. w \in Workers /\ work[w].kind \in Storing /\ RegionOfWorker(w) = r
      BY DEF Calls, WorkersOf
    <3>3. r \in present \/ TakenAway(r)
      BY <1>1, <3>1, <3>2 DEF Inv, EntriesStay
    <3>4. QED
      BY <2>1, <3>3 DEF TakenAway
  <2>4. QED
    BY <2>2, <2>3
<1>2. Inv => ReportsExplainContents
  BY <1>1 DEF ReportsExplainContents
<1>3. QED
  BY <1>2, WorkersInvariant, PTL

\* A put called after another was reported finds its entry, in whatever order
\* pool threads execute, unless a call has taken entries of the region away.
THEOREM PutsAreFound == Spec => []ReportedPutIsFound
BY WorkersInvariant, PTL DEF Inv
=============================================================================
