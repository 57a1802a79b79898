--------------------------- MODULE RegionEventsProofs ---------------------------
(***************************************************************************)
(* Proofs about RegionEvents for any sets of regions and native threads,   *)
(* any number of addresses and any number of events.                       *)
(***************************************************************************)
EXTENDS RegionEvents, TLAPS, SequenceTheorems, WellFoundedInduction

-----------------------------------------------------------------------------
(* The walk over the set.                                                  *)

\* A set of addresses that is not empty has a least one.
LEMMA MinInSet ==
  ASSUME NEW S \in SUBSET Objects, S # {}
  PROVE  Min(S) \in S /\ \A x \in S : Min(S) <= x
<1>1. S \subseteq Nat
  BY BoundsAssumption DEF Objects
<1>2. PICK x \in S : \A y \in S : ~(<<y, x>> \in OpToRel(<, Nat))
  BY <1>1, WFMin, NatLessThanWellFounded
<1>3. ASSUME NEW y \in Nat, NEW z \in Nat, y < z
      PROVE  <<y, z>> \in OpToRel(<, Nat)
  <2>1. <<y, z>> \in {ss \in Nat \X Nat : ss[1] < ss[2]}
    BY <1>3
  <2>2. QED
    BY <2>1, Zenon DEF OpToRel
<1>4. \A y \in S : ~(y < x)
  BY <1>1, <1>2, <1>3, Zenon
<1>5. \A y \in S : x <= y
  BY <1>1, <1>4
<1>6. QED
  BY <1>5 DEF Min

\* The iterator goes forward, to a registered object, and leaves none out.
LEMMA AheadStep ==
  ASSUME TypeOK, Ahead # {}
  PROVE  /\ Min(Ahead) \in regionSet /\ Min(Ahead) \in Objects
         /\ Min(Ahead) > cursor
         /\ \A o \in regionSet : o > cursor => Min(Ahead) <= o
<1>1. Ahead \in SUBSET Objects
  BY DEF Ahead, TypeOK
<1>2. QED
  BY <1>1, MinInSet DEF Ahead, TypeOK

-----------------------------------------------------------------------------
(* Type correctness.                                                       *)

\* The initial state is well typed.
LEMMA InitTypeOK == Init => TypeOK
<1> SUFFICES ASSUME Init PROVE TypeOK
  OBVIOUS
<1>1. <<>> \in Seq(Events)
  OBVIOUS
<1>2. 0 \in 0..MaxObjects /\ 0 \in 0..MaxEvents
  BY BoundsAssumption
<1>3. QED
  BY <1>1, <1>2 DEF Init, TypeOK

\* Adding an event leaves the queue and the histories well typed.
LEMMA PushTypeOK ==
  ASSUME TypeOK, NEW r \in Regions, Push(r)
  PROVE  /\ eventVector' \in Seq(Events) /\ raised' \in [Regions -> 0..MaxEvents]
         /\ asyncRef' \in BOOLEAN
         /\ UNCHANGED <<registryVars, publishVars, exited, born, seen>>
         /\ [region |-> r, rank |-> raised[r] + 1] \in Events
<1>1. [region |-> r, rank |-> raised[r] + 1] \in Events
  BY BoundsAssumption DEF Push, TypeOK, Events
<1>2. QED
  BY <1>1, BoundsAssumption DEF Push, TypeOK

\* Every step of every thread leaves the state well typed.
LEMMA NextTypeOK == TypeOK /\ LoopConsistent /\ [Next]_vars => TypeOK'
<1> SUFFICES ASSUME TypeOK, LoopConsistent, [Next]_vars PROVE TypeOK'
  OBVIOUS
<1> USE DEF registryVars, streamVars, publishVars, historyVars
<1>1. CASE UNCHANGED vars
  BY <1>1 DEF TypeOK, vars
<1>2. ASSUME NEW t \in Threads, NEW r \in Regions, AddPush(t, r) PROVE TypeOK'
  BY <1>2, PushTypeOK DEF TypeOK, AddPush
<1>3. ASSUME NEW t \in Threads, AddSend(t) PROVE TypeOK'
  BY <1>3 DEF TypeOK, AddSend
<1>4. ASSUME NEW r \in Regions, AddOnJsThread(r) PROVE TypeOK'
  BY <1>4, PushTypeOK DEF TypeOK, AddOnJsThread
<1>5. ASSUME NEW o \in Objects, NEW r \in Regions, NewInstance(o, r) PROVE TypeOK'
  BY <1>5, BoundsAssumption DEF TypeOK, NewInstance
<1>6. ASSUME NEW o \in Objects, Drop(o) \/ Collect(o) PROVE TypeOK'
  BY <1>6 DEF TypeOK, Drop, Collect
<1>7. CASE EmitCallback \/ NextEvents \/ BeginEvent \/ HandlerReturns \/ PublishReturns
  <2>1. CASE EmitCallback
    BY <2>1 DEF TypeOK, EmitCallback
  <2>2. CASE NextEvents
    <3>1. <<>> \in Seq(Events)
      OBVIOUS
    <3>2. QED
      BY <2>2, <3>1 DEF TypeOK, NextEvents
  <2>3. CASE BeginEvent
    BY <2>3, BoundsAssumption DEF TypeOK, BeginEvent
  <2>4. CASE HandlerReturns
    BY <2>4 DEF TypeOK, HandlerReturns
  <2>5. CASE PublishReturns
    BY <2>5 DEF TypeOK, PublishReturns
  <2>6. QED
    BY <1>7, <2>1, <2>2, <2>3, <2>4, <2>5
<1>8. CASE VisitRegion
  <2>1. Head(batch) \in Events
    BY <1>8, HeadTailProperties DEF VisitRegion, LoopConsistent, TypeOK
  <2>2. Min(Ahead) \in Objects
    BY <1>8, AheadStep DEF VisitRegion
  <2>3. Head(batch).rank \in 0..MaxEvents /\ Min(Ahead) \in 0..MaxObjects
    BY <2>1, <2>2, BoundsAssumption DEF Events, Objects
  <2>4. seen' \in [Objects -> 0..MaxEvents] /\ handles' \subseteq Objects
    BY <1>8, <2>2, <2>3 DEF TypeOK, VisitRegion
  <2>5. cursor' \in 0..MaxObjects
        /\ loopPc' \in {"idle", "take", "event", "visit", "handler"}
    BY <1>8, <2>3 DEF TypeOK, VisitRegion
  <2>6. QED
    BY <1>8, <2>4, <2>5 DEF TypeOK, VisitRegion
<1>9. CASE EndEvent
  <2>1. Tail(batch) \in Seq(Events)
    BY <1>9, HeadTailProperties DEF EndEvent, LoopConsistent, TypeOK
  <2>2. QED
    BY <1>9, <2>1, BoundsAssumption DEF TypeOK, EndEvent
<1>10. CASE LoopExits
  BY <1>10 DEF TypeOK, LoopExits
<1>11. QED
  BY <1>1, <1>2, <1>3, <1>4, <1>5, <1>6, <1>7, <1>8, <1>9, <1>10
  DEF Next, JavaScript, Publish

-----------------------------------------------------------------------------
(* The registry, the loop and the references of the handle.                *)

\* What publishEvents, the registry and the native threads rely on.
Control == IteratorValid /\ LoopConsistent /\ RefMatchesQueue /\ NotStranded

\* At the start no object is registered and nothing is queued.
LEMMA InitControl == Init => Control
BY DEF Init, Control, IteratorValid, LoopConsistent, RefMatchesQueue, NotStranded

\* Adding an event keeps the references and the notification in step with the
\* queue, if the loop is told afterwards.
LEMMA PushControl ==
  ASSUME TypeOK, Control, NEW r \in Regions, Push(r)
  PROVE  (IteratorValid /\ LoopConsistent /\ RefMatchesQueue)'
<1>1. eventVector' # <<>>
  BY AppendProperties, PushTypeOK DEF Push, TypeOK
<1>2. QED
  BY <1>1 DEF Push, Control, IteratorValid, LoopConsistent, RefMatchesQueue,
              registryVars, publishVars

\* Every step keeps the iterator valid, the loop consistent, the references
\* right, and the queue notified.
LEMMA NextControl == TypeOK /\ Control /\ [Next]_vars => Control'
<1> SUFFICES ASSUME TypeOK, Control, [Next]_vars PROVE Control'
  OBVIOUS
<1> USE DEF registryVars, streamVars, publishVars, historyVars
<1>1. CASE UNCHANGED vars
  BY <1>1 DEF Control, IteratorValid, LoopConsistent, RefMatchesQueue, NotStranded, vars
<1>2. ASSUME NEW t \in Threads, NEW r \in Regions, AddPush(t, r) PROVE Control'
  <2>1. NotStranded'
    BY <1>2 DEF AddPush, NotStranded, TypeOK
  <2>2. QED
    BY <1>2, <2>1, PushControl DEF AddPush, Control
<1>3. ASSUME NEW t \in Threads, AddSend(t) PROVE Control'
  BY <1>3 DEF AddSend, Control, IteratorValid, LoopConsistent, RefMatchesQueue, NotStranded
<1>4. ASSUME NEW r \in Regions, AddOnJsThread(r) PROVE Control'
  <2>1. NotStranded'
    BY <1>4 DEF AddOnJsThread, NotStranded
  <2>2. QED
    BY <1>4, <2>1, PushControl DEF AddOnJsThread, Control
<1>5. ASSUME NEW o \in Objects, NEW r \in Regions, NewInstance(o, r) PROVE Control'
  <2>1. IteratorValid' /\ LoopConsistent'
    BY <1>5, RegionAssumption
    DEF NewInstance, Control, IteratorValid, LoopConsistent, TypeOK
  <2>2. QED
    BY <1>5, <2>1 DEF NewInstance, Control, RefMatchesQueue, NotStranded
<1>6. ASSUME NEW o \in Objects, Drop(o) PROVE Control'
  BY <1>6 DEF Drop, Control, IteratorValid, LoopConsistent, RefMatchesQueue, NotStranded
<1>7. ASSUME NEW o \in Objects, Collect(o) PROVE Control'
  <2>1. IteratorValid' /\ LoopConsistent'
    BY <1>7 DEF Collect, Control, IteratorValid, LoopConsistent, TypeOK
  <2>2. QED
    BY <1>7, <2>1 DEF Collect, Control, RefMatchesQueue, NotStranded
<1>8. CASE EmitCallback \/ NextEvents \/ PublishReturns \/ LoopExits
  BY <1>8 DEF EmitCallback, NextEvents, PublishReturns, LoopExits, Control,
              IteratorValid, LoopConsistent, RefMatchesQueue, NotStranded
<1>9. CASE BeginEvent \/ HandlerReturns \/ EndEvent
  BY <1>9 DEF BeginEvent, HandlerReturns, EndEvent, Control,
              IteratorValid, LoopConsistent, RefMatchesQueue, NotStranded
<1>10. CASE VisitRegion
  <2>1. Min(Ahead) \in regionSet
    BY <1>10, AheadStep DEF VisitRegion
  <2>2. IteratorValid' /\ LoopConsistent'
    BY <1>10, <2>1 DEF VisitRegion, Control, IteratorValid, LoopConsistent
  <2>3. RefMatchesQueue' /\ NotStranded'
    BY <1>10 DEF VisitRegion, Control, RefMatchesQueue, NotStranded
  <2>4. QED
    BY <2>2, <2>3 DEF Control
<1>11. QED
  BY <1>1, <1>2, <1>3, <1>4, <1>5, <1>6, <1>7, <1>8, <1>9, <1>10
  DEF Next, JavaScript, Publish

-----------------------------------------------------------------------------
(* Theorems about the control.                                             *)

\* Types and control together are inductive.
THEOREM ControlInvariant == Spec => [](TypeOK /\ Control)
<1>1. Init => TypeOK /\ Control
  BY InitTypeOK, InitControl
<1>2. TypeOK /\ Control /\ [Next]_vars => (TypeOK /\ Control)'
  BY NextTypeOK, NextControl DEF Control
<1>3. QED
  BY <1>1, <1>2, PTL DEF Spec

\* Every variable keeps its type, whatever threads, handlers and the garbage
\* collector do.
THEOREM RegionEventsTyped == Spec => []TypeOK
BY ControlInvariant, PTL

\* The iterator of publishEvents never points at an address that was removed
\* from the set, and the set holds the live Region objects and no other.
THEOREM IteratorStaysValid == Spec => []IteratorValid
<1>1. TypeOK /\ Control => IteratorValid
  BY DEF Control
<1>2. QED
  BY <1>1, ControlInvariant, PTL

\* uv_ref and uv_unref are balanced: the handle is referenced exactly while
\* events are in the stream.
THEOREM ReferencesAreBalanced == Spec => []RefMatchesQueue
<1>1. TypeOK /\ Control => RefMatchesQueue
  BY DEF Control
<1>2. QED
  BY <1>1, ControlInvariant, PTL

\* libuv may merge notifications, and still events in the stream always have
\* one to come.
THEOREM NotificationsAreNotLost == Spec => []NotStranded
<1>1. TypeOK /\ Control => NotStranded
  BY DEF Control
<1>2. QED
  BY <1>1, ControlInvariant, PTL

\* The process exits only with nothing in the stream and nothing taken: when the
\* loop may stop it is outside publishEvents and the handle has no reference.
THEOREM ExitIsClean == Spec => []ExitLosesNothing
<1> DEFINE ExitChecked == exited => ~asyncRef
<1>1. Init => ExitChecked
  BY DEF Init
<1>2. ExitChecked /\ TypeOK /\ Control /\ [Next]_vars => ExitChecked'
  <2> SUFFICES ASSUME ExitChecked, TypeOK, Control, [Next]_vars PROVE ExitChecked'
    OBVIOUS
  <2>1. CASE exited
    <3>1. asyncRef' = asyncRef
      BY <2>1 DEF Next, JavaScript, JsRunning, CanCollect, Publish, AddSend,
        AddPush, AddOnJsThread, Drop, NewInstance, Collect, EmitCallback,
        NextEvents, BeginEvent, VisitRegion, HandlerReturns, EndEvent,
        PublishReturns, LoopExits, Control, LoopConsistent, vars, streamVars
    <3>2. QED
      BY <2>1, <3>1
  <2>2. CASE ~exited
    BY <2>2 DEF Next, JavaScript, Publish, AddSend, AddPush, AddOnJsThread, Push,
      Drop, NewInstance, Collect, EmitCallback, NextEvents, BeginEvent,
      VisitRegion, HandlerReturns, EndEvent, PublishReturns, LoopExits, vars,
      streamVars
  <2>3. QED
    BY <2>1, <2>2
<1>3. ExitChecked /\ TypeOK /\ Control => ExitLosesNothing
  BY DEF Control, RefMatchesQueue, LoopConsistent, ExitLosesNothing
<1>4. QED
  BY <1>1, <1>2, <1>3, ControlInvariant, PTL DEF Spec

-----------------------------------------------------------------------------
(* The queue: the events taken and those in the stream, as one sequence.   *)

\* What the steps of the loop and of the native threads preserve of it.
QueueInv == QueueConsistent /\ SeenBeforeWaiting /\ NextIsWaiting

\* The queue is a sequence of events.
LEMMA QueueTyped ==
  ASSUME TypeOK
  PROVE  /\ Queue \in Seq(Events) /\ Len(Queue) \in Nat
         /\ \A i \in 1..Len(Queue) :
              Queue[i] \in Events /\ Queue[i].rank \in Nat /\ Queue[i].rank > 0
              /\ Queue[i].region \in Regions
<1>1. Queue \in Seq(Events)
  BY DEF TypeOK, Queue
<1>2. \A e \in Events : e.rank \in Nat /\ e.rank > 0 /\ e.region \in Regions
  BY BoundsAssumption DEF Events
<1>3. \A i \in 1..Len(Queue) : Queue[i] \in Events
  BY <1>1, ElementOfSeq
<1>4. QED
  BY <1>1, <1>2, <1>3

\* The queue is empty at the start and there is no object.
LEMMA InitQueue == Init => QueueInv
<1> SUFFICES ASSUME Init PROVE QueueInv
  OBVIOUS
<1>1. Queue = <<>> /\ Len(Queue) = 0
  BY DEF Init, Queue
<1>2. QED
  BY <1>1 DEF Init, QueueInv, QueueConsistent, SeenBeforeWaiting, NextIsWaiting

\* Steps that move no event, and delete objects at most, preserve it.
LEMMA QueueKept ==
  ASSUME QueueInv, Queue' = Queue, UNCHANGED <<raised, seen, born>>,
         regionSet' \subseteq regionSet,
         \A o \in regionSet' : wrapped'[o] = wrapped[o],
         \A o \in regionSet' : Unvisited(o)' <=> Unvisited(o)
  PROVE  QueueInv'
<1>1. QueueConsistent'
  BY DEF QueueInv, QueueConsistent
<1>2. SeenBeforeWaiting'
  BY DEF QueueInv, SeenBeforeWaiting
<1>3. NextIsWaiting'
  BY DEF QueueInv, NextIsWaiting
<1>4. QED
  BY <1>1, <1>2, <1>3 DEF QueueInv

\* An event that is raised comes after all others, and is new to every object.
LEMMA PushQueue ==
  ASSUME TypeOK, IteratorValid, QueueInv, NEW r \in Regions, Push(r)
  PROVE  QueueInv'
<1> DEFINE e == [region |-> r, rank |-> raised[r] + 1]
           l == Len(Queue)
<1> USE DEF registryVars, publishVars
<1>1. /\ Queue \in Seq(Events) /\ l \in Nat
      /\ \A i \in 1..l : Queue[i].rank \in Nat /\ Queue[i].rank > 0
  BY QueueTyped
<1>2. e \in Events
  BY PushTypeOK
<1>3. Queue' = Append(Queue, e)
  BY <1>2, ConcatProperties DEF Push, Queue, TypeOK
<1>4. /\ Len(Queue') = l + 1 /\ Queue'[l + 1] = e
      /\ \A i \in 1..l : Queue'[i] = Queue[i]
  BY <1>1, <1>2, <1>3, AppendProperties
<1>5. /\ raised[r] \in Nat /\ raised'[r] = raised[r] + 1
      /\ \A q \in Regions : raised[q] \in Nat /\ raised'[q] \in Nat
      /\ \A q \in Regions \ {r} : raised'[q] = raised[q]
      /\ \A q \in Regions : raised'[q] >= raised[q]
  BY BoundsAssumption DEF TypeOK, Push
<1>6. \A o \in Objects : Unvisited(o)' <=> Unvisited(o)
  BY DEF Push, Unvisited
<1> HIDE DEF e, l
<1>7. e.region = r /\ e.rank = raised[r] + 1
  BY DEF e
<1>8. \A o \in regionSet : o \in Objects /\ wrapped[o] \in Regions /\ seen[o] \in Nat
  BY BoundsAssumption, RegionAssumption DEF TypeOK, IteratorValid
<1>9. \A i \in 1..l : Queue[i].region \in Regions
  BY QueueTyped DEF l
<1>10. QueueConsistent'
  <2>1. \A i, j \in 1..(l + 1) :
          i < j /\ Queue'[i].region = Queue'[j].region => Queue'[i].rank < Queue'[j].rank
    <3> SUFFICES ASSUME NEW i \in 1..(l + 1), NEW j \in 1..(l + 1), i < j,
                        Queue'[i].region = Queue'[j].region
                 PROVE  Queue'[i].rank < Queue'[j].rank
      OBVIOUS
    <3>1. i \in 1..l
      BY <1>1
    <3>2. CASE j \in 1..l
      BY <1>4, <3>1, <3>2 DEF QueueInv, QueueConsistent, l
    <3>3. CASE j = l + 1
      <4>1. Queue[i].rank <= raised[r]
        BY <1>4, <1>7, <3>1, <3>3 DEF QueueInv, QueueConsistent, l
      <4>2. QED
        BY <4>1, <1>1, <1>4, <1>5, <1>7, <3>1, <3>3
    <3>4. QED
      BY <1>1, <3>2, <3>3
  <2>2. \A i \in 1..(l + 1) : Queue'[i].rank <= raised'[Queue'[i].region]
    <3> SUFFICES ASSUME NEW i \in 1..(l + 1)
                 PROVE  Queue'[i].rank <= raised'[Queue'[i].region]
      OBVIOUS
    <3>1. CASE i \in 1..l
      <4>1. Queue[i].rank <= raised[Queue[i].region]
        BY <3>1 DEF QueueInv, QueueConsistent, l
      <4>2. QED
        BY <4>1, <3>1, <1>1, <1>4, <1>5, <1>9
    <3>2. CASE i = l + 1
      BY <3>2, <1>4, <1>5, <1>7
    <3>3. QED
      BY <1>1, <3>1, <3>2
  <2>3. \A i \in 1..(l + 1) :
          \A n \in (Queue'[i].rank + 1)..raised'[Queue'[i].region] :
            \E j \in 1..(l + 1) : Queue'[j] = [region |-> Queue'[i].region, rank |-> n]
    <3> SUFFICES ASSUME NEW i \in 1..(l + 1),
                        NEW n \in (Queue'[i].rank + 1)..raised'[Queue'[i].region]
                 PROVE  \E j \in 1..(l + 1) :
                          Queue'[j] = [region |-> Queue'[i].region, rank |-> n]
      OBVIOUS
    <3>1. i \in 1..l
      BY <1>1, <1>4, <1>5, <1>7
    <3>2. CASE Queue[i].region = r /\ n = raised[r] + 1
      BY <3>1, <3>2, <1>1, <1>4 DEF e
    <3>3. CASE ~(Queue[i].region = r /\ n = raised[r] + 1)
      <4>1. n \in (Queue[i].rank + 1)..raised[Queue[i].region]
        <5> DEFINE q == Queue[i].region
        <5>1. /\ Queue[i].rank \in Nat /\ q \in Regions
              /\ n \in (Queue[i].rank + 1)..raised'[q]
          BY <3>1, <1>1, <1>4, <1>9
        <5>2. n <= raised[q]
          <6>1. CASE q = r
            BY <6>1, <5>1, <3>3, <1>5
          <6>2. CASE q # r
            BY <6>2, <5>1, <1>5
          <6>3. QED
            BY <6>1, <6>2
        <5>3. QED
          BY <5>1, <5>2, <1>5
      <4>2. PICK j \in 1..l : Queue[j] = [region |-> Queue[i].region, rank |-> n]
        BY <3>1, <4>1 DEF QueueInv, QueueConsistent, l
      <4>3. QED
        BY <4>2, <3>1, <1>1, <1>4
    <3>4. QED
      BY <3>2, <3>3
  <2>4. QED
    BY <2>1, <2>2, <2>3, <1>4 DEF QueueConsistent
<1>11. SeenBeforeWaiting'
  <2> SUFFICES ASSUME NEW o \in regionSet
               PROVE  /\ seen[o] <= raised'[wrapped[o]]
                      /\ \A i \in 1..(l + 1) :
                           Queue'[i].region = wrapped[o] /\ (i > 1 \/ Unvisited(o)) =>
                             Queue'[i].rank > seen[o]
    BY <1>4, <1>6, <1>8 DEF SeenBeforeWaiting, Push
  <2>1. seen[o] <= raised[wrapped[o]]
    BY DEF QueueInv, SeenBeforeWaiting
  <2>2. ASSUME NEW i \in 1..(l + 1), Queue'[i].region = wrapped[o], i > 1 \/ Unvisited(o)
        PROVE  Queue'[i].rank > seen[o]
    <3>1. CASE i \in 1..l
      BY <3>1, <2>2, <1>4 DEF QueueInv, SeenBeforeWaiting, l
    <3>2. CASE i = l + 1
      BY <3>2, <2>1, <2>2, <1>4, <1>5, <1>7, <1>8
    <3>3. QED
      BY <1>1, <3>1, <3>2
  <2>3. QED
    BY <2>1, <2>2, <1>5, <1>8
<1>12. NextIsWaiting'
  <2> SUFFICES ASSUME NEW o \in regionSet,
                      NEW n \in ((IF seen[o] = 0 THEN born[o] ELSE seen[o]) + 1)..raised'[wrapped[o]]
               PROVE  \E i \in 1..(l + 1) :
                        /\ Queue'[i] = [region |-> wrapped[o], rank |-> n]
                        /\ i > 1 \/ Unvisited(o)
    BY <1>4, <1>6, <1>8 DEF NextIsWaiting, Push
  <2> DEFINE last == IF seen[o] = 0 THEN born[o] ELSE seen[o]
  <2>0. last \in Nat
    BY <1>8, BoundsAssumption DEF TypeOK
  <2>1. CASE wrapped[o] = r /\ n = raised[r] + 1
    <3>1. l + 1 > 1 \/ Unvisited(o)
      <4>1. l = 0 => batch = <<>>
        BY ConcatProperties, EmptySeq DEF l, Queue, TypeOK
      <4>2. QED
        BY <4>1, <1>1 DEF Unvisited
    <3>2. QED
      BY <2>1, <3>1, <1>1, <1>4 DEF e
  <2>2. CASE ~(wrapped[o] = r /\ n = raised[r] + 1)
    <3>1. n \in (last + 1)..raised[wrapped[o]]
      BY <2>0, <2>2, <1>5, <1>8
    <3>2. PICK i \in 1..l : /\ Queue[i] = [region |-> wrapped[o], rank |-> n]
                            /\ i > 1 \/ Unvisited(o)
      BY <3>1 DEF QueueInv, NextIsWaiting, l
    <3>3. QED
      BY <3>2, <1>1, <1>4
  <2>3. QED
    BY <2>1, <2>2
<1>13. QED
  BY <1>10, <1>11, <1>12 DEF QueueInv

\* The event that ends was offered to every object, and the next is offered
\* to all of them.
LEMMA EndEventQueue ==
  ASSUME TypeOK, LoopConsistent, QueueInv, EndEvent
  PROVE  QueueInv'
<1> DEFINE l == Len(Queue)
<1> USE DEF registryVars, streamVars, historyVars
<1>1. /\ Queue \in Seq(Events) /\ l \in Nat
      /\ \A i \in 1..l : Queue[i].rank \in Nat /\ Queue[i].rank > 0
  BY QueueTyped
<1>2. batch # <<>> /\ batch \in Seq(Events) /\ eventVector \in Seq(Events)
  BY DEF EndEvent, LoopConsistent, TypeOK
<1>3. Queue' = Tail(Queue) /\ Queue # <<>>
  BY <1>2, ConcatProperties, EmptySeq DEF EndEvent, Queue
<1>4. /\ l > 0 /\ Len(Queue') = l - 1
      /\ \A i \in 1..(l - 1) : Queue'[i] = Queue[i + 1]
  BY <1>1, <1>3, HeadTailProperties, EmptySeq
<1>5. \A o \in regionSet : ~Unvisited(o)
  BY <1>2 DEF EndEvent, Ahead, Unvisited, TypeOK, Objects
<1>6. \A o \in regionSet : o \in Objects
  BY DEF TypeOK
<1>7. /\ raised' = raised /\ seen' = seen /\ born' = born
      /\ wrapped' = wrapped /\ regionSet' = regionSet
  BY DEF EndEvent
<1> HIDE DEF l
<1>8. \A i \in 1..(l - 1) : i + 1 \in 1..l /\ i + 1 > 1
  BY <1>1
<1>9. QueueConsistent'
  <2>1. \A i, j \in 1..(l - 1) :
          i < j /\ Queue'[i].region = Queue'[j].region => Queue'[i].rank < Queue'[j].rank
    <3> SUFFICES ASSUME NEW i \in 1..(l - 1), NEW j \in 1..(l - 1), i < j,
                        Queue[i + 1].region = Queue[j + 1].region
                 PROVE  Queue[i + 1].rank < Queue[j + 1].rank
      BY <1>4
    <3>1. i + 1 < j + 1
      BY <1>1
    <3>2. QED
      BY <3>1, <1>8 DEF QueueInv, QueueConsistent, l
  <2>2. \A i \in 1..(l - 1) : Queue'[i].rank <= raised[Queue'[i].region]
    BY <1>4, <1>8 DEF QueueInv, QueueConsistent, l
  <2>3. \A i \in 1..(l - 1) :
          \A n \in (Queue'[i].rank + 1)..raised[Queue'[i].region] :
            \E j \in 1..(l - 1) : Queue'[j] = [region |-> Queue'[i].region, rank |-> n]
    <3> SUFFICES ASSUME NEW i \in 1..(l - 1),
                        NEW n \in (Queue[i + 1].rank + 1)..raised[Queue[i + 1].region]
                 PROVE  \E j \in 1..(l - 1) :
                          Queue'[j] = [region |-> Queue[i + 1].region, rank |-> n]
      BY <1>4
    <3>1. PICK j \in 1..l : Queue[j] = [region |-> Queue[i + 1].region, rank |-> n]
      BY <1>8 DEF QueueInv, QueueConsistent, l
    <3>2. j # 1
      <4> SUFFICES ASSUME j = 1 PROVE FALSE
        OBVIOUS
      <4>1. Queue[1].rank < Queue[i + 1].rank
        BY <3>1, <1>8 DEF QueueInv, QueueConsistent, l
      <4>2. Queue[1].rank > Queue[i + 1].rank
        BY <3>1, <1>1, <1>8
      <4>3. QED
        BY <4>1, <4>2, <3>1, <1>1, <1>8
    <3>3. j - 1 \in 1..(l - 1) /\ (j - 1) + 1 = j
      BY <3>2, <1>1
    <3>4. Queue'[j - 1] = Queue[j]
      BY <3>3, <1>4
    <3>5. QED
      BY <3>1, <3>3, <3>4
  <2>4. QED
    BY <2>1, <2>2, <2>3, <1>4, <1>7 DEF QueueConsistent
<1>10. SeenBeforeWaiting'
  BY <1>4, <1>7, <1>8 DEF QueueInv, SeenBeforeWaiting, l
<1>11. NextIsWaiting'
  <2> SUFFICES ASSUME NEW o \in regionSet,
                      NEW n \in ((IF seen[o] = 0 THEN born[o] ELSE seen[o]) + 1)..raised[wrapped[o]]
               PROVE  \E i \in 1..(l - 1) :
                        Queue'[i] = [region |-> wrapped[o], rank |-> n] /\ Unvisited(o)'
    BY <1>4, <1>7 DEF NextIsWaiting
  <2>1. PICK i \in 1..l : Queue[i] = [region |-> wrapped[o], rank |-> n] /\ i > 1
    BY <1>5 DEF QueueInv, NextIsWaiting, l
  <2>2. i - 1 \in 1..(l - 1) /\ (i - 1) + 1 = i
    BY <2>1, <1>1
  <2>3. Queue'[i - 1] = Queue[i]
    BY <2>2, <1>4
  <2>4. Unvisited(o)'
    BY DEF EndEvent, Unvisited
  <2>5. QED
    BY <2>1, <2>2, <2>3, <2>4
<1>12. QED
  BY <1>9, <1>10, <1>11 DEF QueueInv

\* A new object has seen nothing, and only what is raised from now on must
\* come to it.
LEMMA NewInstanceQueue ==
  ASSUME TypeOK, IteratorValid, QueueInv,
         NEW o \in Objects, NEW r \in Regions, NewInstance(o, r)
  PROVE  QueueInv'
<1> USE DEF streamVars, publishVars
<1>1. /\ raised' = raised /\ Queue' = Queue
      /\ regionSet' = regionSet \cup {o} /\ o \notin regionSet
      /\ \A x \in Objects : Unvisited(x)' <=> Unvisited(x)
  BY DEF NewInstance, Queue, Unvisited, IteratorValid
<1>2. /\ wrapped'[o] = r /\ seen'[o] = 0 /\ born'[o] = raised[r] /\ raised[r] \in Nat
      /\ \A x \in regionSet : wrapped'[x] = wrapped[x] /\ seen'[x] = seen[x]
                              /\ born'[x] = born[x]
  BY <1>1, BoundsAssumption DEF NewInstance, TypeOK
<1>3. regionSet \subseteq Objects
  BY DEF TypeOK
<1>4. \A i \in 1..Len(Queue) : Queue[i].rank > 0
  BY QueueTyped
<1>5. QueueConsistent'
  BY <1>1 DEF QueueInv, QueueConsistent
<1>6. SeenBeforeWaiting'
  BY <1>1, <1>2, <1>3, <1>4 DEF QueueInv, SeenBeforeWaiting
<1>7. NextIsWaiting'
  BY <1>1, <1>2, <1>3 DEF QueueInv, NextIsWaiting
<1>8. QED
  BY <1>5, <1>6, <1>7 DEF QueueInv

\* The object visited is offered the first event, and no other object is.
LEMMA VisitMoves ==
  ASSUME TypeOK, LoopConsistent, VisitRegion
  PROVE  \E v \in Objects :
           /\ v = Min(Ahead) /\ v \in regionSet
           /\ Unvisited(v) /\ ~Unvisited(v)'
           /\ \A x \in regionSet \ {v} : Unvisited(x)' <=> Unvisited(x)
           /\ Queue' = Queue /\ Len(Queue) > 0 /\ Queue[1] = Head(batch)
<1>0. PICK v \in Objects : v = Min(Ahead)
  BY AheadStep DEF VisitRegion
<1>1. /\ v \in regionSet /\ v \in Objects /\ v > cursor
      /\ \A x \in regionSet : x > cursor => v <= x
  BY <1>0, AheadStep DEF VisitRegion
<1>2. batch # <<>> /\ batch \in Seq(Events) /\ eventVector \in Seq(Events)
  BY DEF VisitRegion, LoopConsistent, TypeOK
<1>3. cursor' = v /\ loopPc = "visit" /\ loopPc' # "event" /\ batch' = batch
      /\ eventVector' = eventVector
  BY <1>0 DEF VisitRegion, streamVars
<1>4. Queue' = Queue /\ Len(Queue) > 0 /\ Queue[1] = Head(batch)
  <2>1. Len(batch) \in Nat /\ Len(batch) > 0 /\ Len(eventVector) \in Nat
        /\ Head(batch) = batch[1]
    BY <1>2, EmptySeq, LenProperties, HeadTailProperties
  <2>2. QED
    BY <1>2, <1>3, <2>1, ConcatProperties DEF Queue
<1>5. cursor \in Nat /\ regionSet \subseteq Nat /\ v \in Nat
  BY <1>1, BoundsAssumption DEF TypeOK, Objects
<1>6. Unvisited(v) /\ ~Unvisited(v)'
  BY <1>1, <1>2, <1>3, <1>5 DEF Unvisited
<1>7. ASSUME NEW x \in regionSet \ {v} PROVE Unvisited(x)' <=> Unvisited(x)
  <2>1. cursor < x <=> v < x
    BY <1>1, <1>5
  <2>2. QED
    BY <2>1, <1>2, <1>3 DEF Unvisited
<1>8. QED
  BY <1>0, <1>1, <1>4, <1>6, <1>7

\* An event is emitted on an object after all those of its region that came
\* before, and the next one of its region stays to come.
LEMMA VisitQueue ==
  ASSUME TypeOK, IteratorValid, LoopConsistent, QueueInv, VisitRegion
  PROVE  QueueInv'
<1> DEFINE l == Len(Queue)
<1> USE DEF registryVars
<1>1. PICK v \in Objects :
        /\ v = Min(Ahead) /\ v \in regionSet
        /\ Unvisited(v) /\ ~Unvisited(v)'
        /\ \A x \in regionSet \ {v} : Unvisited(x)' <=> Unvisited(x)
        /\ Queue' = Queue /\ l > 0 /\ Queue[1] = Head(batch)
  BY VisitMoves
<1>2. /\ raised' = raised /\ born' = born /\ wrapped' = wrapped /\ regionSet' = regionSet
      /\ \A x \in regionSet \ {v} : seen'[x] = seen[x]
      /\ wrapped[v] = Queue[1].region => seen'[v] = Queue[1].rank
      /\ wrapped[v] # Queue[1].region => seen'[v] = seen[v]
  BY <1>1 DEF VisitRegion, TypeOK
<1>3. /\ l \in Nat /\ 1 \in 1..l
      /\ \A i \in 1..l : Queue[i] \in Events /\ Queue[i].rank \in Nat
                         /\ Queue[i].rank > 0 /\ Queue[i].region \in Regions
  BY <1>1, QueueTyped
<1> HIDE DEF l
<1>4. QueueConsistent'
  BY <1>1, <1>2 DEF QueueInv, QueueConsistent
<1>5. SeenBeforeWaiting'
  <2>1. ASSUME NEW x \in regionSet \ {v}
        PROVE  /\ seen'[x] <= raised[wrapped[x]]
               /\ \A i \in 1..l : Queue[i].region = wrapped[x] /\ (i > 1 \/ Unvisited(x)') =>
                    Queue[i].rank > seen'[x]
    BY <2>1, <1>1, <1>2 DEF QueueInv, SeenBeforeWaiting, l
  <2>2. /\ seen'[v] <= raised[wrapped[v]]
        /\ \A i \in 1..l : Queue[i].region = wrapped[v] /\ (i > 1 \/ Unvisited(v)') =>
             Queue[i].rank > seen'[v]
    <3>1. CASE wrapped[v] # Queue[1].region
      BY <3>1, <1>1, <1>2 DEF QueueInv, SeenBeforeWaiting, l
    <3>2. CASE wrapped[v] = Queue[1].region
      BY <3>2, <1>1, <1>2, <1>3 DEF QueueInv, QueueConsistent, l
    <3>3. QED
      BY <3>1, <3>2
  <2>3. ASSUME NEW x \in regionSet
        PROVE  /\ seen'[x] <= raised[wrapped[x]]
               /\ \A i \in 1..l : Queue[i].region = wrapped[x] /\ (i > 1 \/ Unvisited(x)') =>
                    Queue[i].rank > seen'[x]
    BY <2>1, <2>2
  <2>4. QED
    BY <2>3, <1>1, <1>2 DEF SeenBeforeWaiting, l
<1>6. NextIsWaiting'
  <2> DEFINE first(x) == (IF seen'[x] = 0 THEN born[x] ELSE seen'[x]) + 1
  <2>1. ASSUME NEW x \in regionSet \ {v}, NEW n \in first(x)..raised[wrapped[x]]
        PROVE  \E i \in 1..l : /\ Queue[i] = [region |-> wrapped[x], rank |-> n]
                               /\ i > 1 \/ Unvisited(x)'
    BY <2>1, <1>1, <1>2 DEF QueueInv, NextIsWaiting, l
  <2>2. ASSUME NEW n \in first(v)..raised[wrapped[v]]
        PROVE  \E i \in 1..l : /\ Queue[i] = [region |-> wrapped[v], rank |-> n]
                               /\ i > 1 \/ Unvisited(v)'
    <3>1. CASE wrapped[v] # Queue[1].region
      <4>1. n \in ((IF seen[v] = 0 THEN born[v] ELSE seen[v]) + 1)..raised[wrapped[v]]
        BY <2>2, <3>1, <1>2
      <4>2. PICK i \in 1..l : Queue[i] = [region |-> wrapped[v], rank |-> n]
        BY <4>1, <1>1 DEF QueueInv, NextIsWaiting, l
      <4>3. i # 1
        BY <4>2, <3>1
      <4>4. QED
        BY <4>2, <4>3, <1>3
    <3>2. CASE wrapped[v] = Queue[1].region
      <4>1. n \in (Queue[1].rank + 1)..raised[Queue[1].region]
        BY <2>2, <3>2, <1>2, <1>3
      <4>2. PICK i \in 1..l : Queue[i] = [region |-> wrapped[v], rank |-> n]
        BY <4>1, <3>2, <1>3 DEF QueueInv, QueueConsistent, l
      <4>3. i # 1
        BY <4>1, <4>2, <1>3
      <4>4. QED
        BY <4>2, <4>3, <1>3
    <3>3. QED
      BY <3>1, <3>2
  <2>3. QED
    BY <2>1, <2>2, <1>1, <1>2 DEF NextIsWaiting, l
<1>7. QED
  BY <1>4, <1>5, <1>6 DEF QueueInv

\* nextEvents moves the events of the stream when the loop holds none.
LEMMA NextEventsQueue ==
  ASSUME TypeOK, LoopConsistent, NextEvents
  PROVE  Queue' = Queue
<1>1. batch = <<>> /\ eventVector \in Seq(Events)
  BY DEF NextEvents, LoopConsistent, TypeOK
<1>2. QED
  BY <1>1, ConcatEmptySeq DEF NextEvents, Queue

\* Every step preserves the queue.
LEMMA NextQueue == TypeOK /\ Control /\ QueueInv /\ [Next]_vars => QueueInv'
<1> SUFFICES ASSUME TypeOK, Control, QueueInv, [Next]_vars PROVE QueueInv'
  OBVIOUS
<1> USE DEF registryVars, streamVars, publishVars, historyVars
<1>0. IteratorValid /\ LoopConsistent
  BY DEF Control
<1>1. CASE UNCHANGED vars
  <2>1. Queue' = Queue /\ \A o \in regionSet : Unvisited(o)' <=> Unvisited(o)
    BY <1>1 DEF vars, Queue, Unvisited
  <2>2. QED
    BY <1>1, <2>1, QueueKept DEF vars
<1>2. ASSUME NEW t \in Threads, NEW r \in Regions, AddPush(t, r) PROVE QueueInv'
  BY <1>0, <1>2, PushQueue DEF AddPush
<1>3. ASSUME NEW r \in Regions, AddOnJsThread(r) PROVE QueueInv'
  BY <1>0, <1>3, PushQueue DEF AddOnJsThread
<1>4. ASSUME NEW t \in Threads, AddSend(t) PROVE QueueInv'
  <2>1. Queue' = Queue /\ \A o \in regionSet : Unvisited(o)' <=> Unvisited(o)
    BY <1>4 DEF AddSend, Queue, Unvisited
  <2>2. QED
    BY <1>4, <2>1, QueueKept DEF AddSend
<1>5. ASSUME NEW o \in Objects, NEW r \in Regions, NewInstance(o, r) PROVE QueueInv'
  BY <1>0, <1>5, NewInstanceQueue
<1>6. ASSUME NEW o \in Objects, Drop(o) PROVE QueueInv'
  <2>1. Queue' = Queue /\ \A x \in regionSet : Unvisited(x)' <=> Unvisited(x)
    BY <1>6 DEF Drop, Queue, Unvisited
  <2>2. QED
    BY <1>6, <2>1, QueueKept DEF Drop
<1>7. ASSUME NEW o \in Objects, Collect(o) PROVE QueueInv'
  <2>1. Queue' = Queue /\ \A x \in regionSet : Unvisited(x)' <=> Unvisited(x)
    BY <1>7 DEF Collect, Queue, Unvisited
  <2>2. regionSet' \subseteq regionSet /\ \A x \in regionSet' : wrapped'[x] = wrapped[x]
    BY <1>7 DEF Collect, TypeOK
  <2>3. QED
    BY <1>7, <2>1, <2>2, QueueKept DEF Collect
<1>8. CASE EmitCallback \/ NextEvents \/ BeginEvent \/ HandlerReturns \/ PublishReturns
           \/ LoopExits
  <2>1. Queue' = Queue
    <3>1. CASE NextEvents
      BY <1>0, <3>1, NextEventsQueue
    <3>2. CASE ~NextEvents
      BY <1>8, <3>2 DEF EmitCallback, BeginEvent, HandlerReturns, PublishReturns,
                        LoopExits, Queue
    <3>3. QED
      BY <3>1, <3>2
  <2>2. \A o \in regionSet : Unvisited(o)' <=> Unvisited(o)
    <3> SUFFICES ASSUME NEW o \in regionSet PROVE Unvisited(o)' <=> Unvisited(o)
      OBVIOUS
    <3>1. CASE EmitCallback
      BY <1>0, <3>1 DEF EmitCallback, LoopConsistent, Unvisited
    <3>2. CASE NextEvents
      BY <1>0, <3>2 DEF NextEvents, LoopConsistent, Unvisited
    <3>3. CASE BeginEvent
      <4>1. o > 0
        BY DEF TypeOK, Objects
      <4>2. QED
        BY <3>3, <4>1 DEF BeginEvent, Unvisited
    <3>4. CASE HandlerReturns \/ PublishReturns \/ LoopExits
      BY <3>4 DEF HandlerReturns, PublishReturns, LoopExits, Unvisited
    <3>5. QED
      BY <1>8, <3>1, <3>2, <3>3, <3>4
  <2>3. UNCHANGED <<raised, seen, born, wrapped, regionSet>>
    BY <1>8 DEF EmitCallback, NextEvents, BeginEvent, HandlerReturns, PublishReturns,
                LoopExits
  <2>4. QED
    BY <2>1, <2>2, <2>3, QueueKept
<1>9. CASE VisitRegion
  BY <1>0, <1>9, VisitQueue
<1>10. CASE EndEvent
  BY <1>0, <1>10, EndEventQueue
<1>11. QED
  BY <1>1, <1>2, <1>3, <1>4, <1>5, <1>6, <1>7, <1>8, <1>9, <1>10
  DEF Next, JavaScript, Publish

-----------------------------------------------------------------------------
(* Theorems about the events.                                              *)

\* The inductive invariant: the control of the loop, and the order and the
\* completeness of what is queued for each Region object.
THEOREM EventsInvariant == Spec => []Inv
<1>1. Init => QueueInv
  BY InitQueue
<1>2. TypeOK /\ Control /\ QueueInv /\ [Next]_vars => QueueInv'
  BY NextQueue
<1>3. TypeOK /\ Control /\ QueueInv => Inv
  BY DEF Control, QueueInv, Inv
<1>4. QED
  BY <1>1, <1>2, <1>3, ControlInvariant, PTL DEF Spec

\* An event that is queued, and not offered to the object yet, is in the stream
\* or among those taken, where the iterator has not passed the object.
LEMMA QueuedIsWaiting ==
  ASSUME TypeOK, NEW o \in Objects, NEW i \in 1..Len(Queue), i > 1 \/ Unvisited(o)
  PROVE  Waiting(Queue[i], o)
<1>1. /\ batch \in Seq(Events) /\ eventVector \in Seq(Events)
      /\ Len(batch) \in Nat /\ Len(eventVector) \in Nat
  BY LenProperties DEF TypeOK
<1>2. /\ Len(Queue) = Len(batch) + Len(eventVector)
      /\ Queue[i] = IF i <= Len(batch) THEN batch[i] ELSE eventVector[i - Len(batch)]
  BY <1>1, ConcatProperties DEF Queue
<1>3. CASE i > Len(batch)
  <2>1. i - Len(batch) \in 1..Len(eventVector)
    BY <1>1, <1>2, <1>3
  <2>2. QED
    BY <1>1, <1>2, <1>3, <2>1 DEF Waiting
<1>4. CASE i <= Len(batch) /\ i > 1
  BY <1>1, <1>2, <1>4 DEF Waiting
<1>5. CASE i <= Len(batch) /\ i = 1
  <2>1. batch # <<>> /\ Head(batch) = batch[1]
    BY <1>1, <1>5, EmptySeq, HeadTailProperties
  <2>2. QED
    BY <1>2, <1>5, <2>1 DEF Unvisited, Waiting
<1>6. QED
  BY <1>1, <1>3, <1>4, <1>5

\* No live Region object misses an event raised since it was made, however
\* many objects and events there are and however they come and go.
THEOREM NothingMissed == Spec => []NoEventMissed
<1>1. Inv => NoEventMissed
  <2> SUFFICES ASSUME Inv, NEW o \in regionSet,
                      NEW n \in (born[o] + 1)..raised[wrapped[o]], ~(n <= seen[o])
               PROVE  Waiting([region |-> wrapped[o], rank |-> n], o)
    BY DEF NoEventMissed
  <2>1. o \in Objects /\ born[o] \in Nat /\ seen[o] \in Nat /\ wrapped[o] \in Regions
    BY BoundsAssumption, RegionAssumption DEF Inv, TypeOK, IteratorValid
  <2>2. raised[wrapped[o]] \in Nat
    BY <2>1, BoundsAssumption DEF Inv, TypeOK
  <2>3. n \in ((IF seen[o] = 0 THEN born[o] ELSE seen[o]) + 1)..raised[wrapped[o]]
    BY <2>1, <2>2
  <2>4. PICK i \in 1..Len(Queue) : /\ Queue[i] = [region |-> wrapped[o], rank |-> n]
                                   /\ i > 1 \/ Unvisited(o)
    BY <2>3 DEF Inv, NextIsWaiting
  <2>5. QED
    BY <2>1, <2>4, QueuedIsWaiting DEF Inv
<1>2. QED
  BY <1>1, EventsInvariant, PTL

\* The first event of the queue is the next that the object visited must hear,
\* or an old one if it has heard none.
LEMMA FirstIsNext ==
  ASSUME Inv, NEW v \in regionSet, Unvisited(v), Len(Queue) > 0,
         Queue[1].region = wrapped[v]
  PROVE  LET n == Queue[1].rank
         IN /\ n \in 1..raised[wrapped[v]]
            /\ n = seen[v] + 1 \/ (seen[v] = 0 /\ n <= born[v] + 1)
<1> DEFINE n == Queue[1].rank
           last == IF seen[v] = 0 THEN born[v] ELSE seen[v]
<1>1. /\ v \in Objects /\ born[v] \in Nat /\ seen[v] \in Nat /\ wrapped[v] \in Regions
      /\ raised[wrapped[v]] \in Nat
  BY BoundsAssumption, RegionAssumption DEF Inv, TypeOK, IteratorValid
<1>2. /\ Len(Queue) \in Nat /\ 1 \in 1..Len(Queue)
      /\ \A i \in 1..Len(Queue) : Queue[i].rank \in Nat /\ Queue[i].rank > 0
  BY QueueTyped DEF Inv
<1>3. n > seen[v] /\ n <= raised[wrapped[v]] /\ n \in Nat /\ n > 0
  BY <1>2 DEF Inv, SeenBeforeWaiting, QueueConsistent
<1>4. n <= last + 1
  <2> SUFFICES ASSUME n > last + 1 PROVE FALSE
    BY <1>1, <1>3
  <2>1. last + 1 \in (last + 1)..raised[wrapped[v]]
    BY <1>1, <1>3
  <2>2. PICK i \in 1..Len(Queue) : Queue[i] = [region |-> wrapped[v], rank |-> last + 1]
    BY <2>1 DEF Inv, NextIsWaiting
  <2>3. CASE i = 1
    BY <2>2, <2>3, <1>1, <1>3
  <2>4. CASE i > 1
    <3>1. Queue[1].rank < Queue[i].rank
      BY <1>2, <2>2, <2>4 DEF Inv, QueueConsistent
    <3>2. QED
      BY <3>1, <2>2, <1>1, <1>3
  <2>5. QED
    BY <1>2, <2>3, <2>4
<1>5. QED
  BY <1>1, <1>3, <1>4

-----------------------------------------------------------------------------
(* The events implement EventFeed.                                         *)

\* At the start there is no Region object and no event.
LEMMA InitFeed == Init => Feed!Init
BY DEF Init, Feed!Init

\* Raising an event, making, deleting and visiting an object are steps of the
\* feed; every other step leaves it as it is.
LEMMA NextFeed == Inv /\ [Next]_vars => [Feed!Next]_Feed!vars
<1> SUFFICES ASSUME Inv, [Next]_vars PROVE [Feed!Next]_Feed!vars
  OBVIOUS
<1> USE DEF registryVars, streamVars, publishVars, historyVars
<1>1. CASE UNCHANGED vars
  BY <1>1 DEF vars, Feed!vars
<1>2. ASSUME NEW r \in Regions, Push(r) PROVE Feed!Next
  <2>1. Feed!Raise(r)
    BY <1>2 DEF Push, Feed!Raise
  <2>2. QED
    BY <2>1 DEF Feed!Next
<1>3. ASSUME NEW o \in Objects, NEW r \in Regions, NewInstance(o, r) PROVE Feed!Next
  <2>1. Feed!Make(o, r)
    BY <1>3 DEF NewInstance, Feed!Make
  <2>2. QED
    BY <2>1 DEF Feed!Next
<1>4. ASSUME NEW o \in Objects, Collect(o) PROVE Feed!Next
  <2>1. Feed!Delete(o)
    BY <1>4 DEF Collect, Feed!Delete
  <2>2. QED
    BY <2>1 DEF Feed!Next
<1>5. CASE VisitRegion
  <2>1. PICK v \in Objects :
          /\ v = Min(Ahead) /\ v \in regionSet /\ Unvisited(v)
          /\ Len(Queue) > 0 /\ Queue[1] = Head(batch)
    BY <1>5, VisitMoves DEF Inv
  <2>2. CASE wrapped[v] = Head(batch).region
    <3> DEFINE n == Queue[1].rank
    <3>1. /\ n \in 1..raised[wrapped[v]]
          /\ n = seen[v] + 1 \/ (seen[v] = 0 /\ n <= born[v] + 1)
      BY <2>1, <2>2, FirstIsNext
    <3>2. /\ seen' = [seen EXCEPT ![v] = n]
          /\ UNCHANGED <<wrapped, raised, born>>
      BY <1>5, <2>1, <2>2 DEF VisitRegion
    <3>3. wrapped[v] # NoRegion
      BY <2>1 DEF Inv, IteratorValid
    <3> HIDE DEF n
    <3>4. Feed!Hear(v)
      BY <3>1, <3>2, <3>3 DEF Feed!Hear
    <3>5. QED
      BY <3>4 DEF Feed!Next
  <2>3. CASE wrapped[v] # Head(batch).region
    BY <1>5, <2>1, <2>3 DEF VisitRegion, Feed!vars
  <2>4. QED
    BY <2>2, <2>3
<1>6. ASSUME NEW t \in Threads, AddSend(t) PROVE UNCHANGED Feed!vars
  BY <1>6 DEF AddSend, Feed!vars
<1>7. ASSUME NEW o \in Objects, Drop(o) PROVE UNCHANGED Feed!vars
  BY <1>7 DEF Drop, Feed!vars
<1>8. CASE EmitCallback \/ NextEvents \/ BeginEvent \/ HandlerReturns \/ EndEvent
           \/ PublishReturns \/ LoopExits
  BY <1>8 DEF EmitCallback, NextEvents, BeginEvent, HandlerReturns, EndEvent,
              PublishReturns, LoopExits, Feed!vars
<1>9. QED
  BY <1>1, <1>2, <1>3, <1>4, <1>5, <1>6, <1>7, <1>8
  DEF Next, JavaScript, Publish, AddPush, AddOnJsThread

\* The queue, the notifications and the walk over the set of addresses implement
\* the safety part of the feed: every Region object hears the events of its
\* region in order, each once and without a gap.
THEOREM ImplementsFeed == Spec => Feed!Spec
<1>1. Init => Feed!Init
  BY InitFeed
<1>2. Inv /\ [Next]_vars => [Feed!Next]_Feed!vars
  BY NextFeed
<1>3. QED
  BY <1>1, <1>2, EventsInvariant, PTL DEF Spec, Feed!Spec
===============================================================================
