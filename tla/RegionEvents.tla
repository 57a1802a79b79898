----------------------------- MODULE RegionEvents -----------------------------
(***************************************************************************)
(* Region events: the way of an entry event from a cache listener of the   *)
(* native client, through EventStream, to the JavaScript Region objects.   *)
(*                                                                         *)
(* Native threads push events under EventStream::mutex and wake the libuv  *)
(* loop; RegionEventRegistry::publishEvents() takes them and emits each on *)
(* every registered Region object of its region, walking a std::set of     *)
(* object addresses while JavaScript handlers run.  A handler may call     *)
(* getRegion(), change entries synchronously, drop its references, and let *)
(* the garbage collector delete Region objects, all of which change the    *)
(* set that is being walked or the queue that was just taken.              *)
(*                                                                         *)
(* A Region object is its address, a number in 1..MaxObjects: the set is   *)
(* ordered by address.  An address is used again after its object is       *)
(* deleted.  Every program attaches its handlers when it gets the object.  *)
(* An event is the region it belongs to and its rank among the events of   *)
(* that region.                                                            *)
(***************************************************************************)
EXTENDS Naturals, Sequences, FiniteSetsExt

CONSTANTS
  Regions,     \* regions of the native cache
  Threads,     \* native threads that deliver events to the cache listener
  NoRegion,    \* what an unused address holds
  MaxObjects,  \* bound: addresses for Region objects
  MaxEvents    \* bound: events raised per region

ASSUME RegionAssumption == NoRegion \notin Regions
ASSUME BoundsAssumption == MaxObjects \in Nat /\ MaxEvents \in Nat

Objects == 1..MaxObjects
Events == [region : Regions, rank : 1..MaxEvents]

VARIABLES
  wrapped,       \* regionPtr of the Region object at each address
  jsHeld,        \* objects JavaScript, or a worker's persistent, can reach
  regionSet,     \* RegionEventRegistry::regionSet
  listened,      \* regions on which setCacheListener was called
  eventVector,   \* EventStream::eventVector
  asyncRef,      \* the async handle keeps the loop alive (uv_ref/uv_unref)
  asyncPending,  \* the async handle was sent and its callback has not begun
  threadPc,      \* where each native thread is in EventStream::add
  loopPc,        \* where the JavaScript thread is in publishEvents
  batch,         \* events taken by publishEvents and not deleted yet
  cursor,        \* the object its set iterator points at; 0 before the first
  handles,       \* objects pinned by Local handles of its HandleScope
  exited,        \* the loop ran out of work and the process stopped
  raised,        \* history: events raised so far, per region
  born,          \* history: events raised when the object was created
  seen           \* history: rank of the last event emitted on the object

registryVars == <<wrapped, jsHeld, regionSet, listened>>
streamVars == <<eventVector, asyncRef, asyncPending, threadPc>>
publishVars == <<loopPc, batch, cursor, handles>>
historyVars == <<raised, born, seen>>
vars == <<registryVars, streamVars, publishVars, exited, historyVars>>

Init ==
  /\ wrapped = [o \in Objects |-> NoRegion]
  /\ jsHeld = {} /\ regionSet = {} /\ listened = {}
  /\ eventVector = <<>> /\ asyncRef = FALSE /\ asyncPending = FALSE
  /\ threadPc = [t \in Threads |-> "idle"]
  /\ loopPc = "idle" /\ batch = <<>> /\ cursor = 0 /\ handles = {}
  /\ exited = FALSE
  /\ raised = [r \in Regions |-> 0]
  /\ born = [o \in Objects |-> 0] /\ seen = [o \in Objects |-> 0]

\* JavaScript code runs, from the loop or as a handler of a region event.
JsRunning == ~exited /\ loopPc \in {"idle", "handler"}

\* V8 may collect garbage: whenever JavaScript runs, and when publishEvents
\* allocates the payload of the next event.
CanCollect == ~exited /\ loopPc \in {"idle", "event", "handler"}

-----------------------------------------------------------------------------
(* EventStream::add, called by RegionEventRegistry::emit.                  *)

\* Slips in add(), which no action uses: the process is not kept alive, or the
\* event is put at the front.
SlipNoRef(r) ==
  /\ r \in listened
  /\ raised[r] < MaxEvents
  /\ raised' = [raised EXCEPT ![r] = @ + 1]
  /\ eventVector' = Append(eventVector, [region |-> r, rank |-> raised[r] + 1])
  /\ UNCHANGED <<asyncRef, registryVars, publishVars, exited, born, seen>>
SlipPushFront(r) ==
  /\ r \in listened
  /\ raised[r] < MaxEvents
  /\ raised' = [raised EXCEPT ![r] = @ + 1]
  /\ eventVector' = <<[region |-> r, rank |-> raised[r] + 1]>> \o eventVector
  /\ asyncRef' = TRUE
  /\ UNCHANGED <<registryVars, publishVars, exited, born, seen>>

\* The part under the mutex: push_back and uv_ref.
Push(r) ==
  /\ r \in listened
  /\ raised[r] < MaxEvents
  /\ raised' = [raised EXCEPT ![r] = @ + 1]
  /\ eventVector' = Append(eventVector, [region |-> r, rank |-> raised[r] + 1])
  /\ asyncRef' = TRUE
  /\ UNCHANGED <<registryVars, publishVars, exited, born, seen>>

\* A native thread runs the cache listener: afterCreate, afterUpdate or
\* afterDestroy.
AddPush(t, r) ==
  /\ ~exited
  /\ threadPc[t] = "idle"
  /\ threadPc' = [threadPc EXCEPT ![t] = "send"]
  /\ Push(r)
  /\ UNCHANGED asyncPending

\* A slip: the loop is not told.
SlipNoSend(t) ==
  /\ ~exited
  /\ threadPc[t] = "send"
  /\ threadPc' = [threadPc EXCEPT ![t] = "idle"]
  /\ UNCHANGED <<registryVars, eventVector, asyncRef, asyncPending,
                 publishVars, exited, historyVars>>

\* uv_async_send, after the unlock.
AddSend(t) ==
  /\ ~exited
  /\ threadPc[t] = "send"
  /\ threadPc' = [threadPc EXCEPT ![t] = "idle"]
  /\ asyncPending' = TRUE
  /\ UNCHANGED <<registryVars, eventVector, asyncRef, publishVars, exited,
                 historyVars>>

\* putSync() and the like raise the event on the JavaScript thread itself.
\* No other thread reads the queue or the pending flag, so that add() is one
\* step here.
AddOnJsThread(r) ==
  /\ JsRunning
  /\ Push(r)
  /\ asyncPending' = TRUE
  /\ UNCHANGED threadPc

-----------------------------------------------------------------------------
(* Region objects.                                                         *)

\* A slip: the address registered is null.
SlipRegisterNull(o, r) ==
  /\ JsRunning
  /\ wrapped[o] = NoRegion
  /\ wrapped' = [wrapped EXCEPT ![o] = r]
  /\ listened' = listened \cup {r}
  /\ regionSet' = regionSet \cup {0}
  /\ jsHeld' = jsHeld \cup {o}
  /\ UNCHANGED <<streamVars, publishVars, exited, historyVars>>

\* Region::NewInstance, with RegionEventRegistry::add.
NewInstance(o, r) ==
  /\ JsRunning
  /\ wrapped[o] = NoRegion
  /\ wrapped' = [wrapped EXCEPT ![o] = r]
  /\ listened' = listened \cup {r}
  /\ regionSet' = regionSet \cup {o}
  /\ jsHeld' = jsHeld \cup {o}
  /\ born' = [born EXCEPT ![o] = raised[r]]
  /\ seen' = [seen EXCEPT ![o] = 0]
  /\ UNCHANGED <<streamVars, publishVars, exited, raised>>

\* JavaScript drops its last reference to the object.
Drop(o) ==
  /\ JsRunning
  /\ o \in jsHeld
  /\ jsHeld' = jsHeld \ {o}
  /\ UNCHANGED <<wrapped, regionSet, listened, streamVars, publishVars, exited,
                 historyVars>>

\* The garbage collector deletes the object: ~Region, RegionEventRegistry::remove.
Collect(o) ==
  /\ CanCollect
  /\ wrapped[o] # NoRegion
  /\ o \notin jsHeld \cup handles
  /\ wrapped' = [wrapped EXCEPT ![o] = NoRegion]
  /\ regionSet' = regionSet \ {o}
  /\ UNCHANGED <<jsHeld, listened, streamVars, publishVars, exited, historyVars>>

-----------------------------------------------------------------------------
(* RegionEventRegistry::publishEvents on the JavaScript thread.            *)

\* libuv clears the pending flag and calls emitCallback.
EmitCallback ==
  /\ ~exited
  /\ loopPc = "idle"
  /\ asyncPending
  /\ asyncPending' = FALSE
  /\ loopPc' = "take"
  /\ UNCHANGED <<registryVars, eventVector, asyncRef, threadPc, batch, cursor,
                 handles, exited, historyVars>>

\* A slip: uv_unref is forgotten.
SlipNoUnref ==
  /\ loopPc = "take"
  /\ batch' = eventVector
  /\ eventVector' = <<>>
  /\ loopPc' = "event"
  /\ UNCHANGED <<registryVars, asyncRef, asyncPending, threadPc, cursor,
                 handles, exited, historyVars>>

\* EventStream::nextEvents: copy, clear and uv_unref under the mutex.
NextEvents ==
  /\ loopPc = "take"
  /\ batch' = eventVector
  /\ eventVector' = <<>>
  /\ asyncRef' = FALSE
  /\ loopPc' = "event"
  /\ UNCHANGED <<registryVars, asyncPending, threadPc, cursor, handles, exited,
                 historyVars>>

\* The payload is built and the iterator starts at regionSet.begin().
BeginEvent ==
  /\ loopPc = "event"
  /\ batch # <<>>
  /\ loopPc' = "visit"
  /\ cursor' = 0
  /\ UNCHANGED <<registryVars, streamVars, batch, handles, exited, historyVars>>

\* The objects the iterator has still to visit, in the set as it is now.
Ahead == {o \in regionSet : o > cursor}

\* Slips: no handle is made, or an event is emitted on one object only.
SlipNoHandle ==
  /\ loopPc = "visit"
  /\ Ahead # {}
  /\ cursor' = Min(Ahead)
  /\ loopPc' = IF wrapped[cursor'] = Head(batch).region THEN "handler" ELSE "visit"
  /\ UNCHANGED <<registryVars, streamVars, batch, handles, exited, historyVars>>
SlipFirstObject ==
  /\ loopPc = "visit"
  /\ Ahead # {}
  /\ LET o == Min(Ahead)
     IN /\ cursor' = MaxObjects
        /\ handles' = handles \cup {o}
        /\ seen' = [seen EXCEPT ![o] = Head(batch).rank]
  /\ UNCHANGED <<registryVars, streamVars, loopPc, batch, exited, raised, born>>

\* The iterator moves to the next object, handle() makes a Local handle of it,
\* and the event is emitted on it if the regions are the same.
VisitRegion ==
  /\ loopPc = "visit"
  /\ Ahead # {}
  /\ LET o == Min(Ahead)
         event == Head(batch)
     IN /\ cursor' = o
        /\ handles' = handles \cup {o}
        /\ IF wrapped[o] = event.region
           THEN /\ loopPc' = "handler"
                /\ seen' = [seen EXCEPT ![o] = event.rank]
           ELSE UNCHANGED <<loopPc, seen>>
  /\ UNCHANGED <<registryVars, streamVars, batch, exited, raised, born>>

\* The handlers of the object return.
HandlerReturns ==
  /\ loopPc = "handler"
  /\ loopPc' = "visit"
  /\ UNCHANGED <<registryVars, streamVars, batch, cursor, handles, exited,
                 historyVars>>

\* The iterator is at end(): the event is deleted.
EndEvent ==
  /\ loopPc = "visit"
  /\ Ahead = {}
  /\ batch' = Tail(batch)
  /\ cursor' = 0
  /\ loopPc' = "event"
  /\ UNCHANGED <<registryVars, streamVars, handles, exited, historyVars>>

\* publishEvents returns and its HandleScope ends.
PublishReturns ==
  /\ loopPc = "event"
  /\ batch = <<>>
  /\ handles' = {}
  /\ loopPc' = "idle"
  /\ UNCHANGED <<registryVars, streamVars, batch, cursor, exited, historyVars>>

\* Nothing else keeps the loop alive: uv_run returns and the process ends.
LoopExits ==
  /\ ~exited
  /\ loopPc = "idle"
  /\ ~asyncRef
  /\ exited' = TRUE
  /\ UNCHANGED <<registryVars, streamVars, publishVars, historyVars>>

-----------------------------------------------------------------------------
Publish ==
  \/ EmitCallback \/ NextEvents \/ BeginEvent \/ VisitRegion \/ HandlerReturns
  \/ EndEvent \/ PublishReturns

JavaScript ==
  \/ \E r \in Regions : AddOnJsThread(r)
  \/ \E o \in Objects : Drop(o) \/ \E r \in Regions : NewInstance(o, r)

Next ==
  \/ \E t \in Threads : AddSend(t) \/ \E r \in Regions : AddPush(t, r)
  \/ JavaScript
  \/ \E o \in Objects : Collect(o)
  \/ Publish
  \/ LoopExits
  \/ exited /\ UNCHANGED vars

Spec == Init /\ [][Next]_vars

\* Native threads that hold an event finish add(), the loop runs a pending
\* callback, and handlers return.
Fairness == WF_vars(Publish) /\ \A t \in Threads : WF_vars(AddSend(t))

FairSpec == Spec /\ Fairness

-----------------------------------------------------------------------------
(* Properties.                                                             *)

TypeOK ==
  /\ wrapped \in [Objects -> Regions \cup {NoRegion}]
  /\ jsHeld \subseteq Objects /\ regionSet \subseteq Objects
  /\ listened \subseteq Regions
  /\ eventVector \in Seq(Events) /\ batch \in Seq(Events)
  /\ asyncRef \in BOOLEAN /\ asyncPending \in BOOLEAN /\ exited \in BOOLEAN
  /\ threadPc \in [Threads -> {"idle", "send"}]
  /\ loopPc \in {"idle", "take", "event", "visit", "handler"}
  /\ cursor \in 0..MaxObjects /\ handles \subseteq Objects
  /\ raised \in [Regions -> 0..MaxEvents]
  /\ born \in [Objects -> 0..MaxEvents] /\ seen \in [Objects -> 0..MaxEvents]

\* Whatever the handlers do, the iterator of publishEvents points at a
\* registered object when it is advanced, and every registered address holds
\* a Region object: nothing that was deleted is dereferenced.
IteratorValid ==
  /\ \A o \in Objects : o \in regionSet <=> wrapped[o] # NoRegion
  /\ loopPc \in {"visit", "handler"} /\ cursor # 0 => cursor \in regionSet

\* The handle keeps the process alive exactly while events wait in the stream:
\* it cannot stop with events unpublished, nor hang because of the stream.
RefMatchesQueue == asyncRef <=> eventVector # <<>>

\* Events in the stream have a notification on its way.
NotStranded ==
  eventVector # <<>> =>
    \/ asyncPending \/ loopPc = "take"
    \/ \E t \in Threads : threadPc[t] = "send"

\* The process never stops with an event raised and not published.
ExitLosesNothing == exited => eventVector = <<>> /\ batch = <<>>

\* Event e has still to be published to object o: it is in the stream, or
\* taken, and the iterator has not passed o.
Waiting(e, o) ==
  \/ \E i \in 1..Len(eventVector) : eventVector[i] = e
  \/ \E i \in 2..Len(batch) : batch[i] = e
  \/ batch # <<>> /\ Head(batch) = e /\ (loopPc = "event" \/ cursor < o)

\* No live Region object misses an event of its region that was raised after
\* the object was created, however objects come and go meanwhile.
NoEventMissed ==
  \A o \in regionSet : \A n \in (born[o] + 1)..raised[wrapped[o]] :
    n <= seen[o] \/ Waiting([region |-> wrapped[o], rank |-> n], o)

\* The feed of each Region object, whose state is the history of this module.
Feed == INSTANCE EventFeed WITH region <- wrapped, heard <- seen

\* The queue, the notifications and the walk over the set of addresses implement
\* EventFeed: an object sees the events of its region in the order in which they
\* were raised, each once and without a gap, and those raised since it was made
\* eventually, unless it is deleted before.
FeedSpec == Feed!FairSpec

\* Every event raised is eventually published: the stream empties and
\* publishEvents returns.
EventsArePublished ==
  eventVector # <<>> ~> eventVector = <<>> /\ loopPc = "idle"

-----------------------------------------------------------------------------
(* The inductive invariant.                                                *)

\* The events that were not published to all objects, in the order in which
\* they will be, wherever they are.
Queue == batch \o eventVector

\* The first of them has not been offered to object o.
Unvisited(o) == batch = <<>> \/ loopPc = "event" \/ cursor < o

\* Where the loop is, what it has taken, and that it pins the object its
\* iterator points at.
LoopConsistent ==
  /\ exited => loopPc = "idle"
  /\ loopPc \in {"idle", "take"} => batch = <<>>
  /\ loopPc \in {"visit", "handler"} =>
       batch # <<>> /\ (cursor # 0 => cursor \in regionSet \cap handles)

\* The queue holds a last part of the events of each region, in their order.
QueueConsistent ==
  /\ \A i, j \in 1..Len(Queue) :
       i < j /\ Queue[i].region = Queue[j].region => Queue[i].rank < Queue[j].rank
  /\ \A i \in 1..Len(Queue) : Queue[i].rank <= raised[Queue[i].region]
  /\ \A i \in 1..Len(Queue) :
       \A n \in (Queue[i].rank + 1)..raised[Queue[i].region] :
         \E j \in 1..Len(Queue) : Queue[j] = [region |-> Queue[i].region, rank |-> n]

\* What an object has seen is behind what is still to come for it.
SeenBeforeWaiting ==
  \A o \in regionSet :
    /\ seen[o] <= raised[wrapped[o]]
    /\ \A i \in 1..Len(Queue) :
         Queue[i].region = wrapped[o] /\ (i > 1 \/ Unvisited(o)) =>
           Queue[i].rank > seen[o]

\* What follows the last event an object has seen, or the events before it was
\* made, is still to come for it.
NextIsWaiting ==
  \A o \in regionSet :
    \A n \in ((IF seen[o] = 0 THEN born[o] ELSE seen[o]) + 1)..raised[wrapped[o]] :
      \E i \in 1..Len(Queue) :
        Queue[i] = [region |-> wrapped[o], rank |-> n] /\ (i > 1 \/ Unvisited(o))

\* The inductive invariant of RegionEventsProofs: what each part of the system
\* relies on while the others change the registry and the queue.
Inv ==
  /\ TypeOK /\ IteratorValid /\ LoopConsistent /\ RefMatchesQueue /\ NotStranded
  /\ QueueConsistent /\ SeenBeforeWaiting /\ NextIsWaiting
=============================================================================
