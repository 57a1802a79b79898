------------------------------- MODULE EventFeed -------------------------------
(***************************************************************************)
(* What a Region object promises to a program that listens to it, without  *)
(* threads, queues and sets of addresses: it hears the events of its       *)
(* region one by one in the order in which they were raised and, for as    *)
(* long as it exists, all of those raised since it was made.  Of the       *)
(* events that are older than the object it may hear the last ones.        *)
(***************************************************************************)
EXTENDS Naturals

CONSTANTS
  Regions,   \* the regions
  Objects,   \* the Region objects
  NoRegion,  \* the region of an object that does not exist
  MaxEvents  \* a bound on the events of a region

VARIABLES
  region,  \* the region of each object
  raised,  \* the number of events of each region so far
  born,    \* that number when the object was made
  heard    \* the last event it heard; 0: none

vars == <<region, raised, born, heard>>

Init ==
  /\ region = [o \in Objects |-> NoRegion]
  /\ raised = [r \in Regions |-> 0]
  /\ born = [o \in Objects |-> 0]
  /\ heard = [o \in Objects |-> 0]

Raise(r) ==
  /\ raised[r] < MaxEvents
  /\ raised' = [raised EXCEPT ![r] = @ + 1]
  /\ UNCHANGED <<region, born, heard>>

Make(o, r) ==
  /\ region[o] = NoRegion
  /\ region' = [region EXCEPT ![o] = r]
  /\ born' = [born EXCEPT ![o] = raised[r]]
  /\ heard' = [heard EXCEPT ![o] = 0]
  /\ UNCHANGED raised

Delete(o) ==
  /\ region[o] # NoRegion
  /\ region' = [region EXCEPT ![o] = NoRegion]
  /\ UNCHANGED <<raised, born, heard>>

\* The first event may be an old one, or the first new one; every other is the
\* next.
Hear(o) ==
  /\ region[o] # NoRegion
  /\ \E n \in 1..raised[region[o]] :
       /\ n = heard[o] + 1 \/ (heard[o] = 0 /\ n <= born[o] + 1)
       /\ heard' = [heard EXCEPT ![o] = n]
  /\ UNCHANGED <<region, raised, born>>

\* An event that the object must hear was raised.
Due(o) ==
  /\ region[o] # NoRegion
  /\ raised[region[o]] > born[o] /\ raised[region[o]] > heard[o]

Next ==
  \/ \E r \in Regions : Raise(r)
  \/ \E o \in Objects : Delete(o) \/ Hear(o) \/ \E r \in Regions : Make(o, r)

Spec == Init /\ [][Next]_vars

\* An object to which an event is due, and that is not deleted, hears one.
FairSpec == Spec /\ \A o \in Objects : WF_vars(Due(o) /\ Hear(o))
===============================================================================
