---------------------------- MODULE FunctionStream ----------------------------
(***************************************************************************)
(* What executeFunction() promises to the JavaScript program, without the  *)
(* threads, locks and notifications that bring it about: the emitter of a  *)
(* call yields the results of the function in the order in which they were *)
(* sent, then closes once, with "end" after all of them or with "error"    *)
(* after some of them, and is silent from then on.                         *)
(***************************************************************************)
EXTENDS Naturals, Sequences

CONSTANTS Calls, Results

VARIABLES
  produced,  \* results the function has sent, per call
  consumed,  \* results the emitter has yielded, per call
  outcome    \* how the emitter was closed: "none" while it is open

streamVars == <<produced, consumed, outcome>>

Init ==
  /\ produced = [c \in Calls |-> <<>>]
  /\ consumed = [c \in Calls |-> <<>>]
  /\ outcome = [c \in Calls |-> "none"]

\* The function sends one more result.
Produce(c, r) ==
  /\ outcome[c] = "none"
  /\ produced' = [produced EXCEPT ![c] = Append(@, r)]
  /\ UNCHANGED <<consumed, outcome>>

\* The emitter yields the oldest result it has not yielded yet.
Consume(c) ==
  /\ outcome[c] = "none"
  /\ \E r \in Results :
       /\ Len(consumed[c]) < Len(produced[c])
       /\ r = produced[c][Len(consumed[c]) + 1]
       /\ consumed' = [consumed EXCEPT ![c] = Append(@, r)]
  /\ UNCHANGED <<produced, outcome>>

\* The function has returned and everything it sent was yielded.
Finish(c) ==
  /\ outcome[c] = "none"
  /\ consumed[c] = produced[c]
  /\ outcome' = [outcome EXCEPT ![c] = "end"]
  /\ UNCHANGED <<produced, consumed>>

\* The function has failed; results may remain that are never yielded.
Fail(c) ==
  /\ outcome[c] = "none"
  /\ outcome' = [outcome EXCEPT ![c] = "error"]
  /\ UNCHANGED <<produced, consumed>>

Next ==
  \E c \in Calls :
    \/ \E r \in Results : Produce(c, r)
    \/ Consume(c) \/ Finish(c) \/ Fail(c)

Spec == Init /\ [][Next]_streamVars
===============================================================================
