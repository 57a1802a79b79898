--------------------------------- MODULE JsMap ---------------------------------
(***************************************************************************)
(* What a Region promises a program that uses its synchronous calls: a map *)
(* from keys to JavaScript values, in which other clients put as well.     *)
(* Several keys may stand for one entry, but never two of those that are   *)
(* promised to be kept as they are.  A call changes the entries it names   *)
(* and no other, or it fails and changes none; what was put is what is     *)
(* read; getAll answers with an object, so that entries of one name share  *)
(* an answer.                                                              *)
(***************************************************************************)
CONSTANTS
  Keys,      \* the keys that calls can name
  KeptKeys,  \* the keys a region promises to keep as they are
  Identity,  \* the entry that each key stands for
  Name,      \* the property that stands for each entry
  Inputs,    \* values given to put()
  Maps,      \* maps from keys to values given to putAll()
  KeySets,   \* keys given to getAll()
  Refused,   \* the values that cannot be stored
  Kept,      \* the values a region promises to keep as they are
  Readable,  \* the values that can be read
  Absent     \* what is read when there is no entry

VARIABLES
  contents,  \* the value of each entry
  open,      \* the cache is open
  reply      \* the outcome of the last step, if it was a call

vars == <<contents, open, reply>>

Identities == {Identity[k] : k \in Keys}
KeptApart == \A j, k \in KeptKeys : Identity[j] = Identity[k] => j = k

\* A call has failed or not; get() and getAll() also answer, with one value.
Reply(call, failed, answer) == [call |-> call, failed |-> failed, answer |-> answer]
NoReply == Reply("none", FALSE, <<>>)

Init ==
  /\ KeptApart
  /\ contents = [i \in Identities |-> Absent]
  /\ open = TRUE
  /\ reply = NoReply

Fail ==
  /\ \E call \in {"put", "putAll", "get", "getAll"} : reply' = Reply(call, TRUE, <<>>)
  /\ UNCHANGED <<contents, open>>

\* Of a value that is not promised to be kept anything may be read later, and
\* the call may fail although it has stored something; so it may with a key
\* that is not kept.
Stored(i, v) == contents'[i] \in IF v \in Kept THEN {v} ELSE Readable

Put(k, v) ==
  /\ open /\ v \notin Refused
  /\ \E failed \in {FALSE, k \notin KeptKeys \/ v \notin Kept} : reply' = Reply("put", failed, <<>>)
  /\ \A i \in Identities \ {Identity[k]} : contents'[i] = contents[i]
  /\ Stored(Identity[k], v)
  /\ UNCHANGED open

\* Of several keys that stand for one entry one is stored.
PutAll(m) ==
  LET keysOf(i) == {k \in DOMAIN m : Identity[k] = i}
  IN /\ open /\ \A k \in DOMAIN m : m[k] \notin Refused
     /\ \E failed \in {FALSE, \E k \in DOMAIN m : m[k] \notin Kept} :
          reply' = Reply("putAll", failed, <<>>)
     /\ \A i \in Identities :
          IF keysOf(i) = {} THEN contents'[i] = contents[i]
          ELSE \E k \in keysOf(i) : Stored(i, m[k])
     /\ UNCHANGED open

Get(k) ==
  /\ open
  /\ reply' = Reply("get", FALSE, <<contents[Identity[k]]>>)
  /\ UNCHANGED <<contents, open>>

GetAll(keys) ==
  LET named == {Identity[k] : k \in keys}
  IN /\ open
     /\ \E last \in [{Name[i] : i \in named} -> named] :
          /\ \A n \in DOMAIN last : Name[last[n]] = n
          /\ reply' = Reply("getAll", FALSE, <<[n \in DOMAIN last |-> contents[last[n]]]>>)
     /\ UNCHANGED <<contents, open>>

OtherClient(i) ==
  /\ reply' = NoReply
  /\ \A other \in Identities \ {i} : contents'[other] = contents[other]
  /\ contents'[i] \in Readable
  /\ UNCHANGED open

CloseCache ==
  /\ open' = FALSE
  /\ reply' = NoReply
  /\ UNCHANGED contents

Next ==
  \/ Fail
  \/ \E i \in Identities : OtherClient(i)
  \/ \E k \in Keys : Get(k) \/ \E v \in Inputs : Put(k, v)
  \/ \E m \in Maps : PutAll(m)
  \/ \E keys \in KeySets : GetAll(keys)
  \/ CloseCache

Spec == Init /\ [][Next]_vars
===============================================================================
