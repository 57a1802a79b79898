------------------------------- MODULE RegionData -------------------------------
(***************************************************************************)
(* The contents of a region under the synchronous calls putSync, getSync,  *)
(* putAllSync and getAllSync of this program, and the puts and removes of  *)
(* other clients, which store values of Java types.  Each call runs on the *)
(* JavaScript thread from its first line to its last; what is hard here is *)
(* the conversion of its arguments and of its answer, and that             *)
(* Nan::ThrowError does not leave the function: a call may throw, go on,   *)
(* and throw again, of which JavaScript sees the last.                     *)
(*                                                                         *)
(* External: put, get, putAll and getAll of the native client, which may   *)
(* fail and change nothing; a native get() of a NULL key always fails.     *)
(***************************************************************************)
EXTENDS Conversions

CONSTANTS
  PutInputs,    \* the keys given to putSync(), valid or not, each with a value
  GetInputs,    \* the keys given to getSync(), valid or not
  MapInputs,    \* the fields of the objects given to putAllSync()
  KeyArrays,    \* the arrays given to getAllSync()
  OtherKeys     \* the entries that other clients change, by their keys

ASSUME InputsAssumption ==
  /\ PutInputs \subseteq JsValues \X JsValues
  /\ GetInputs \cup OtherKeys \subseteq JsValues
  /\ \A k \in OtherKeys : GemfireKey(k) # NULLPTR
  /\ \A f \in MapInputs : \A n \in DOMAIN f : {Str(n), f[n]} \subseteq JsValues
  /\ \A a \in KeyArrays : \A i \in DOMAIN a : a[i] \in JsValues

VARIABLES
  entries,  \* the region: a function from native keys to native values
  open,     \* the cache is open
  reply     \* the outcome of the last step, if it was a call: what it threw
            \* last, or what it returned

vars == <<entries, open, reply>>

Reply(call, thrown, value) == [call |-> call, thrown |-> thrown, value |-> value]
NoReply == Reply("none", "none", Null)

Init ==
  /\ entries = [k \in {} |-> NULLPTR]
  /\ open = TRUE
  /\ reply = NoReply

\* Nothing is stored: no open cache is found for the region, a key or a value is
\* invalid, or the native operation fails.
Refuse(call, why) ==
  /\ reply' = Reply(call, why, Null)
  /\ UNCHANGED <<entries, open>>

\* The native client overwrites entries and adds others.
Stored(new) ==
  [key \in DOMAIN entries \cup DOMAIN new |->
     IF key \in DOMAIN new THEN new[key] ELSE entries[key]]

\* A slip: the key is not looked at again after it was converted.
SlipKeyOrder(k, v) ==
  /\ open
  /\ GemfireValue[v] # NULLPTR
  /\ entries' = Stored([put \in {GemfireKey(k)} |-> GemfireValue[v]])
  /\ reply' = Reply("put", IF Throws[k] \/ Throws[v] THEN "conversion" ELSE "none", Null)
  /\ UNCHANGED open

\* putSync(): a conversion that has thrown does not keep it from storing.
PutSync(k, v) ==
  \/ ~open /\ Refuse("put", "closed")
  \/ /\ open
     /\ LET key == GemfireKey(k)
            value == GemfireValue[v]
        IN \/ key = NULLPTR /\ Refuse("put", "key")
           \/ key # NULLPTR /\ value = NULLPTR /\ Refuse("put", "value")
           \/ key # NULLPTR /\ value # NULLPTR /\ Refuse("put", "native")
           \/ /\ key # NULLPTR /\ value # NULLPTR
              /\ entries' = Stored([put \in {key} |-> value])
              /\ reply' = Reply("put", IF Throws[k] \/ Throws[v] THEN "conversion" ELSE "none",
                                Null)
              /\ UNCHANGED open

\* What is read of a key: NULL if it has no entry.
Entry(key) == IF key \in DOMAIN entries THEN entries[key] ELSE NULLPTR

\* getSync(): an invalid key is left to the native client.
GetSync(k) ==
  \/ ~open /\ Refuse("get", "closed")
  \/ open /\ Refuse("get", "native")
  \/ /\ open /\ GemfireKey(k) # NULLPTR
     /\ reply' = Reply("get", IF Throws[k] THEN "conversion" ELSE "none",
                       V8Value[Entry(GemfireKey(k))])
     /\ UNCHANGED <<entries, open>>

\* putAllSync().
PutAllSync(fields) ==
  \/ ~open /\ Refuse("putAll", "closed")
  \/ /\ open
     /\ \E map \in GemfireHashMaps(fields) :
          \/ map = NULLPTR /\ Refuse("putAll", "value")
          \/ map # NULLPTR /\ Refuse("putAll", "native")
          \/ /\ map # NULLPTR
             /\ entries' = Stored(map.entries)
             /\ reply' = Reply("putAll",
                               IF \E n \in DOMAIN fields : Throws[fields[n]]
                               THEN "conversion" ELSE "none", Null)
             /\ UNCHANGED open

\* getAllSync(): an empty array is answered without the native client.
GetAllSync(array) ==
  \/ ~open /\ Refuse("getAll", "closed")
  \/ /\ open
     /\ LET keys == GemfireKeys(array)
        IN \/ keys = NULLPTR /\ Refuse("getAll", "key")
           \/ keys # NULLPTR /\ array # <<>> /\ Refuse("getAll", "native")
           \/ /\ keys # NULLPTR
              /\ \E answer \in V8Objects([k \in keys.keys |-> Entry(k)]) :
                   reply' = Reply("getAll",
                                  IF \E i \in DOMAIN array : Throws[array[i]]
                                  THEN "conversion" ELSE "none", answer)
              /\ UNCHANGED <<entries, open>>

\* Another client puts a value of a Java type, or removes the entry.
OtherPuts(k, value) ==
  /\ entries' = Stored([put \in {GemfireKey(k)} |-> value])
  /\ reply' = NoReply
  /\ UNCHANGED open
OtherRemoves(k) ==
  /\ entries' = [key \in DOMAIN entries \ {GemfireKey(k)} |-> entries[key]]
  /\ reply' = NoReply
  /\ UNCHANGED open

\* cache.close().
CloseCache ==
  /\ open
  /\ open' = FALSE
  /\ reply' = NoReply
  /\ UNCHANGED entries

Next ==
  \/ \E input \in PutInputs : PutSync(input[1], input[2])
  \/ \E k \in GetInputs : GetSync(k)
  \/ \E fields \in MapInputs : PutAllSync(fields)
  \/ \E array \in KeyArrays : GetAllSync(array)
  \/ \E k \in OtherKeys : OtherRemoves(k) \/ \E value \in JavaValues : OtherPuts(k, value)
  \/ CloseCache

Spec == Init /\ [][Next]_vars

-----------------------------------------------------------------------------
(* Properties.                                                             *)

\* The keys of the program, those of maps and of other clients among them, and
\* the native keys they become.
JsKeys ==
  {k \in {input[1] : input \in PutInputs} \cup GetInputs \cup OtherKeys
           \cup UNION {{a[i] : i \in DOMAIN a} : a \in KeyArrays} :
     GemfireKey(k) # NULLPTR}
    \cup {Str(n) : n \in UNION {DOMAIN f : f \in MapInputs}}
Identities == {GemfireKey(k) : k \in JsKeys}

TypeOK ==
  /\ DOMAIN entries \subseteq Identities \ {NULLPTR}
  /\ \A k \in DOMAIN entries : entries[k] \in NativeValues \ {NULLPTR}
  /\ open \in BOOLEAN
  /\ reply.call \in {"none", "put", "putAll", "get", "getAll"}
  /\ reply.thrown \in {"none", "closed", "native", "conversion", "key", "value"}

\* The shape of an instance: its field names and which of them hold an array.
Shape(c) == [n \in DOMAIN c.fields |-> c.fields[n].kind = "ArrayList"]

\* Entries whose PDX classes have one name have one shape, whatever characters
\* the names of their fields are made of: getClassName() confuses no two.
ShapesHaveOwnNames ==
  \A j, k \in DOMAIN entries :
    /\ entries[j].kind = "Pdx" /\ entries[k].kind = "Pdx"
    /\ entries[j].class = entries[k].class
    => Shape(entries[j]) = Shape(entries[k])

\* Two integers that a Java client stored and that differ are read as different
\* numbers unless the program is warned of both.
SilentIntegersDistinct ==
  \A j, k \in DOMAIN entries :
    /\ entries[j].kind = "Int64" /\ entries[k].kind = "Int64"
    /\ entries[j] # entries[k] /\ V8Value[entries[j]] = V8Value[entries[k]]
    => Warns(entries[j].int) /\ Warns(entries[k].int)

Storables == {v \in JsValues \ {Null} : Storable[v]}
Readables == {V8Value[c] : c \in NativeValues}
JsMaps == {[k \in {Str(n) : n \in DOMAIN f} |-> f[k.units]] : f \in MapInputs}
JsKeySets == {{a[i] : i \in DOMAIN a} : a \in {b \in KeyArrays : GemfireKeys(b) # NULLPTR}}

\* What getSync() and getAllSync() answer.
Answer ==
  CASE reply.call = "get" /\ reply.thrown = "none" -> <<reply.value>>
    [] reply.call = "getAll" /\ reply.thrown = "none" -> <<reply.value.fields>>
    [] OTHER -> <<>>

\* The region as JsMap describes it.
KeptJsKeys == {k \in JsKeys : Storable[k]}
IdentityOf == [k \in JsKeys |-> GemfireKey(k)]
NameOf == [i \in Identities |-> PropertyName(i)]
JsInputs == {input[2] : input \in PutInputs}
RefusedValues == {Null, Fun} \cup Unwritable

Map == INSTANCE JsMap WITH
  Keys <- JsKeys, KeptKeys <- KeptJsKeys, Identity <- IdentityOf, Name <- NameOf,
  Inputs <- JsInputs, Maps <- JsMaps, KeySets <- JsKeySets,
  Kept <- Storables, Readable <- Readables, Absent <- Null, Refused <- RefusedValues,
  contents <- [i \in Identities |-> V8Value[Entry(i)]],
  reply <- [call |-> reply.call, failed |-> reply.thrown # "none", answer |-> Answer]

\* The synchronous calls with all their conversions implement JsMap: what was
\* put is read back, a call changes only what it names, and all of it or
\* nothing, also when another client changes entries between two calls; and two
\* keys that the conversion loses nothing of are never one entry.
MapSpec == Map!Spec
===============================================================================
