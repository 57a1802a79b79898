---------------------------- MODULE RegionDataProofs ----------------------------
(***************************************************************************)
(* Proofs about RegionData for any keys and values, however deep: types,   *)
(* and the synchronous calls implement JsMap.                              *)
(***************************************************************************)
EXTENDS RegionData, ConversionsProofs

-----------------------------------------------------------------------------
(* Keys and values.                                                        *)

\* gemfireValue() gives NULL for null, for a function and for an object that
\* cannot be written, and for nothing else.
LEMMA NullExactly ==
  ASSUME NEW v \in JsValues
  PROVE  GemfireValue[v] = NULLPTR <=> v \in RefusedValues
<1>1. IsJsValue(v)
  BY JsValuesAssumption
<1>2. v.type \in {"null", "function"} <=> v \in {Null, Fun}
  BY <1>1 DEF IsJsValue, Str, Bool, Num, Date, Arr, Obj, Fun, Undef, Null
<1>3. GemfireValue[v].kind = IF v \in Unwritable THEN "NULLPTR" ELSE KindOf(v.type)
  BY KindConverted
<1>4. v.type \in {"null", "function"} \/ v \in Unwritable => GemfireValue[v] = NULLPTR
  BY KindOfType
<1>5. v.type \notin {"null", "function"} /\ v \notin Unwritable
        => GemfireValue[v].kind # "NULLPTR"
  BY <1>3, JsTypes DEF KindOf
<1>6. NULLPTR.kind = "NULLPTR"
  BY DEF NULLPTR
<1>7. QED
  BY <1>2, <1>4, <1>5, <1>6 DEF RefusedValues

\* A name in an object that is given to putAllSync() is a key.
LEMMA NamesAreKeys ==
  ASSUME NEW fields \in MapInputs, NEW n \in DOMAIN fields
  PROVE  /\ Str(n) \in JsKeys
         /\ Str(n) \in JsValues
         /\ GemfireKey(Str(n)) = CString(WString(n))
<1>1. Str(n) \in JsKeys /\ Str(n) \in JsValues
  BY InputsAssumption DEF JsKeys
<1>2. Str(n).type = "string" /\ Str(n).units = n
  BY DEF Str
<1>3. GemfireValue[Str(n)] = CString(WString(n))
  <2>1. GemfireValue[Str(n)] = CString(WString(Str(n).units))
    BY <1>1, <1>2, KindOfType
  <2>2. QED
    BY <1>2, <2>1
<1>4. CString(WString(n)).kind = "String"
  BY DEF CString
<1>5. QED
  BY <1>1, <1>3, <1>4 DEF GemfireKey

\* A key of the program becomes a native key.
LEMMA KeyConverted ==
  ASSUME NEW k \in JsKeys
  PROVE  /\ k \in JsValues
         /\ GemfireKey(k) = GemfireValue[k]
         /\ GemfireKey(k) # NULLPTR
         /\ GemfireKey(k) \in Identities /\ GemfireKey(k) \in NativeValues
<1>1. k \in JsValues
  BY InputsAssumption DEF JsKeys
<1>2. GemfireKey(k) # NULLPTR
  <2>1. CASE \E fields \in MapInputs : \E n \in DOMAIN fields : k = Str(n)
    <3>1. PICK fields \in MapInputs : \E n \in DOMAIN fields : k = Str(n)
      BY <2>1
    <3>2. PICK n \in DOMAIN fields : k = Str(n)
      BY <3>1
    <3>3. GemfireKey(k) = CString(WString(n))
      BY <3>2, NamesAreKeys
    <3>4. QED
      BY <3>3 DEF CString, NULLPTR
  <2>2. QED
    BY <2>1 DEF JsKeys
<1>3. GemfireKey(k) = GemfireValue[k]
  BY <1>2 DEF GemfireKey
<1>4. QED
  BY <1>1, <1>2, <1>3 DEF Identities, NativeValues

\* Keys of which nothing is lost on the way stay different.
LEMMA KeptKeysApart ==
  ASSUME NEW j \in KeptJsKeys, NEW k \in KeptJsKeys, GemfireKey(j) = GemfireKey(k)
  PROVE  j = k
<1>1. j \in JsKeys /\ k \in JsKeys /\ Storable[j] /\ Storable[k]
  BY DEF KeptJsKeys
<1>2. V8Value[GemfireKey(j)] = j /\ V8Value[GemfireKey(k)] = k
  BY <1>1, KeyConverted, ThereAndBack
<1>3. QED
  BY <1>2

\* A map that putAllSync() builds has an entry for each key that a name
\* becomes, with the value of such a name.
LEMMA HashMap ==
  ASSUME NEW fields \in MapInputs, NEW map \in GemfireHashMaps(fields), map # NULLPTR
  PROVE  /\ DOMAIN map.entries = {GemfireKey(Str(n)) : n \in DOMAIN fields}
         /\ \A key \in DOMAIN map.entries :
              \E n \in DOMAIN fields : /\ key = GemfireKey(Str(n))
                                       /\ map.entries[key] = GemfireValue[fields[n]]
         /\ \A n \in DOMAIN fields : /\ fields[n] \in JsValues
                                     /\ GemfireValue[fields[n]] # NULLPTR
<1> DEFINE names == DOMAIN fields
           keys == {CString(WString(n)) : n \in names}
<1>1. \A n \in names : GemfireValue[fields[n]] # NULLPTR
  BY DEF GemfireHashMaps
<1>2. map \in HashMapsOf(fields, names)
  BY <1>1 DEF GemfireHashMaps
<1>3. PICK kept \in [keys -> names] :
        /\ \A k \in keys : k = CString(WString(kept[k]))
        /\ map = [kind |-> "HashMap",
                  entries |-> [k \in DOMAIN kept |-> GemfireValue[fields[kept[k]]]]]
  BY <1>2 DEF HashMapsOf
<1>4. DOMAIN map.entries = keys
  BY <1>3
<1>5. \A n \in names : GemfireKey(Str(n)) = CString(WString(n)) /\ fields[n] \in JsValues
  BY NamesAreKeys, InputsAssumption
<1>6. keys = {GemfireKey(Str(n)) : n \in names}
  BY <1>5
<1>7. ASSUME NEW key \in keys
      PROVE  \E n \in names : key = GemfireKey(Str(n)) /\ map.entries[key] = GemfireValue[fields[n]]
  <2>1. kept[key] \in names /\ key = CString(WString(kept[key]))
    BY <1>3
  <2>2. map.entries[key] = GemfireValue[fields[kept[key]]]
    BY <1>3
  <2>3. QED
    BY <1>5, <2>1, <2>2
<1> HIDE DEF keys
<1>8. QED
  BY <1>1, <1>4, <1>5, <1>6, <1>7

-----------------------------------------------------------------------------
(* Types.                                                                  *)

\* A converted value other than NULL may be an entry.
LEMMA ConvertedMayBeStored ==
  ASSUME NEW v \in JsValues, GemfireValue[v] # NULLPTR
  PROVE  GemfireValue[v] \in NativeValues \ {NULLPTR}
BY DEF NativeValues

\* What other clients store is not NULL.
LEMMA JavaValuesMayBeStored ==
  JavaValues \subseteq NativeValues \ {NULLPTR}
BY JavaValuesAssumption DEF NativeValues, CInt64, NULLPTR

\* Entries are stored under keys only, and none of them is NULL.
LEMMA StoringKeepsTypes ==
  ASSUME TypeOK, NEW new, DOMAIN new \subseteq Identities \ {NULLPTR},
         \A k \in DOMAIN new : new[k] \in NativeValues \ {NULLPTR},
         entries' = Stored(new)
  PROVE  /\ DOMAIN entries' \subseteq Identities \ {NULLPTR}
         /\ \A k \in DOMAIN entries' : entries'[k] \in NativeValues \ {NULLPTR}
BY DEF Stored, TypeOK

\* TypeOK: no step stores NULL, or anything under what is no key.
THEOREM RegionTyped == Spec => []TypeOK
<1>1. Init => TypeOK
  BY DEF Init, TypeOK, NoReply, Reply
<1>2. TypeOK /\ [Next]_vars => TypeOK'
  <2> SUFFICES ASSUME TypeOK, [Next]_vars PROVE TypeOK'
    OBVIOUS
  <2>1. ASSUME NEW call \in {"put", "putAll", "get", "getAll"},
               NEW why \in {"closed", "native", "key", "value"}, Refuse(call, why)
        PROVE  TypeOK'
    BY <2>1 DEF TypeOK, Refuse, Reply
  <2>2. ASSUME NEW k \in GetInputs, GetSync(k) PROVE TypeOK'
    BY <2>1, <2>2 DEF GetSync, TypeOK, Reply
  <2>3. ASSUME NEW input \in PutInputs, PutSync(input[1], input[2]) PROVE TypeOK'
    <3> DEFINE k == input[1]
               v == input[2]
    <3>1. CASE /\ open /\ GemfireKey(k) # NULLPTR /\ GemfireValue[v] # NULLPTR
               /\ entries' = Stored([put \in {GemfireKey(k)} |-> GemfireValue[v]])
               /\ reply' = Reply("put", IF Throws[k] \/ Throws[v] THEN "conversion" ELSE "none",
                                 Null)
               /\ UNCHANGED open
      <4>1. GemfireValue[v] \in NativeValues \ {NULLPTR}
        BY <3>1, ConvertedMayBeStored, InputsAssumption
      <4>2. GemfireKey(k) \in Identities \ {NULLPTR}
        BY <3>1 DEF JsKeys, Identities
      <4>3. /\ DOMAIN entries' \subseteq Identities \ {NULLPTR}
            /\ \A j \in DOMAIN entries' : entries'[j] \in NativeValues \ {NULLPTR}
        BY <3>1, <4>1, <4>2, StoringKeepsTypes
      <4>4. QED
        BY <3>1, <4>3 DEF TypeOK, Reply
    <3>2. QED
      BY <2>1, <2>3, <3>1 DEF PutSync
  <2>4. ASSUME NEW fields \in MapInputs, PutAllSync(fields) PROVE TypeOK'
    <3>1. ASSUME NEW map \in GemfireHashMaps(fields), map # NULLPTR,
                 entries' = Stored(map.entries), UNCHANGED open,
                 reply' = Reply("putAll",
                                IF \E n \in DOMAIN fields : Throws[fields[n]]
                                THEN "conversion" ELSE "none", Null)
          PROVE  TypeOK'
      <4> DEFINE new == map.entries
      <4>1. DOMAIN new \subseteq Identities \ {NULLPTR}
        BY <3>1, HashMap, NamesAreKeys, KeyConverted
      <4>2. \A k \in DOMAIN new : new[k] \in NativeValues \ {NULLPTR}
        BY <3>1, HashMap, ConvertedMayBeStored
      <4>3. entries' = Stored(new)
        BY <3>1
      <4> HIDE DEF new
      <4>4. /\ DOMAIN entries' \subseteq Identities \ {NULLPTR}
            /\ \A j \in DOMAIN entries' : entries'[j] \in NativeValues \ {NULLPTR}
        BY <4>1, <4>2, <4>3, StoringKeepsTypes
      <4>5. QED
        BY <3>1, <4>4 DEF TypeOK, Reply
    <3>2. QED
      BY <2>1, <2>4, <3>1 DEF PutAllSync
  <2>5. ASSUME NEW array \in KeyArrays, GetAllSync(array) PROVE TypeOK'
    <3>1. ASSUME NEW answer, NEW why \in {"conversion", "none"},
                 reply' = Reply("getAll", why, answer),
                 UNCHANGED <<entries, open>>
          PROVE  TypeOK'
      BY <3>1 DEF TypeOK, Reply
    <3>2. QED
      BY <2>1, <2>5, <3>1 DEF GetAllSync
  <2>6. ASSUME NEW k \in OtherKeys, OtherRemoves(k) PROVE TypeOK'
    BY <2>6 DEF OtherRemoves, TypeOK, NoReply, Reply
  <2>7. ASSUME NEW k \in OtherKeys, NEW value \in JavaValues, OtherPuts(k, value)
        PROVE  TypeOK'
    <3>1. GemfireKey(k) \in Identities \ {NULLPTR}
      BY InputsAssumption DEF JsKeys, Identities
    <3>2. /\ DOMAIN entries' \subseteq Identities \ {NULLPTR}
          /\ \A j \in DOMAIN entries' : entries'[j] \in NativeValues \ {NULLPTR}
      BY <2>7, <3>1, StoringKeepsTypes, JavaValuesMayBeStored DEF OtherPuts
    <3>3. QED
      BY <2>7, <3>2 DEF OtherPuts, TypeOK, NoReply, Reply
  <2>8. CASE CloseCache
    BY <2>8 DEF CloseCache, TypeOK, NoReply, Reply
  <2>9. CASE UNCHANGED vars
    BY <2>9 DEF vars, TypeOK
  <2>10. QED
    BY <2>2, <2>3, <2>4, <2>5, <2>6, <2>7, <2>8, <2>9 DEF Next
<1>3. QED
  BY <1>1, <1>2, PTL DEF Spec

\* The integers that other clients stored.
LEMMA IntegerEntries ==
  ASSUME NEW c \in NativeValues, c.kind = "Int64"
  PROVE  c = CInt64(c.int) /\ c.int \in Int /\ V8Value[c].number = Nearest(c.int)
<1>1. c \in JavaValues
  <2>1. \A v \in JsValues : c # GemfireValue[v]
    BY KindConverted, JsTypes DEF KindOf
  <2>2. c # NULLPTR
    BY DEF NULLPTR
  <2>3. QED
    BY <2>1, <2>2 DEF NativeValues
<1>2. V8Value[c] = V8Of(V8Value, c)
  BY V8ValueDef
<1>3. V8Of(V8Value, c) = Num(Nearest(c.int))
  BY DEF V8Of
<1>4. Num(Nearest(c.int)).number = Nearest(c.int)
  BY DEF Num
<1>5. QED
  BY <1>1, <1>2, <1>3, <1>4, JavaValuesAssumption

\* SilentIntegersDistinct: whatever the widths, two integers of other clients
\* are not read as one number without a warning.
THEOREM SilentIntegers == Spec => []SilentIntegersDistinct
<1>1. TypeOK => SilentIntegersDistinct
  <2> SUFFICES ASSUME TypeOK,
                      NEW j \in DOMAIN entries, NEW k \in DOMAIN entries,
                      entries[j].kind = "Int64", entries[k].kind = "Int64",
                      entries[j] # entries[k], V8Value[entries[j]] = V8Value[entries[k]]
               PROVE  Warns(entries[j].int) /\ Warns(entries[k].int)
    BY DEF SilentIntegersDistinct
  <2>1. entries[j] \in NativeValues /\ entries[k] \in NativeValues
    BY DEF TypeOK
  <2>2. entries[j].int # entries[k].int
    BY <2>1, IntegerEntries
  <2>3. Nearest(entries[j].int) = Nearest(entries[k].int)
    BY <2>1, IntegerEntries
  <2>4. QED
    BY <2>1, <2>2, <2>3, IntegerEntries, SilentIntegersKept
<1>2. QED
  BY <1>1, RegionTyped, PTL

\* A value with a PDX class is a converted object, and its class is named after
\* the fields of that object.
LEMMA PdxEntries ==
  ASSUME NEW c \in NativeValues, c.kind = "Pdx"
  PROVE  \E f : /\ IsFields(f)
               /\ c.class = ClassName(f)
               /\ DOMAIN c.fields = DOMAIN f
               /\ \A n \in DOMAIN f : c.fields[n].kind = "ArrayList" <=> f[n].type = "array"
<1>1. PICK v \in JsValues : c = GemfireValue[v]
  BY JavaValuesAssumption DEF NativeValues, NULLPTR, CInt64
<1>2. v.type = "object" /\ v \notin Unwritable
  BY <1>1, KindConverted, JsTypes DEF KindOf
<1>3. c = [kind |-> "Pdx", class |-> ClassName(v.fields),
           fields |-> [n \in DOMAIN v.fields |-> GemfireValue[v.fields[n]]]]
  BY <1>1, <1>2, KindOfType
<1>4. IsFields(v.fields)
  BY <1>2, JsValuesAssumption DEF IsFields
<1>5. ASSUME NEW n \in DOMAIN v.fields
      PROVE  c.fields[n].kind = "ArrayList" <=> v.fields[n].type = "array"
  <2>1. v.fields[n] \in JsValues
    BY <1>2, JsValuesAssumption DEF PartsOf
  <2>2. c.fields[n] = GemfireValue[v.fields[n]]
    BY <1>3
  <2>3. c.fields[n].kind = IF v.fields[n] \in Unwritable THEN "NULLPTR"
                           ELSE KindOf(v.fields[n].type)
    BY <2>1, <2>2, KindConverted
  <2>4. QED
    BY <2>1, <2>3, JsTypes DEF KindOf
<1>6. c.class = ClassName(v.fields) /\ DOMAIN c.fields = DOMAIN v.fields
  BY <1>3
<1>7. QED
  BY <1>4, <1>5, <1>6, Zenon

\* ShapesHaveOwnNames: getClassName() gives two shapes two names, whatever the
\* names of their fields.
THEOREM ShapesNamed == Spec => []ShapesHaveOwnNames
<1>1. TypeOK => ShapesHaveOwnNames
  <2> SUFFICES ASSUME TypeOK,
                      NEW j \in DOMAIN entries, NEW k \in DOMAIN entries,
                      entries[j].kind = "Pdx", entries[k].kind = "Pdx",
                      entries[j].class = entries[k].class
               PROVE  Shape(entries[j]) = Shape(entries[k])
    BY DEF ShapesHaveOwnNames
  <2> DEFINE c == entries[j]
             d == entries[k]
  <2>1. c \in NativeValues /\ d \in NativeValues /\ c.kind = "Pdx" /\ d.kind = "Pdx" /\ c.class = d.class
    BY DEF TypeOK
  <2> HIDE DEF c, d
  <2>2. PICK f : /\ IsFields(f)
                 /\ c.class = ClassName(f)
                 /\ DOMAIN c.fields = DOMAIN f
                 /\ \A n \in DOMAIN f : c.fields[n].kind = "ArrayList" <=> f[n].type = "array"
    BY <2>1, PdxEntries, Zenon
  <2>3. PICK g : /\ IsFields(g)
                 /\ d.class = ClassName(g)
                 /\ DOMAIN d.fields = DOMAIN g
                 /\ \A n \in DOMAIN g : d.fields[n].kind = "ArrayList" <=> g[n].type = "array"
    BY <2>1, PdxEntries, Zenon
  <2>4. /\ DOMAIN f = DOMAIN g
        /\ \A n \in DOMAIN f : f[n].type = "array" <=> g[n].type = "array"
    <3>1. IsFields(f) /\ IsFields(g) /\ ClassName(f) = ClassName(g)
      BY <2>1, <2>2, <2>3, Zenon
    <3>2. QED
      BY <3>1, ClassNamesDistinct
  <2>5. \A n \in DOMAIN c.fields :
          (c.fields[n].kind = "ArrayList") = (d.fields[n].kind = "ArrayList")
    BY <2>2, <2>3, <2>4
  <2>6. Shape(c) = Shape(d)
    BY <2>2, <2>3, <2>4, <2>5 DEF Shape
  <2>7. QED
    BY <2>6 DEF c, d
<1>2. QED
  BY <1>1, RegionTyped, PTL

-----------------------------------------------------------------------------
(* The synchronous calls implement JsMap.                                  *)

\* What JsMap says of a call: it failed or not, and its answer.
MapReply(call, failed, answer) == [call |-> call, failed |-> failed, answer |-> answer]

\* The outcome of a call, as JsMap sees it.
Outcome == MapReply(reply.call, reply.thrown # "none", Answer)

\* A call that fails and stores nothing.
LEMMA FailingFails ==
  ASSUME NEW call \in {"put", "putAll", "get", "getAll"},
         Outcome' = MapReply(call, TRUE, <<>>), UNCHANGED <<entries, open>>
  PROVE  Map!Next
<1>1. Map!Fail
  BY DEF Outcome, MapReply, Map!Fail, Map!Reply, Entry
<1>2. QED
  BY <1>1 DEF Map!Next

\* So is one that is refused.
LEMMA RefusalFails ==
  ASSUME NEW call \in {"put", "putAll", "get", "getAll"},
         NEW why \in {"closed", "native", "key", "value"}, Refuse(call, why)
  PROVE  Map!Next
<1>1. Outcome' = MapReply(call, TRUE, <<>>)
  BY DEF Refuse, Reply, Outcome, MapReply, Answer
<1>2. QED
  BY <1>1, FailingFails DEF Refuse

\* What is read of a key after entries were stored.
LEMMA EntryAfterStoring ==
  ASSUME NEW new, NEW key, entries' = Stored(new)
  PROVE  Entry(key)' = IF key \in DOMAIN new THEN new[key] ELSE Entry(key)
BY DEF Entry, Stored

\* What can be read of a value that was put, as JsMap promises it.
LEMMA ReadAfterPut ==
  ASSUME NEW v \in JsValues, v \notin RefusedValues
  PROVE  V8Value[GemfireValue[v]] \in IF v \in Storables THEN {v} ELSE Readables
BY ThereAndBack DEF Storables, Readables, NativeValues, RefusedValues

\* putSync() is put.
LEMMA PutSyncPuts ==
  ASSUME NEW input \in PutInputs, PutSync(input[1], input[2])
  PROVE  Map!Next
<1> DEFINE k == input[1]
           v == input[2]
<1>1. CASE /\ open /\ GemfireKey(k) # NULLPTR /\ GemfireValue[v] # NULLPTR
           /\ entries' = Stored([put \in {GemfireKey(k)} |-> GemfireValue[v]])
           /\ reply' = Reply("put", IF Throws[k] \/ Throws[v] THEN "conversion" ELSE "none", Null)
           /\ UNCHANGED open
  <2>1. k \in JsKeys /\ v \in JsInputs /\ k \in JsValues /\ v \in JsValues
    BY <1>1, InputsAssumption DEF JsKeys, JsInputs
  <2>2. PutSync(k, v)
    OBVIOUS
  <2> HIDE DEF k, v
  <2>3. v \notin RefusedValues
    BY <1>1, <2>1, NullExactly
  <2>4. Throws[k] \/ Throws[v] => k \notin KeptJsKeys \/ v \notin Storables
    BY <2>1, StorableDoesNotThrow DEF Storables, KeptJsKeys
  <2>5. \E failed \in {FALSE, k \notin KeptJsKeys \/ v \notin Storables} :
          Outcome' = MapReply("put", failed, <<>>)
    BY <1>1, <2>4 DEF Reply, Answer, Outcome, MapReply
  <2>6. \A i \in Identities \ {GemfireKey(k)} : Entry(i)' = Entry(i)
    BY <1>1, EntryAfterStoring
  <2>7. Entry(GemfireKey(k))' = GemfireValue[v] /\ GemfireKey(k) \in Identities
    BY <1>1, <2>1, EntryAfterStoring, KeyConverted
  <2>8. V8Value[Entry(GemfireKey(k))'] \in IF v \in Storables THEN {v} ELSE Readables
    BY <2>1, <2>3, <2>7, ReadAfterPut
  <2>9. IdentityOf[k] = GemfireKey(k)
    BY <2>1 DEF IdentityOf
  <2>10. Map!Identities = Identities
    BY DEF Map!Identities, Identities, IdentityOf
  <2>11. Map!Put(k, v)
    BY <1>1, <2>3, <2>5, <2>6, <2>7, <2>8, <2>9, <2>10
       DEF Map!Put, Map!Stored, Map!Reply, Outcome, MapReply
  <2>12. QED
    BY <2>1, <2>11 DEF Map!Next
<1>2. QED
  BY <1>1, RefusalFails DEF PutSync

\* getSync() is get, and one that throws although it reads has failed.
LEMMA GetSyncGets ==
  ASSUME NEW k \in GetInputs, GetSync(k)
  PROVE  Map!Next
<1>1. CASE /\ open /\ GemfireKey(k) # NULLPTR
           /\ reply' = Reply("get", IF Throws[k] THEN "conversion" ELSE "none",
                             V8Value[Entry(GemfireKey(k))])
           /\ UNCHANGED <<entries, open>>
  <2>1. k \in JsKeys
    BY <1>1 DEF JsKeys
  <2>2. CASE Throws[k]
    <3>1. Outcome' = MapReply("get", TRUE, <<>>)
      BY <1>1, <2>2 DEF Reply, Answer, Outcome, MapReply
    <3>2. QED
      BY <1>1, <3>1, FailingFails
  <2>3. CASE ~Throws[k]
    <3>1. Outcome' = MapReply("get", FALSE, <<V8Value[Entry(GemfireKey(k))]>>)
      BY <1>1, <2>3 DEF Reply, Answer, Outcome, MapReply
    <3>2. IdentityOf[k] = GemfireKey(k) /\ GemfireKey(k) \in Identities
      BY <2>1, KeyConverted DEF IdentityOf
    <3>3. Map!Get(k)
      BY <1>1, <3>1, <3>2 DEF Map!Get, Map!Reply, Entry, Outcome, MapReply
    <3>4. QED
      BY <2>1, <3>3 DEF Map!Next
  <2>4. QED
    BY <2>2, <2>3
<1>2. QED
  BY <1>1, RefusalFails DEF GetSync

\* Another client changes one entry.
LEMMA OtherClientChanges ==
  ASSUME NEW k \in OtherKeys,
         \A i \in Identities \ {GemfireKey(k)} : Entry(i)' = Entry(i),
         V8Value[Entry(GemfireKey(k))'] \in Readables, reply' = NoReply, UNCHANGED open
  PROVE  Map!Next
<1>1. GemfireKey(k) \in Identities
  BY InputsAssumption DEF JsKeys, Identities
<1>2. Outcome' = MapReply("none", FALSE, <<>>)
  BY DEF NoReply, Reply, Answer, Outcome, MapReply
<1>3. Map!Identities = Identities
  BY DEF Map!Identities, Identities, IdentityOf
<1>4. Map!OtherClient(GemfireKey(k))
  BY <1>1, <1>2, <1>3 DEF Map!OtherClient, Map!NoReply, Map!Reply, Outcome, MapReply
<1>5. QED
  BY <1>1, <1>3, <1>4 DEF Map!Next

\* It puts a value.
LEMMA OtherPutsAreOtherClient ==
  ASSUME NEW k \in OtherKeys, NEW value \in JavaValues, OtherPuts(k, value)
  PROVE  Map!Next
<1>1. \A i \in Identities \ {GemfireKey(k)} : Entry(i)' = Entry(i)
  BY EntryAfterStoring DEF OtherPuts
<1>2. Entry(GemfireKey(k))' = value
  BY EntryAfterStoring DEF OtherPuts
<1>3. V8Value[Entry(GemfireKey(k))'] \in Readables
  BY <1>2 DEF Readables, NativeValues
<1>4. QED
  BY <1>1, <1>3, OtherClientChanges DEF OtherPuts

\* Or it removes the entry.
LEMMA OtherRemovesAreOtherClient ==
  ASSUME NEW k \in OtherKeys, OtherRemoves(k)
  PROVE  Map!Next
<1>1. \A i \in Identities \ {GemfireKey(k)} : Entry(i)' = Entry(i)
  BY DEF OtherRemoves, Entry
<1>2. Entry(GemfireKey(k))' = NULLPTR
  BY DEF OtherRemoves, Entry
<1>3. V8Value[Entry(GemfireKey(k))'] \in Readables
  BY <1>2 DEF Readables, NativeValues
<1>4. QED
  BY <1>1, <1>3, OtherClientChanges DEF OtherRemoves

\* putAllSync() is putAll: of the names that become one key, one is stored.
LEMMA PutAllSyncPutsAll ==
  ASSUME NEW fields \in MapInputs, PutAllSync(fields)
  PROVE  Map!Next
<1>1. ASSUME open, NEW map \in GemfireHashMaps(fields), map # NULLPTR,
             entries' = Stored(map.entries), UNCHANGED open,
             reply' = Reply("putAll",
                            IF \E n \in DOMAIN fields : Throws[fields[n]]
                            THEN "conversion" ELSE "none", Null)
      PROVE  Map!Next
  <2> DEFINE m == [k \in {Str(n) : n \in DOMAIN fields} |-> fields[k.units]]
             new == map.entries
             keysOf(i) == {k \in DOMAIN m : IdentityOf[k] = i}
  <2>1. m \in JsMaps
    BY DEF JsMaps
  <2>2. DOMAIN m = {Str(n) : n \in DOMAIN fields}
    OBVIOUS
  <2>3. \A n \in DOMAIN fields : m[Str(n)] = fields[n]
    BY DEF Str
  <2>4. /\ DOMAIN new = {GemfireKey(Str(n)) : n \in DOMAIN fields}
        /\ \A key \in DOMAIN new :
             \E n \in DOMAIN fields : key = GemfireKey(Str(n)) /\ new[key] = GemfireValue[fields[n]]
        /\ \A n \in DOMAIN fields : fields[n] \in JsValues /\ GemfireValue[fields[n]] # NULLPTR
    BY <1>1, HashMap
  <2>5. entries' = Stored(new)
    BY <1>1
  <2> HIDE DEF m, new
  <2>6. \A n \in DOMAIN fields : fields[n] \notin RefusedValues
    BY <2>4, NullExactly
  <2>7. \A k \in DOMAIN m : m[k] \notin RefusedValues
    BY <2>2, <2>3, <2>6
  <2>8. (\E n \in DOMAIN fields : Throws[fields[n]]) => \E k \in DOMAIN m : m[k] \notin Storables
    BY <2>2, <2>3, <2>4, StorableDoesNotThrow DEF Storables
  <2>9. \E failed \in {FALSE, \E k \in DOMAIN m : m[k] \notin Storables} :
          Outcome' = MapReply("putAll", failed, <<>>)
    BY <1>1, <2>8 DEF Reply, Answer, Outcome, MapReply
  <2>10. \A n \in DOMAIN fields : IdentityOf[Str(n)] = GemfireKey(Str(n))
    BY NamesAreKeys DEF IdentityOf
  <2>11. ASSUME NEW i \in Identities
         PROVE  IF keysOf(i) = {} THEN Entry(i)' = Entry(i)
                ELSE \E k \in keysOf(i) :
                       V8Value[Entry(i)'] \in IF m[k] \in Storables THEN {m[k]} ELSE Readables
    <3>1. CASE i \in DOMAIN new
      <4>1. PICK n \in DOMAIN fields : i = GemfireKey(Str(n)) /\ new[i] = GemfireValue[fields[n]]
        BY <2>4, <3>1
      <4>2. Str(n) \in keysOf(i) /\ m[Str(n)] = fields[n]
        BY <2>2, <2>3, <2>10, <4>1
      <4>3. Entry(i)' = GemfireValue[fields[n]]
        BY <2>5, <3>1, <4>1, EntryAfterStoring
      <4>4. V8Value[Entry(i)'] \in IF fields[n] \in Storables THEN {fields[n]} ELSE Readables
        BY <2>4, <2>6, <4>3, ReadAfterPut
      <4> HIDE DEF keysOf
      <4>5. QED
        BY <4>2, <4>4
    <3>2. CASE i \notin DOMAIN new
      <4>1. keysOf(i) = {}
        BY <2>2, <2>4, <2>10, <3>2
      <4>2. Entry(i)' = Entry(i)
        BY <2>5, <3>2, EntryAfterStoring
      <4>3. QED
        BY <4>1, <4>2
    <3>3. QED
      BY <3>1, <3>2
  <2>12. Map!Identities = Identities
    BY DEF Map!Identities, Identities, IdentityOf
  <2>13. Map!PutAll(m)
    BY <1>1, <2>7, <2>9, <2>11, <2>12 DEF Map!PutAll, Map!Stored, Map!Reply, Outcome, MapReply
  <2>14. QED
    BY <2>1, <2>13 DEF Map!Next
<1>2. QED
  BY <1>1, RefusalFails DEF PutAllSync

\* getAllSync() is getAll: of the keys with one name, any may be the last.
LEMMA GetAllSyncGetsAll ==
  ASSUME NEW array \in KeyArrays, GetAllSync(array)
  PROVE  Map!Next
<1> DEFINE native == {GemfireKey(array[i]) : i \in DOMAIN array}
           read == [k \in native |-> Entry(k)]
           keys == {array[i] : i \in DOMAIN array}
           names == {PropertyName(k) : k \in native}
<1>1. ASSUME open, GemfireKeys(array) # NULLPTR, NEW answer \in V8Objects(read),
             reply' = Reply("getAll", "none", answer), UNCHANGED <<entries, open>>
      PROVE  Map!Next
  <2>1. NULLPTR \notin native
    BY <1>1 DEF GemfireKeys
  <2>2. keys \in JsKeySets
    BY <1>1 DEF JsKeySets
  <2>3. keys \subseteq JsKeys
    BY <2>1 DEF JsKeys
  <2>4. native = {IdentityOf[k] : k \in keys}
    BY <2>3 DEF IdentityOf
  <2>5. native \subseteq Identities
    BY <2>3 DEF Identities
  <2>6. DOMAIN read = native /\ \A k \in native : read[k] = Entry(k)
    OBVIOUS
  <2> HIDE DEF native, read, keys
  <2>7. PICK last \in [names -> native] :
          /\ \A n \in names : PropertyName(last[n]) = n
          /\ answer = Obj([n \in names |-> V8Value[Entry(last[n])]])
    BY <1>1, <2>6 DEF V8Objects
  <2>8. {NameOf[i] : i \in native} = names /\ \A i \in native : NameOf[i] = PropertyName(i)
    BY <2>5 DEF NameOf
  <2>9. Outcome' = MapReply("getAll", FALSE, <<[n \in names |-> V8Value[Entry(last[n])]]>>)
    BY <1>1, <2>7 DEF Reply, Answer, Outcome, MapReply, Obj
  <2> HIDE DEF names
  <2>10. \A n \in names : NameOf[last[n]] = n /\ last[n] \in Identities
    BY <2>5, <2>7, <2>8
  <2>11. Map!GetAll(keys)
    <3> DEFINE contents == [i \in Identities |-> V8Value[Entry(i)]]
    <3>1. [n \in names |-> V8Value[Entry(last[n])]] = [n \in DOMAIN last |-> contents[last[n]]]
      BY <2>7, <2>10
    <3>2. Outcome' = MapReply("getAll", FALSE, <<[n \in DOMAIN last |-> contents[last[n]]]>>)
      BY <2>9, <3>1
    <3>3. last \in [{NameOf[i] : i \in native} -> native] /\ \A n \in DOMAIN last : NameOf[last[n]] = n
      BY <2>7, <2>8, <2>10
    <3>4. QED
      BY <1>1, <2>4, <3>2, <3>3 DEF Map!GetAll, Map!Reply, Outcome, MapReply, Entry
  <2>12. QED
    BY <2>2, <2>11 DEF Map!Next
<1>2. ASSUME NEW answer, reply' = Reply("getAll", "conversion", answer),
             UNCHANGED <<entries, open>>
      PROVE  Map!Next
  <2>1. Outcome' = MapReply("getAll", TRUE, <<>>)
    BY <1>2 DEF Reply, Answer, Outcome, MapReply
  <2>2. QED
    BY <1>2, <2>1, FailingFails
<1>3. CASE open /\ GemfireKeys(array) # NULLPTR
  BY <1>1, <1>2, <1>3, RefusalFails DEF GetAllSync, GemfireKeys
<1>4. CASE ~(open /\ GemfireKeys(array) # NULLPTR)
  BY <1>4, RefusalFails DEF GetAllSync
<1>5. QED
  BY <1>3, <1>4

\* MapSpec: every behaviour of the synchronous calls is one of JsMap, for any
\* keys and values; keys share an entry only if the conversion of one of them
\* loses something.
THEOREM SyncCallsAreAMap == Spec => MapSpec
<1>1. Init => Map!Init
  <2> SUFFICES ASSUME Init PROVE Map!Init
    OBVIOUS
  <2>1. \A i \in Identities : Entry(i) = NULLPTR
    BY DEF Init, Entry
  <2>2. V8Value[NULLPTR] = Null
    <3>1. NULLPTR \in NativeValues
      BY DEF NativeValues
    <3>2. V8Value[NULLPTR] = V8Of(V8Value, NULLPTR)
      BY <3>1, V8ValueDef
    <3>3. QED
      BY <3>2 DEF V8Of, NULLPTR
  <2>3. Outcome = MapReply("none", FALSE, <<>>)
    BY DEF Init, NoReply, Reply, Answer, Outcome, MapReply
  <2>4. Map!KeptApart
    <3>1. \A k \in KeptJsKeys : IdentityOf[k] = GemfireKey(k)
      BY DEF IdentityOf, KeptJsKeys
    <3>2. QED
      BY <3>1, KeptKeysApart DEF Map!KeptApart
  <2>5. Map!Identities = Identities
    BY DEF Map!Identities, Identities, IdentityOf
  <2>6. QED
    BY <2>1, <2>2, <2>3, <2>4, <2>5
       DEF Init, Map!Init, Map!NoReply, Map!Reply, Outcome, MapReply
<1>2. [Next]_vars => [Map!Next]_(Map!vars)
  <2> SUFFICES ASSUME [Next]_vars PROVE [Map!Next]_(Map!vars)
    OBVIOUS
  <2>1. CASE CloseCache
    <3>1. Outcome' = MapReply("none", FALSE, <<>>)
      BY <2>1 DEF CloseCache, NoReply, Reply, Answer, Outcome, MapReply
    <3>2. Map!CloseCache
      BY <2>1, <3>1 DEF CloseCache, Map!CloseCache, Map!NoReply, Map!Reply, Entry, Outcome, MapReply
    <3>3. QED
      BY <3>2 DEF Map!Next
  <2>2. CASE UNCHANGED vars
    BY <2>2 DEF vars, Map!vars, Entry, Answer
  <2>3. QED
    BY <2>1, <2>2, PutSyncPuts, GetSyncGets, PutAllSyncPutsAll, GetAllSyncGetsAll,
       OtherPutsAreOtherClient, OtherRemovesAreOtherClient DEF Next
<1>3. QED
  BY <1>1, <1>2, PTL DEF Spec, MapSpec, Map!Spec
===============================================================================
