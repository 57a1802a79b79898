------------------------------ MODULE Conversions ------------------------------
(***************************************************************************)
(* Values on their way between JavaScript and the native client.  A string *)
(* is a sequence of code units, numbers here; a JavaScript value is a      *)
(* record with its "type", a native one a record with its "kind".  String, *)
(* Number and Boolean objects are converted like the values they box.      *)
(*                                                                         *)
(* The widths of the code's integers are constants: a clock of ClockBits   *)
(* bits that counts TicksPerMs ticks per millisecond (64 bits, nanoseconds *)
(* with libstdc++), and MantissaBits bits of a number (53).                *)
(***************************************************************************)
EXTENDS Integers, SequencesExt

CONSTANTS
  JsValues,     \* the JavaScript values given to calls, and their parts
  Unwritable,   \* the objects that the native client's PDX factory refuses
  Text(_),      \* the engine's ToString() of a value that is no string
  JavaValues,   \* values that other clients store
  TicksPerMs, ClockBits, MantissaBits

ASSUME WidthsAssumption ==
  TicksPerMs \in Nat \ {0} /\ ClockBits \in Nat \ {0} /\ MantissaBits \in Nat \ {0}

PowerOfTwo[n \in Nat] == IF n = 0 THEN 1 ELSE 2 * PowerOfTwo[n - 1]

NUL == 0
Comma == 1
OpenBracket == 2
CloseBracket == 3
Backslash == 4

Str(s) == [type |-> "string", units |-> s]
Bool(b) == [type |-> "boolean", bool |-> b]
Num(n) == [type |-> "number", number |-> n]
Date(ms) == [type |-> "date", ms |-> ms]
Arr(s) == [type |-> "array", elements |-> s]
Obj(f) == [type |-> "object", fields |-> f]
Fun == [type |-> "function"]
Undef == [type |-> "undefined"]
Null == [type |-> "null"]

\* An object holds one value per field name; no field name contains a NUL.
PartsOf(v) ==
  CASE v.type = "array" -> {v.elements[i] : i \in DOMAIN v.elements}
    [] v.type = "object" -> {v.fields[n] : n \in DOMAIN v.fields}
    [] OTHER -> {}

\* The records above.
IsJsValue(v) ==
  \/ v.type = "string" /\ v = Str(v.units)
  \/ v.type = "boolean" /\ v = Bool(v.bool)
  \/ v.type = "number" /\ v = Num(v.number)
  \/ v.type = "date" /\ v = Date(v.ms) /\ v.ms \in Int
  \/ v.type = "array" /\ v = Arr([i \in DOMAIN v.elements |-> v.elements[i]])
  \/ v.type = "object" /\ v = Obj([n \in DOMAIN v.fields |-> v.fields[n]])
  \/ v \in {Fun, Undef, Null}

\* No value contains itself, however deep inside.
ASSUME JsValuesAssumption ==
  /\ \A v \in JsValues :
       /\ IsJsValue(v)
       /\ PartsOf(v) \subseteq JsValues
       /\ v.type = "object" =>
            /\ IsFiniteSet(DOMAIN v.fields)
            /\ \A n \in DOMAIN v.fields : n \in Seq(Int) /\ \A i \in DOMAIN n : n[i] # NUL
  /\ \A T \in SUBSET {v \in JsValues : v.type \in {"array", "object"}} :
       T # {} => \E v \in T : PartsOf(v) \cap T = {}
  /\ Unwritable \subseteq {v \in JsValues : v.type = "object"}

-----------------------------------------------------------------------------
(* From JavaScript to the native client.                                   *)

\* wstringFromV8String: the wide string ends at the first NUL.
WString(s) ==
  IF \E i \in DOMAIN s : s[i] = NUL
  THEN SubSeq(s, 1, (CHOOSE i \in DOMAIN s :
                       s[i] = NUL /\ \A j \in 1..(i - 1) : s[j] # NUL) - 1)
  ELSE s

\* A slip: names are not escaped.
SlipNotEscaped(name) == name

\* getClassName: a backslash before each character that has a meaning.
Escape(name) ==
  FlattenSeq([i \in DOMAIN name |->
    IF name[i] \in {Comma, OpenBracket, CloseBracket, Backslash} THEN <<Backslash, name[i]>>
    ELSE <<name[i]>>])

FullFieldName(fields, name) ==
  Escape(name)
    \o (IF fields[name].type = "array" THEN <<OpenBracket, CloseBracket>> ELSE <<>>)
    \o <<Comma>>

\* The order of std::set<std::string>.
Before(s, t) ==
  \E i \in DOMAIN t :
    /\ \A j \in 1..(i - 1) : j <= Len(s) /\ s[j] = t[j]
    /\ i > Len(s) \/ s[i] < t[i]

\* The elements of such a set from the first to the last.
Ordered(S) ==
  [i \in 1..Cardinality(S) |->
     CHOOSE s \in S : Cardinality({t \in S : Before(t, s)}) = i - 1]

\* getClassName, without the "JSON: " in front of every name.
ClassName(fields) ==
  FlattenSeq(Ordered({FullFieldName(fields, n) : n \in DOMAIN fields}))

NULLPTR == [kind |-> "NULLPTR"]
CString(s) == [kind |-> "String", units |-> s]
CInt64(n) == [kind |-> "Int64", int |-> n]

ASSUME JavaValuesAssumption ==
  \A c \in JavaValues : c = CInt64(c.int) /\ c.int \in Int

\* A slip: the clock counts as JavaScript does.
SlipTicks(ms) == ms

\* The clock counts from -HalfClock to HalfClock - 1.
HalfClock == PowerOfTwo[ClockBits - 1]

\* std::chrono: milliseconds in ticks of the system clock, with overflow.
Ticks(ms) == ((ms * TicksPerMs + HalfClock) % (2 * HalfClock)) - HalfClock

\* gemfireValue.  NULL is the result for null, and for a function or an object
\* that the factory refuses, which also throw; an array or object that contains
\* one of them is built with NULL in it.
GemfireValue[v \in JsValues] ==
  CASE v.type = "array" ->
         [kind |-> "ArrayList",
          elements |-> [i \in DOMAIN v.elements |-> GemfireValue[v.elements[i]]]]
    [] v.type = "string" -> CString(WString(v.units))
    [] v.type = "boolean" -> [kind |-> "Boolean", bool |-> v.bool]
    [] v.type = "number" -> [kind |-> "Double", number |-> v.number]
    [] v.type = "date" -> [kind |-> "Date", ticks |-> Ticks(v.ms)]
    [] v.type = "object" /\ v \notin Unwritable ->
         [kind |-> "Pdx", class |-> ClassName(v.fields),
          fields |-> [n \in DOMAIN v.fields |-> GemfireValue[v.fields[n]]]]
    [] v.type = "undefined" -> [kind |-> "Undefined"]
    [] v.type \in {"null", "function"} \/ v \in Unwritable -> NULLPTR

\* Converting v throws a JavaScript exception, and goes on.
Throws[v \in JsValues] ==
  v.type = "function" \/ v \in Unwritable \/ \E p \in PartsOf(v) : Throws[p]

\* gemfireKey: lists and undefined are no CacheableKey.  The native client
\* compares keys by what they hold, instances of a PDX class by their fields.
GemfireKey(v) ==
  IF GemfireValue[v].kind \in {"ArrayList", "Undefined"} THEN NULLPTR
  ELSE GemfireValue[v]

\* gemfireKeys: no keys at all if one of them is invalid.
GemfireKeys(array) ==
  LET keys == {GemfireKey(array[i]) : i \in DOMAIN array}
  IN IF NULLPTR \in keys THEN NULLPTR ELSE [kind |-> "Keys", keys |-> keys]

\* The maps with the entries of names: of several names that become one key the
\* native client keeps one.
HashMapsOf(fields, names) ==
  {[kind |-> "HashMap", entries |-> [k \in DOMAIN kept |-> GemfireValue[fields[kept[k]]]]] :
     kept \in {f \in [{CString(WString(n)) : n \in names} -> names] :
                 \A k \in DOMAIN f : k = CString(WString(f[k]))}}

\* A slip: entries that cannot be stored are left out.
SlipSkipNull(fields) ==
  HashMapsOf(fields, {n \in DOMAIN fields : GemfireValue[fields[n]] # NULLPTR})

\* gemfireHashMap: the keys are strings; no map at all if a value is NULL.
GemfireHashMaps(fields) ==
  IF \E n \in DOMAIN fields : GemfireValue[fields[n]] = NULLPTR THEN {NULLPTR}
  ELSE HashMapsOf(fields, DOMAIN fields)

-----------------------------------------------------------------------------
(* From the native client to JavaScript.                                   *)

\* A 64-bit integer as the nearest number, ties to even: multiples of a power
\* of two that leave it MantissaBits bits.
Nearest(n) ==
  LET a == IF n < 0 THEN -n ELSE n
      e == CHOOSE e \in 0..a : /\ a < PowerOfTwo[MantissaBits + e]
                               /\ e = 0 \/ a >= PowerOfTwo[MantissaBits + e - 1]
      unit == PowerOfTwo[e]
      low == a \div unit
      up == 2 * (a % unit) > unit \/ (2 * (a % unit) = unit /\ low % 2 = 1)
      r == unit * (IF up THEN low + 1 ELSE low)
  IN IF n < 0 THEN -r ELSE r

\* A slip: 2^53 is taken as safe.
SlipWarnsAbove(n) == n > PowerOfTwo[MantissaBits] \/ n < -PowerOfTwo[MantissaBits]

\* v8Value(CacheableInt64Ptr): beyond Number.MAX_SAFE_INTEGER a warning is
\* printed.
Warns(n) == LET safe == PowerOfTwo[MantissaBits] - 1 IN n > safe \/ n < -safe

\* CacheableDate::milliseconds() truncates.
Milliseconds(t) == IF t < 0 THEN -((-t) \div TicksPerMs) ELSE t \div TicksPerMs

NativeValues == {NULLPTR} \cup JavaValues \cup {GemfireValue[v] : v \in JsValues}

\* v8Value.
V8Value[c \in NativeValues] ==
  CASE c.kind = "ArrayList" ->
         Arr([i \in DOMAIN c.elements |-> V8Value[c.elements[i]]])
    [] c.kind = "NULLPTR" -> Null
    [] c.kind = "String" -> Str(WString(c.units))
    [] c.kind = "Boolean" -> Bool(c.bool)
    [] c.kind = "Double" -> Num(c.number)
    [] c.kind = "Int64" -> Num(Nearest(c.int))
    [] c.kind = "Date" -> Date(Milliseconds(c.ticks))
    [] c.kind = "Undefined" -> Undef
    [] c.kind = "Pdx" -> Obj([n \in DOMAIN c.fields |-> V8Value[c.fields[n]]])

\* The name of the property that v8Object sets for a key: its ToString().
PropertyName(k) ==
  LET v == V8Value[k] IN IF v.type = "string" THEN v.units ELSE Text(v)

\* v8Object: keys with the same name overwrite each other in the order of the
\* hash map, so that one of several objects results.
V8Objects(entries) ==
  LET names == {PropertyName(k) : k \in DOMAIN entries}
      keysOf(n) == {k \in DOMAIN entries : PropertyName(k) = n}
  IN {Obj([n \in names |-> V8Value[entries[last[n]]]]) :
        last \in {f \in [names -> DOMAIN entries] : \A n \in names : f[n] \in keysOf(n)}}

-----------------------------------------------------------------------------
\* The values that are promised to be read as they were put: with no function,
\* no NUL and no object inside that the factory refuses, and every date in the
\* range of the native clock.
Storable[v \in JsValues] ==
  /\ v.type # "function" /\ v \notin Unwritable
  /\ v.type = "string" => \A i \in DOMAIN v.units : v.units[i] # NUL
  /\ v.type = "date" => /\ v.ms * TicksPerMs < HalfClock
                        /\ v.ms * TicksPerMs >= -HalfClock
  /\ \A p \in PartsOf(v) : Storable[p]
===============================================================================
