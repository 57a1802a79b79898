--------------------------- MODULE ConversionsProofs ---------------------------
(***************************************************************************)
(* Proofs about Conversions for any values, however deep, and any widths.  *)
(***************************************************************************)
EXTENDS Conversions, TLAPS, WellFoundedInduction, FiniteSetTheorems, SequenceTheorems

-----------------------------------------------------------------------------
(* The recursive functions satisfy their equations.  Each has one value for *)
(* every function on the parts of its argument.                            *)

\* gemfireValue of v, if f is gemfireValue of its parts.
NativeOf(f, v) ==
  CASE v.type = "array" ->
         [kind |-> "ArrayList",
          elements |-> [i \in DOMAIN v.elements |-> f[v.elements[i]]]]
    [] v.type = "string" -> CString(WString(v.units))
    [] v.type = "boolean" -> [kind |-> "Boolean", bool |-> v.bool]
    [] v.type = "number" -> [kind |-> "Double", number |-> v.number]
    [] v.type = "date" -> [kind |-> "Date", ticks |-> Ticks(v.ms)]
    [] v.type = "object" /\ v \notin Unwritable ->
         [kind |-> "Pdx", class |-> ClassName(v.fields),
          fields |-> [n \in DOMAIN v.fields |-> f[v.fields[n]]]]
    [] v.type = "undefined" -> [kind |-> "Undefined"]
    [] v.type \in {"null", "function"} \/ v \in Unwritable -> NULLPTR

ThrowsOf(f, v) ==
  v.type = "function" \/ v \in Unwritable \/ \E p \in PartsOf(v) : f[p]

StorableOf(f, v) ==
  /\ v.type # "function" /\ v \notin Unwritable
  /\ v.type = "string" => \A i \in DOMAIN v.units : v.units[i] # NUL
  /\ v.type = "date" => /\ v.ms * TicksPerMs < HalfClock
                        /\ v.ms * TicksPerMs >= -HalfClock
  /\ \A p \in PartsOf(v) : f[p]

\* The elements or fields of a native value.
NativeParts(c) ==
  CASE c.kind = "ArrayList" -> {c.elements[i] : i \in DOMAIN c.elements}
    [] c.kind = "Pdx" -> {c.fields[n] : n \in DOMAIN c.fields}
    [] OTHER -> {}

\* v8Value of c, if f is v8Value of its parts.
V8Of(f, c) ==
  CASE c.kind = "ArrayList" ->
         Arr([i \in DOMAIN c.elements |-> f[c.elements[i]]])
    [] c.kind = "NULLPTR" -> Null
    [] c.kind = "String" -> Str(WString(c.units))
    [] c.kind = "Boolean" -> Bool(c.bool)
    [] c.kind = "Double" -> Num(c.number)
    [] c.kind = "Int64" -> Num(Nearest(c.int))
    [] c.kind = "Date" -> Date(Milliseconds(c.ticks))
    [] c.kind = "Undefined" -> Undef
    [] c.kind = "Pdx" -> Obj([n \in DOMAIN c.fields |-> f[c.fields[n]]])

ToNative == INSTANCE Recursion WITH S <- JsValues, Parts <- PartsOf, Body <- NativeOf
Throwing == INSTANCE Recursion WITH S <- JsValues, Parts <- PartsOf, Body <- ThrowsOf
Storing == INSTANCE Recursion WITH S <- JsValues, Parts <- PartsOf, Body <- StorableOf
FromNative == INSTANCE Recursion WITH S <- NativeValues, Parts <- NativeParts, Body <- V8Of

\* A set of JavaScript values has one that contains none of the others.
LEMMA JsWellFounded ==
  /\ \A v \in JsValues : PartsOf(v) \subseteq JsValues
  /\ \A T \in SUBSET JsValues : T # {} => \E v \in T : PartsOf(v) \cap T = {}
<1>1. \A v \in JsValues : PartsOf(v) \subseteq JsValues
  BY JsValuesAssumption
<1>2. ASSUME NEW T \in SUBSET JsValues, T # {}
      PROVE  \E v \in T : PartsOf(v) \cap T = {}
  <2> DEFINE U == {v \in T : v.type \in {"array", "object"}}
  <2>1. \A v \in T \ U : PartsOf(v) = {}
    BY DEF PartsOf
  <2>2. CASE U = T
    <3>1. T \in SUBSET {v \in JsValues : v.type \in {"array", "object"}}
      BY <2>2
    <3>2. QED
      BY <1>2, <3>1, JsValuesAssumption
  <2>3. CASE U # T
    BY <2>1, <2>3
  <2>4. QED
    BY <2>2, <2>3
<1>3. QED
  BY <1>1, <1>2

\* The types of JavaScript values; only objects are refused by the factory.
LEMMA JsTypes ==
  ASSUME NEW v \in JsValues
  PROVE  /\ v.type \in {"string", "boolean", "number", "date", "array", "object",
                         "function", "undefined", "null"}
         /\ v \in Unwritable => v.type = "object"
<1>1. IsJsValue(v)
  BY JsValuesAssumption
<1>2. v \in Unwritable => v.type = "object"
  BY JsValuesAssumption
<1>3. QED
  BY <1>1, <1>2 DEF IsJsValue, Fun, Undef, Null

\* What gemfireValue() does.
LEMMA GemfireValueDef ==
  \A v \in JsValues : GemfireValue[v] = NativeOf(GemfireValue, v)
<1>1. ToNative!WellFounded
  BY JsWellFounded DEF ToNative!WellFounded
<1>2. ASSUME NEW g, NEW h, NEW v \in JsValues, \A p \in PartsOf(v) : g[p] = h[p]
      PROVE  NativeOf(g, v) = NativeOf(h, v)
  <2>1. CASE v.type = "array"
    <3>1. [i \in DOMAIN v.elements |-> g[v.elements[i]]]
            = [i \in DOMAIN v.elements |-> h[v.elements[i]]]
      BY <1>2, <2>1 DEF PartsOf
    <3>2. QED
      BY <2>1, <3>1 DEF NativeOf
  <2>2. CASE v.type = "object" /\ v \notin Unwritable
    <3>1. [n \in DOMAIN v.fields |-> g[v.fields[n]]]
            = [n \in DOMAIN v.fields |-> h[v.fields[n]]]
      BY <1>2, <2>2 DEF PartsOf
    <3>2. QED
      BY <2>2, <3>1 DEF NativeOf
  <2>3. CASE v.type \notin {"array", "object"} \/ v \in Unwritable
    BY <2>3, JsTypes DEF NativeOf
  <2>4. QED
    BY <2>1, <2>2, <2>3
<1>3. ToNative!Local
  BY <1>2 DEF ToNative!Local
<1>4. GemfireValue = CHOOSE g : g = [v \in JsValues |-> NativeOf(g, v)]
  BY DEF GemfireValue, NativeOf
<1>5. GemfireValue = [v \in JsValues |-> NativeOf(GemfireValue, v)]
  BY <1>1, <1>3, <1>4, ToNative!RecursiveFunction
<1>6. QED
  BY <1>5, Zenon

\* A conversion throws if one of its parts does.
LEMMA ThrowsDef ==
  \A v \in JsValues : Throws[v] = ThrowsOf(Throws, v)
<1>1. Throwing!WellFounded
  BY JsWellFounded DEF Throwing!WellFounded
<1>2. Throwing!Local
  BY DEF Throwing!Local, ThrowsOf
<1>3. Throws = CHOOSE g : g = [v \in JsValues |-> ThrowsOf(g, v)]
  BY DEF Throws, ThrowsOf
<1>4. Throws = [v \in JsValues |-> ThrowsOf(Throws, v)]
  BY <1>1, <1>2, <1>3, Throwing!RecursiveFunction
<1>5. QED
  BY <1>4, Zenon

\* A value can be stored if each part can.
LEMMA StorableDef ==
  \A v \in JsValues : Storable[v] = StorableOf(Storable, v)
<1>1. Storing!WellFounded
  BY JsWellFounded DEF Storing!WellFounded
<1>2. Storing!Local
  BY DEF Storing!Local, StorableOf
<1>3. Storable = CHOOSE g : g = [v \in JsValues |-> StorableOf(g, v)]
  BY DEF Storable, StorableOf
<1>4. Storable = [v \in JsValues |-> StorableOf(Storable, v)]
  BY <1>1, <1>2, <1>3, Storing!RecursiveFunction
<1>5. QED
  BY <1>4, Zenon

\* The kind of a native value tells the type of the one it was converted from.
LEMMA KindOfType ==
  ASSUME NEW v \in JsValues
  PROVE  LET c == GemfireValue[v]
         IN /\ v.type = "string" => c = CString(WString(v.units))
            /\ v.type = "boolean" => c = [kind |-> "Boolean", bool |-> v.bool]
            /\ v.type = "number" => c = [kind |-> "Double", number |-> v.number]
            /\ v.type = "date" => c = [kind |-> "Date", ticks |-> Ticks(v.ms)]
            /\ v.type = "array" =>
                 c = [kind |-> "ArrayList",
                      elements |-> [i \in DOMAIN v.elements |-> GemfireValue[v.elements[i]]]]
            /\ v.type = "object" /\ v \notin Unwritable =>
                 c = [kind |-> "Pdx", class |-> ClassName(v.fields),
                      fields |-> [n \in DOMAIN v.fields |-> GemfireValue[v.fields[n]]]]
            /\ v.type = "undefined" => c = [kind |-> "Undefined"]
            /\ v.type \in {"null", "function"} \/ v \in Unwritable => c = NULLPTR
<1>1. GemfireValue[v] = NativeOf(GemfireValue, v)
  BY GemfireValueDef
<1> HIDE DEF GemfireValue
<1>2. v \in Unwritable => v.type = "object"
  BY JsTypes
<1>3. QED
  BY <1>1, <1>2 DEF NativeOf

\* The kind that each type becomes.
KindOf(type) ==
  CASE type = "string" -> "String"
    [] type = "boolean" -> "Boolean"
    [] type = "number" -> "Double"
    [] type = "date" -> "Date"
    [] type = "array" -> "ArrayList"
    [] type = "object" -> "Pdx"
    [] type = "undefined" -> "Undefined"
    [] type \in {"null", "function"} -> "NULLPTR"

\* The kind of a converted value.
LEMMA KindConverted ==
  ASSUME NEW v \in JsValues
  PROVE  GemfireValue[v].kind = IF v \in Unwritable THEN "NULLPTR" ELSE KindOf(v.type)
<1>1. GemfireValue[v] = NativeOf(GemfireValue, v)
  BY GemfireValueDef
<1>2. NativeOf(GemfireValue, v).kind = IF v \in Unwritable THEN "NULLPTR" ELSE KindOf(v.type)
  BY JsTypes DEF NativeOf, KindOf, CString, NULLPTR
<1>3. QED
  BY <1>1, <1>2

\* The parts of a converted value are converted parts of the value.
LEMMA PartsConverted ==
  ASSUME NEW v \in JsValues
  PROVE  NativeParts(GemfireValue[v]) \subseteq {GemfireValue[p] : p \in PartsOf(v)}
<1>1. CASE v.type = "array"
  <2>1. GemfireValue[v] =
          [kind |-> "ArrayList",
           elements |-> [i \in DOMAIN v.elements |-> GemfireValue[v.elements[i]]]]
    BY <1>1, KindOfType
  <2>2. PartsOf(v) = {v.elements[i] : i \in DOMAIN v.elements}
    BY <1>1 DEF PartsOf
  <2>3. QED
    BY <2>1, <2>2 DEF NativeParts
<1>2. CASE v.type = "object" /\ v \notin Unwritable
  <2>1. GemfireValue[v] =
          [kind |-> "Pdx", class |-> ClassName(v.fields),
           fields |-> [n \in DOMAIN v.fields |-> GemfireValue[v.fields[n]]]]
    BY <1>2, KindOfType
  <2>2. PartsOf(v) = {v.fields[n] : n \in DOMAIN v.fields}
    BY <1>2 DEF PartsOf
  <2>3. QED
    BY <2>1, <2>2 DEF NativeParts
<1>3. CASE v.type \notin {"array", "object"} \/ v \in Unwritable
  <2>1. GemfireValue[v].kind \notin {"ArrayList", "Pdx"}
    BY <1>3, KindConverted, JsTypes DEF KindOf
  <2>2. QED
    BY <2>1 DEF NativeParts
<1>4. QED
  BY <1>1, <1>2, <1>3

\* NULL, and what other clients store, has no parts.
LEMMA OthersHaveNoParts ==
  ASSUME NEW c \in {NULLPTR} \cup JavaValues
  PROVE  NativeParts(c) = {} /\ c.kind \in {"NULLPTR", "Int64"}
<1>1. c.kind \in {"NULLPTR", "Int64"}
  BY JavaValuesAssumption DEF CInt64, NULLPTR
<1>2. QED
  BY <1>1 DEF NativeParts

\* The kinds of native values.
LEMMA NativeKinds ==
  ASSUME NEW c \in NativeValues
  PROVE  c.kind \in {"NULLPTR", "String", "Boolean", "Double", "Int64", "Date",
                     "Undefined", "ArrayList", "Pdx"}
<1>1. CASE c \in {NULLPTR} \cup JavaValues
  BY <1>1, OthersHaveNoParts
<1>2. ASSUME NEW v \in JsValues, c = GemfireValue[v]
      PROVE  c.kind \in {"NULLPTR", "String", "Boolean", "Double", "Int64", "Date",
                         "Undefined", "ArrayList", "Pdx"}
  BY <1>2, KindConverted, JsTypes DEF KindOf
<1>3. QED
  BY <1>1, <1>2 DEF NativeValues

\* Native values contain native values, and none contains itself.
LEMMA NativeWellFounded ==
  /\ \A c \in NativeValues : NativeParts(c) \subseteq NativeValues
  /\ \A T \in SUBSET NativeValues : T # {} => \E c \in T : NativeParts(c) \cap T = {}
<1>1. ASSUME NEW v \in JsValues
      PROVE  NativeParts(GemfireValue[v]) \subseteq NativeValues
  BY PartsConverted, JsWellFounded DEF NativeValues
<1>2. \A c \in NativeValues : NativeParts(c) \subseteq NativeValues
  BY <1>1, OthersHaveNoParts DEF NativeValues
<1>3. ASSUME NEW T \in SUBSET NativeValues, T # {}
      PROVE  \E c \in T : NativeParts(c) \cap T = {}
  <2> DEFINE U == {v \in JsValues : GemfireValue[v] \in T}
  <2>1. CASE U = {}
    <3>1. PICK c \in T : c \in {NULLPTR} \cup JavaValues
      BY <1>3, <2>1 DEF NativeValues
    <3>2. QED
      BY <3>1, OthersHaveNoParts
  <2>2. CASE U # {}
    <3>1. PICK v \in U : PartsOf(v) \cap U = {}
      BY <2>2, JsWellFounded
    <3>2. \A p \in PartsOf(v) : GemfireValue[p] \notin T
      BY <3>1, JsWellFounded
    <3>3. NativeParts(GemfireValue[v]) \cap T = {}
      BY <3>2, PartsConverted
    <3>4. QED
      BY <3>1, <3>3
  <2>3. QED
    BY <2>1, <2>2
<1>4. QED
  BY <1>2, <1>3

\* What v8Value() does.
LEMMA V8ValueDef ==
  \A c \in NativeValues : V8Value[c] = V8Of(V8Value, c)
<1>1. FromNative!WellFounded
  BY NativeWellFounded DEF FromNative!WellFounded
<1>2. ASSUME NEW g, NEW h, NEW c \in NativeValues, \A p \in NativeParts(c) : g[p] = h[p]
      PROVE  V8Of(g, c) = V8Of(h, c)
  <2>1. CASE c.kind = "ArrayList"
    <3>1. [i \in DOMAIN c.elements |-> g[c.elements[i]]]
            = [i \in DOMAIN c.elements |-> h[c.elements[i]]]
      BY <1>2, <2>1 DEF NativeParts
    <3>2. QED
      BY <2>1, <3>1 DEF V8Of
  <2>2. CASE c.kind = "Pdx"
    <3>1. [n \in DOMAIN c.fields |-> g[c.fields[n]]]
            = [n \in DOMAIN c.fields |-> h[c.fields[n]]]
      BY <1>2, <2>2 DEF NativeParts
    <3>2. QED
      BY <2>2, <3>1 DEF V8Of
  <2>3. CASE c.kind \notin {"ArrayList", "Pdx"}
    BY <2>3, NativeKinds DEF V8Of
  <2>4. QED
    BY <2>1, <2>2, <2>3
<1>3. FromNative!Local
  BY <1>2 DEF FromNative!Local
<1>4. V8Value = CHOOSE g : g = [c \in NativeValues |-> V8Of(g, c)]
  BY DEF V8Value, V8Of
<1>5. V8Value = [c \in NativeValues |-> V8Of(V8Value, c)]
  BY <1>1, <1>3, <1>4, FromNative!RecursiveFunction
<1>6. QED
  BY <1>5, Zenon

-----------------------------------------------------------------------------
(* Powers of two.                                                          *)

\* What the power of n is computed from.
Previous(n) == IF n = 0 THEN {} ELSE {n - 1}
\* Two to the n, if f is that of the number before.
PowerOf(f, n) == IF n = 0 THEN 1 ELSE 2 * f[n - 1]
Powers == INSTANCE Recursion WITH S <- Nat, Parts <- Previous, Body <- PowerOf

\* A set of numbers has a least one.
LEMMA LeastNumber ==
  ASSUME NEW T \in SUBSET Nat, T # {}
  PROVE  \E n \in T : \A m \in T : n <= m
<1>1. PICK n \in T : \A m \in T : ~(<<m, n>> \in OpToRel(<, Nat))
  BY WFMin, NatLessThanWellFounded
<1>2. ASSUME NEW m \in Nat, NEW k \in Nat, m < k
      PROVE  <<m, k>> \in OpToRel(<, Nat)
  <2>1. <<m, k>> \in {ss \in Nat \X Nat : ss[1] < ss[2]}
    BY <1>2
  <2>2. QED
    BY <2>1, Zenon DEF OpToRel
<1>3. \A m \in T : ~(m < n)
  BY <1>1, <1>2, Zenon
<1>4. QED
  BY <1>3

\* Each power is twice the one before it.
LEMMA PowerOfTwoDef ==
  \A n \in Nat : PowerOfTwo[n] = IF n = 0 THEN 1 ELSE 2 * PowerOfTwo[n - 1]
<1>1. ASSUME NEW T \in SUBSET Nat, T # {}
      PROVE  \E n \in T : Previous(n) \cap T = {}
  <2>1. PICK n \in T : \A m \in T : n <= m
    BY <1>1, LeastNumber
  <2>2. QED
    BY <2>1 DEF Previous
<1>2. Powers!WellFounded
  BY <1>1 DEF Powers!WellFounded, Previous
<1>3. Powers!Local
  BY DEF Powers!Local, PowerOf, Previous
<1>4. PowerOfTwo = CHOOSE g : g = [n \in Nat |-> PowerOf(g, n)]
  BY DEF PowerOfTwo, PowerOf
<1>5. PowerOfTwo = [n \in Nat |-> PowerOf(PowerOfTwo, n)]
  BY <1>2, <1>3, <1>4, Powers!RecursiveFunction
<1>6. ASSUME NEW n \in Nat
      PROVE  PowerOfTwo[n] = PowerOf(PowerOfTwo, n)
  BY <1>5, Zenon
<1>7. QED
  BY <1>6 DEF PowerOf

\* Powers of two are natural numbers other than zero.
LEMMA PowerPositive ==
  ASSUME NEW n \in Nat
  PROVE  PowerOfTwo[n] \in Nat \ {0}
<1> DEFINE Bad == {k \in Nat : PowerOfTwo[k] \notin Nat \ {0}}
<1>1. SUFFICES ASSUME Bad # {} PROVE FALSE
  OBVIOUS
<1>2. PICK k \in Bad : \A m \in Bad : k <= m
  BY <1>1, LeastNumber
<1>3. k # 0
  BY <1>2, PowerOfTwoDef
<1>4. k - 1 \in Nat /\ k - 1 \notin Bad
  BY <1>2, <1>3
<1>5. PowerOfTwo[k] = 2 * PowerOfTwo[k - 1]
  BY <1>2, <1>3, PowerOfTwoDef
<1>6. QED
  BY <1>2, <1>4, <1>5

\* A later power is a multiple of an earlier one.
LEMMA PowerOfSum ==
  ASSUME NEW m \in Nat, NEW n \in Nat
  PROVE  PowerOfTwo[m + n] = PowerOfTwo[m] * PowerOfTwo[n]
<1> DEFINE Bad == {k \in Nat : PowerOfTwo[m + k] # PowerOfTwo[m] * PowerOfTwo[k]}
<1>1. SUFFICES ASSUME Bad # {} PROVE FALSE
  OBVIOUS
<1>2. PICK k \in Bad : \A j \in Bad : k <= j
  BY <1>1, LeastNumber
<1>3. PowerOfTwo[0] = 1
  BY PowerOfTwoDef
<1>4. k # 0
  <2>1. PowerOfTwo[m] \in Nat
    BY PowerPositive
  <2>2. PowerOfTwo[m + 0] = PowerOfTwo[m] * PowerOfTwo[0]
    BY <1>3, <2>1
  <2>3. QED
    BY <1>2, <2>2
<1>5. PowerOfTwo[m + (k - 1)] = PowerOfTwo[m] * PowerOfTwo[k - 1]
  BY <1>2, <1>4
<1>6. PowerOfTwo[k] = 2 * PowerOfTwo[k - 1]
  BY <1>2, <1>4, PowerOfTwoDef
<1>7. PowerOfTwo[m + k] = 2 * PowerOfTwo[m + (k - 1)]
  <2>1. m + k \in Nat /\ m + k # 0 /\ (m + k) - 1 = m + (k - 1)
    BY <1>2, <1>4
  <2>2. QED
    BY <2>1, PowerOfTwoDef
<1>8. PowerOfTwo[m] \in Nat /\ PowerOfTwo[k - 1] \in Nat
  BY <1>2, <1>4, PowerPositive
<1>9. QED
  BY <1>2, <1>5, <1>6, <1>7, <1>8

\* A power is larger than its exponent.
LEMMA PowerGrows ==
  ASSUME NEW n \in Nat
  PROVE  PowerOfTwo[n] > n
<1> DEFINE Bad == {k \in Nat : ~(PowerOfTwo[k] > k)}
<1>1. SUFFICES ASSUME Bad # {} PROVE FALSE
  OBVIOUS
<1>2. PICK k \in Bad : \A j \in Bad : k <= j
  BY <1>1, LeastNumber
<1>3. k # 0
  BY <1>2, PowerOfTwoDef
<1>4. PowerOfTwo[k - 1] > k - 1 /\ PowerOfTwo[k - 1] \in Nat
  BY <1>2, <1>3, PowerPositive
<1>5. PowerOfTwo[k] = 2 * PowerOfTwo[k - 1]
  BY <1>2, <1>3, PowerOfTwoDef
<1>6. k \in Nat \ {0} /\ ~(PowerOfTwo[k] > k)
  BY <1>2, <1>3
<1>7. QED
  BY <1>4, <1>5, <1>6

\* A later power is not smaller.
LEMMA PowerMonotone ==
  ASSUME NEW m \in Nat, NEW n \in Nat, m <= n
  PROVE  PowerOfTwo[m] <= PowerOfTwo[n]
<1>1. n - m \in Nat /\ m + (n - m) = n
  OBVIOUS
<1>2. PowerOfTwo[n] = PowerOfTwo[m] * PowerOfTwo[n - m]
  BY <1>1, PowerOfSum
<1>3. PowerOfTwo[m] \in Nat /\ PowerOfTwo[n - m] \in Nat \ {0}
  BY <1>1, PowerPositive
<1>4. ASSUME NEW a \in Nat, NEW b \in Nat \ {0}
      PROVE  a <= a * b
  OBVIOUS
<1>5. QED
  BY <1>2, <1>3, <1>4

-----------------------------------------------------------------------------
(* There and back.                                                         *)

\* A date in the range of the clock does not overflow.
LEMMA DateThereAndBack ==
  ASSUME NEW ms \in Int, ms * TicksPerMs < HalfClock, ms * TicksPerMs >= -HalfClock
  PROVE  Milliseconds(Ticks(ms)) = ms
<1>1. HalfClock \in Nat \ {0}
  <2>1. ClockBits - 1 \in Nat
    BY WidthsAssumption
  <2>2. QED
    BY <2>1, PowerPositive DEF HalfClock
<1>2. TicksPerMs \in Nat \ {0}
  BY WidthsAssumption
<1> DEFINE t == ms * TicksPerMs
<1>3. t \in Int
  BY <1>2
<1>4. Ticks(ms) = t
  <2>1. t + HalfClock \in 0 .. 2 * HalfClock - 1
    BY <1>1, <1>3
  <2>2. ASSUME NEW d \in Nat \ {0}, NEW a \in 0 .. d - 1
        PROVE  a % d = a
    BY <2>2
  <2>3. (t + HalfClock) % (2 * HalfClock) = t + HalfClock
    BY <1>1, <2>1, <2>2
  <2> HIDE DEF t
  <2>4. ((t + HalfClock) % (2 * HalfClock)) - HalfClock = t
    BY <1>1, <1>3, <2>3
  <2>5. QED
    BY <2>4 DEF Ticks, t
<1>5. ASSUME NEW a \in Int
      PROVE  (a * TicksPerMs) \div TicksPerMs = a
  BY <1>2
<1>6. CASE t < 0
  <2>1. -t = (-ms) * TicksPerMs
    BY <1>2
  <2>2. (-t) \div TicksPerMs = -ms
    BY <1>5, <2>1
  <2> HIDE DEF t
  <2>3. QED
    BY <1>4, <1>6, <2>2 DEF Milliseconds
<1>7. CASE ~(t < 0)
  <2>1. t \div TicksPerMs = ms
    BY <1>5
  <2> HIDE DEF t
  <2>2. QED
    BY <1>4, <1>7, <2>1 DEF Milliseconds
<1>8. QED
  BY <1>6, <1>7

\* One step of the way there and back: a value whose parts come back.
LEMMA OneLevelThereAndBack ==
  ASSUME NEW v \in JsValues, Storable[v],
         \A p \in PartsOf(v) : V8Value[GemfireValue[p]] = p
  PROVE  V8Value[GemfireValue[v]] = v
<1> DEFINE c == GemfireValue[v]
<1>1. c \in NativeValues /\ V8Value[c] = V8Of(V8Value, c)
  BY V8ValueDef DEF NativeValues
<1>2. StorableOf(Storable, v)
  BY StorableDef
<1>3. IsJsValue(v)
  BY JsValuesAssumption
<1>4. c = NativeOf(GemfireValue, v)
  BY GemfireValueDef
<1>5. v.type # "function" /\ v \notin Unwritable
  BY <1>2 DEF StorableOf
<1> HIDE DEF c
<1>6. CASE v.type = "string"
  <2>1. WString(v.units) = v.units
    BY <1>2, <1>6 DEF StorableOf, WString
  <2>2. c = CString(v.units)
    BY <1>4, <1>6, <1>5, <2>1 DEF NativeOf
  <2>3. V8Value[c] = Str(v.units)
    BY <1>1, <2>1, <2>2 DEF V8Of, CString
  <2>4. QED
    BY <1>3, <1>6, <2>3 DEF IsJsValue, Fun, Undef, Null, c
<1>7. CASE v.type = "boolean"
  <2>1. c = [kind |-> "Boolean", bool |-> v.bool]
    BY <1>4, <1>7, <1>5 DEF NativeOf
  <2>2. V8Value[c] = Bool(v.bool)
    BY <1>1, <2>1 DEF V8Of
  <2>3. QED
    BY <1>3, <1>7, <2>2 DEF IsJsValue, Fun, Undef, Null, c
<1>8. CASE v.type = "number"
  <2>1. c = [kind |-> "Double", number |-> v.number]
    BY <1>4, <1>8, <1>5 DEF NativeOf
  <2>2. V8Value[c] = Num(v.number)
    BY <1>1, <2>1 DEF V8Of
  <2>3. QED
    BY <1>3, <1>8, <2>2 DEF IsJsValue, Fun, Undef, Null, c
<1>9. CASE v.type = "date"
  <2>1. c = [kind |-> "Date", ticks |-> Ticks(v.ms)]
    BY <1>4, <1>9, <1>5 DEF NativeOf
  <2>2. V8Value[c] = Date(Milliseconds(Ticks(v.ms)))
    BY <1>1, <2>1 DEF V8Of
  <2>3. v = Date(v.ms) /\ v.ms \in Int
    BY <1>3, <1>9 DEF IsJsValue, Fun, Undef, Null
  <2>4. Milliseconds(Ticks(v.ms)) = v.ms
    BY <1>2, <1>9, <2>3, DateThereAndBack DEF StorableOf
  <2>5. QED
    BY <2>2, <2>3, <2>4 DEF c
<1>10. CASE v.type = "array"
  <2> DEFINE elements == [i \in DOMAIN v.elements |-> GemfireValue[v.elements[i]]]
  <2>1. c = [kind |-> "ArrayList", elements |-> elements]
    BY <1>4, <1>10, <1>5 DEF NativeOf
  <2>2. \A i \in DOMAIN v.elements : V8Value[elements[i]] = v.elements[i]
    BY <1>10 DEF PartsOf
  <2>3. DOMAIN elements = DOMAIN v.elements
    OBVIOUS
  <2> HIDE DEF elements
  <2>4. V8Value[c] = Arr([i \in DOMAIN elements |-> V8Value[elements[i]]])
    BY <1>1, <2>1 DEF V8Of
  <2>5. V8Value[c] = Arr([i \in DOMAIN v.elements |-> v.elements[i]])
    BY <2>2, <2>3, <2>4
  <2>6. QED
    BY <1>3, <1>10, <2>5 DEF IsJsValue, Fun, Undef, Null, c
<1>11. CASE v.type = "object" /\ v \notin Unwritable
  <2> DEFINE fields == [n \in DOMAIN v.fields |-> GemfireValue[v.fields[n]]]
  <2>1. c = [kind |-> "Pdx", class |-> ClassName(v.fields), fields |-> fields]
    BY <1>4, <1>11, <1>5 DEF NativeOf
  <2>2. \A n \in DOMAIN v.fields : V8Value[fields[n]] = v.fields[n]
    BY <1>11 DEF PartsOf
  <2>3. DOMAIN fields = DOMAIN v.fields
    OBVIOUS
  <2> HIDE DEF fields
  <2>4. V8Value[c] = Obj([n \in DOMAIN fields |-> V8Value[fields[n]]])
    BY <1>1, <2>1 DEF V8Of
  <2>5. V8Value[c] = Obj([n \in DOMAIN v.fields |-> v.fields[n]])
    BY <2>2, <2>3, <2>4
  <2>6. QED
    BY <1>3, <1>11, <2>5 DEF IsJsValue, Fun, Undef, Null, c
<1>12. CASE v.type = "undefined"
  <2>1. c = [kind |-> "Undefined"]
    BY <1>4, <1>12, <1>5 DEF NativeOf
  <2>2. V8Value[c] = Undef
    BY <1>1, <2>1 DEF V8Of
  <2>3. QED
    BY <1>3, <1>12, <2>2 DEF IsJsValue, Fun, Undef, Null, c
<1>13. CASE v.type = "null"
  <2>1. c = NULLPTR
    BY <1>4, <1>13, <1>5 DEF NativeOf
  <2>2. V8Value[c] = Null
    BY <1>1, <2>1 DEF V8Of, NULLPTR
  <2>3. QED
    BY <1>3, <1>13, <2>2 DEF IsJsValue, Fun, Undef, Null, c
<1>14. QED
  BY <1>6, <1>7, <1>8, <1>9, <1>10, <1>11, <1>12, <1>13, <1>5, JsTypes

\* A value that can be stored comes back as it was, however deep it is.
THEOREM ThereAndBack ==
  \A v \in JsValues : Storable[v] => V8Value[GemfireValue[v]] = v
<1> DEFINE Bad == {v \in JsValues : Storable[v] /\ V8Value[GemfireValue[v]] # v}
<1>1. SUFFICES ASSUME Bad # {} PROVE FALSE
  OBVIOUS
<1>2. PICK v \in Bad : PartsOf(v) \cap Bad = {}
  BY <1>1, JsWellFounded
<1>3. \A p \in PartsOf(v) : p \in JsValues /\ Storable[p]
  BY <1>2, JsWellFounded, StorableDef DEF StorableOf
<1>4. \A p \in PartsOf(v) : V8Value[GemfireValue[p]] = p
  BY <1>2, <1>3
<1>5. QED
  BY <1>2, <1>4, OneLevelThereAndBack

\* The conversion of a value that can be stored does not throw.
LEMMA StorableDoesNotThrow ==
  \A v \in JsValues : Storable[v] => ~Throws[v]
<1> DEFINE Bad == {v \in JsValues : Storable[v] /\ Throws[v]}
<1>1. SUFFICES ASSUME Bad # {} PROVE FALSE
  OBVIOUS
<1>2. PICK v \in Bad : PartsOf(v) \cap Bad = {}
  BY <1>1, JsWellFounded
<1>3. StorableOf(Storable, v) /\ ThrowsOf(Throws, v)
  BY <1>2, StorableDef, ThrowsDef
<1>4. PICK p \in PartsOf(v) : Throws[p]
  BY <1>3 DEF StorableOf, ThrowsOf
<1>5. p \in JsValues /\ Storable[p]
  BY <1>2, <1>3, JsWellFounded DEF StorableOf
<1>6. QED
  BY <1>2, <1>4, <1>5

-----------------------------------------------------------------------------
(* Integers of other clients.                                              *)

\* An integer without its sign.
Magnitude(n) == IF n < 0 THEN -n ELSE n

\* How many bits of an integer are dropped.
IsExponent(a, e) ==
  /\ a < PowerOfTwo[MantissaBits + e]
  /\ e = 0 \/ a >= PowerOfTwo[MantissaBits + e - 1]

\* An integer that loses e bits.
Rounded(a, e) ==
  LET unit == PowerOfTwo[e]
      low == a \div unit
      up == 2 * (a % unit) > unit \/ (2 * (a % unit) = unit /\ low % 2 = 1)
  IN unit * (IF up THEN low + 1 ELSE low)

\* What Nearest() does, with its parts named.
LEMMA NearestDef ==
  ASSUME NEW n \in Int
  PROVE  LET r == Rounded(Magnitude(n), CHOOSE e \in 0 .. Magnitude(n) : IsExponent(Magnitude(n), e))
         IN Nearest(n) = IF n < 0 THEN -r ELSE r
BY DEF Nearest, Rounded, Magnitude, IsExponent

\* An integer of at most MantissaBits bits is kept.
LEMMA SafeIsKept ==
  ASSUME NEW n \in Int, ~Warns(n)
  PROVE  Nearest(n) = n
<1> DEFINE a == Magnitude(n)
<1>1. PowerOfTwo[MantissaBits] \in Nat /\ MantissaBits \in Nat
  BY PowerPositive, WidthsAssumption
<1>2. a \in Nat /\ a < PowerOfTwo[MantissaBits]
  BY <1>1 DEF Warns, Magnitude
<1> HIDE DEF a
<1>3. IsExponent(a, 0)
  <2>1. MantissaBits + 0 = MantissaBits
    BY <1>1
  <2>2. QED
    BY <1>2, <2>1 DEF IsExponent
<1>4. ASSUME NEW e \in 0 .. a, IsExponent(a, e)
      PROVE  e = 0
  <2>1. SUFFICES ASSUME e # 0 PROVE FALSE
    OBVIOUS
  <2>2. MantissaBits + e - 1 \in Nat /\ MantissaBits <= MantissaBits + e - 1
    BY <1>1, <1>2, <2>1
  <2>3. PowerOfTwo[MantissaBits] <= PowerOfTwo[MantissaBits + e - 1]
    BY <1>1, <2>2, PowerMonotone
  <2>4. PowerOfTwo[MantissaBits + e - 1] \in Nat
    BY <2>2, PowerPositive
  <2>5. QED
    BY <1>1, <1>2, <1>4, <2>1, <2>3, <2>4 DEF IsExponent
<1>5. (CHOOSE e \in 0 .. a : IsExponent(a, e)) = 0
  <2>1. 0 \in 0 .. a
    BY <1>2
  <2>2. QED
    BY <1>3, <1>4, <2>1
<1>6. Rounded(a, 0) = a
  <2>1. PowerOfTwo[0] = 1
    BY PowerOfTwoDef
  <2>2. a \div 1 = a /\ a % 1 = 0
    BY <1>2
  <2>3. QED
    BY <1>2, <2>1, <2>2 DEF Rounded
<1>7. Nearest(n) = IF n < 0 THEN -a ELSE a
  BY <1>5, <1>6, NearestDef DEF a
<1>8. QED
  BY <1>7 DEF a, Magnitude

\* A larger one becomes one of more than MantissaBits bits.
LEMMA UnsafeStaysUnsafe ==
  ASSUME NEW n \in Int, Warns(n)
  PROVE  Nearest(n) \in Int /\ Warns(Nearest(n))
<1> DEFINE a == Magnitude(n)
           S == PowerOfTwo[MantissaBits]
<1>1. S \in Nat \ {0} /\ MantissaBits \in Nat \ {0}
  BY PowerPositive, WidthsAssumption
<1>2. a \in Nat /\ a >= S
  BY <1>1 DEF Warns, Magnitude
<1> HIDE DEF a
<1>3. \E e \in 0 .. a : IsExponent(a, e)
  <2> DEFINE Big == {e \in Nat : a < PowerOfTwo[MantissaBits + e]}
  <2>1. a \in Big
    <3>1. PowerOfTwo[MantissaBits + a] > MantissaBits + a
      BY <1>1, <1>2, PowerGrows
    <3>2. PowerOfTwo[MantissaBits + a] \in Nat
      BY <1>1, <1>2, PowerPositive
    <3>3. QED
      BY <1>1, <1>2, <3>1, <3>2
  <2>2. PICK e \in Big : \A f \in Big : e <= f
    BY <2>1, LeastNumber
  <2>3. e \in 0 .. a
    BY <1>2, <2>1, <2>2
  <2>4. e # 0 => a >= PowerOfTwo[MantissaBits + e - 1]
    <3>1. SUFFICES ASSUME e # 0 PROVE a >= PowerOfTwo[MantissaBits + e - 1]
      OBVIOUS
    <3>2. e - 1 \in Nat /\ e - 1 \notin Big /\ MantissaBits + (e - 1) = MantissaBits + e - 1
      BY <1>1, <2>2, <3>1
    <3>3. PowerOfTwo[MantissaBits + e - 1] \in Nat
      BY <1>1, <2>2, <3>1, PowerPositive
    <3>4. QED
      BY <1>2, <3>2, <3>3
  <2>5. QED
    BY <2>2, <2>3, <2>4 DEF IsExponent
<1> DEFINE e == CHOOSE x \in 0 .. a : IsExponent(a, x)
<1>4. e \in Nat /\ IsExponent(a, e)
  BY <1>2, <1>3
<1>5. Nearest(n) = IF n < 0 THEN -Rounded(a, e) ELSE Rounded(a, e)
  BY NearestDef DEF a
<1> HIDE DEF e
<1>6. e # 0 /\ a >= PowerOfTwo[MantissaBits + e - 1]
  <2>1. MantissaBits + 0 = MantissaBits
    BY <1>1
  <2>2. QED
    BY <1>1, <1>2, <1>4, <2>1 DEF IsExponent
<1> DEFINE unit == PowerOfTwo[e]
           half == PowerOfTwo[MantissaBits - 1]
<1>7. unit \in Nat \ {0} /\ half \in Nat \ {0}
  BY <1>1, <1>4, PowerPositive
<1>8. PowerOfTwo[MantissaBits + e - 1] = half * unit
  <2>1. MantissaBits - 1 \in Nat /\ (MantissaBits - 1) + e = MantissaBits + e - 1
    BY <1>1, <1>4
  <2>2. QED
    BY <1>4, <2>1, PowerOfSum
<1>9. half * unit >= S
  <2>1. MantissaBits <= MantissaBits + e - 1 /\ MantissaBits + e - 1 \in Nat
    BY <1>1, <1>4, <1>6
  <2>2. QED
    BY <1>1, <1>8, <2>1, PowerMonotone
<1> HIDE DEF unit, half, S
<1>10. Rounded(a, e) \in Int /\ Rounded(a, e) >= half * unit
  <2> DEFINE low == a \div unit
  <2>1. low \in Int /\ low * unit <= a /\ a < (low + 1) * unit
    <3>1. a = unit * (a \div unit) + (a % unit) /\ a % unit \in 0 .. (unit - 1) /\ a \div unit \in Int
      BY <1>2, <1>7
    <3>2. QED
      BY <1>2, <1>7, <3>1
  <2>2. \/ Rounded(a, e) = unit * low
        \/ Rounded(a, e) = unit * (low + 1)
    BY DEF Rounded, unit
  <2> HIDE DEF low
  <2>3. low >= half
    <3>1. SUFFICES ASSUME low + 1 <= half PROVE FALSE
      BY <1>7, <2>1
    <3>2. (low + 1) * unit <= half * unit
      BY <1>7, <2>1, <3>1
    <3>3. QED
      BY <1>2, <1>6, <1>7, <1>8, <2>1, <3>2
  <2>4. unit * low >= half * unit
    BY <1>7, <2>1, <2>3
  <2>5. unit * (low + 1) >= unit * low
    BY <1>7, <2>1
  <2>6. QED
    BY <1>7, <2>1, <2>2, <2>4, <2>5
<1>11. Rounded(a, e) >= S
  BY <1>1, <1>7, <1>9, <1>10
<1>12. QED
  BY <1>1, <1>5, <1>10, <1>11 DEF Warns, S

\* Two integers that are read as one number are both warned of.
THEOREM SilentIntegersKept ==
  ASSUME NEW m \in Int, NEW n \in Int, m # n, Nearest(m) = Nearest(n)
  PROVE  Warns(m) /\ Warns(n)
BY SafeIsKept, UnsafeStaysUnsafe

-----------------------------------------------------------------------------
(* Class names.  What is joined can be taken apart again, if no item is the *)
(* beginning of another.                                                   *)

\* The first i sequences of s, joined: what FlattenSeq computes on its way.
Joined(s, i) ==
  IF i = 0 THEN <<>>
  ELSE LET flatten[j \in 1..Len(s)] == IF j = 1 THEN s[j] ELSE flatten[j - 1] \o s[j]
       IN flatten[i]

\* FlattenSeq is defined for every length.
LEMMA FlattenExists ==
  ASSUME NEW s, NEW n \in Nat
  PROVE  \E g : g = [i \in 1..n |-> IF i = 1 THEN s[i] ELSE g[i - 1] \o s[i]]
<1> DEFINE Solution(k, g) == g = [i \in 1..k |-> IF i = 1 THEN s[i] ELSE g[i - 1] \o s[i]]
           Solvable(k) == \E g : Solution(k, g)
           Bad == {k \in Nat : ~Solvable(k)}
<1>1. SUFFICES ASSUME ~Solvable(n) PROVE FALSE
  OBVIOUS
<1> HIDE DEF Solvable
<1>2. PICK k \in Bad : \A m \in Bad : k <= m
  BY <1>1, LeastNumber
<1>3. CASE k = 0
  <2> DEFINE g == [i \in 1..0 |-> s]
  <2>1. Solution(0, g)
    <3>1. \A i \in 1..0 : s = IF i = 1 THEN s[i] ELSE g[i - 1] \o s[i]
      OBVIOUS
    <3>2. QED
      BY <3>1, Zenon
  <2>2. Solvable(0)
    BY <2>1 DEF Solvable
  <2>3. QED
    BY <1>2, <1>3, <2>2
<1>4. CASE k # 0
  <2>1. k \in Nat \ {0} /\ k - 1 \in Nat /\ k - 1 \notin Bad
    BY <1>2, <1>4
  <2>2. PICK g : Solution(k - 1, g)
    BY <2>1 DEF Solvable
  <2> DEFINE h == [i \in 1..k |-> IF i < k THEN g[i] ELSE IF i = 1 THEN s[i] ELSE g[i - 1] \o s[i]]
  <2>3. \A i \in 1..(k - 1) : g[i] = IF i = 1 THEN s[i] ELSE g[i - 1] \o s[i]
    BY <2>2
  <2>4. \A i \in 1..(k - 1) : h[i] = g[i]
    BY <2>1
  <2>5. ASSUME NEW i \in 1..k
        PROVE  h[i] = IF i = 1 THEN s[i] ELSE h[i - 1] \o s[i]
    <3>1. i # 1 => h[i - 1] = g[i - 1]
      BY <2>1, <2>4
    <3>2. CASE i < k
      <4>1. i \in 1..(k - 1)
        BY <2>1, <3>2
      <4> HIDE DEF h
      <4>2. QED
        BY <2>3, <2>4, <3>1, <4>1
    <3>3. CASE ~(i < k)
      BY <3>1, <3>3
    <3>4. QED
      BY <3>2, <3>3
  <2>6. h = [i \in 1..k |-> h[i]]
    OBVIOUS
  <2>7. Solution(k, h)
    <3> HIDE DEF h
    <3>1. QED
      BY <2>5, <2>6
  <2>8. Solvable(k)
    BY <2>7 DEF Solvable
  <2>9. QED
    BY <1>2, <2>8
<1>5. QED
  BY <1>3, <1>4

\* FlattenSeq joins one sequence after the other.
LEMMA JoinedDef ==
  ASSUME NEW s \in Seq(Seq(Int))
  PROVE  /\ FlattenSeq(s) = Joined(s, Len(s))
         /\ Joined(s, 0) = <<>>
         /\ \A i \in 0..Len(s) : Joined(s, i) \in Seq(Int)
         /\ \A i \in 1..Len(s) : Joined(s, i) = Joined(s, i - 1) \o s[i]
<1> DEFINE f == CHOOSE g : g = [i \in 1..Len(s) |-> IF i = 1 THEN s[i] ELSE g[i - 1] \o s[i]]
<1>0. Len(s) \in Nat
  BY LenProperties
<1>1. f = [i \in 1..Len(s) |-> IF i = 1 THEN s[i] ELSE f[i - 1] \o s[i]]
  <2>1. \E g : g = [i \in 1..Len(s) |-> IF i = 1 THEN s[i] ELSE g[i - 1] \o s[i]]
    BY <1>0, FlattenExists, Zenon
  <2>2. QED
    BY <2>1, Zenon
<1>2. \A i \in 1..Len(s) : Joined(s, i) = f[i]
  BY DEF Joined
<1>3. Joined(s, 0) = <<>>
  BY DEF Joined
<1>4. FlattenSeq(s) = Joined(s, Len(s))
  <2>1. CASE Len(s) = 0
    BY <1>3, <2>1 DEF FlattenSeq
  <2>2. CASE Len(s) # 0
    BY <2>2 DEF FlattenSeq, Joined
  <2>3. QED
    BY <2>1, <2>2
<1> HIDE DEF f
<1>5. \A i \in 1..Len(s) : f[i] = IF i = 1 THEN s[i] ELSE f[i - 1] \o s[i]
  BY <1>1, Zenon
<1>6. \A i \in 1..Len(s) : s[i] \in Seq(Int)
  BY ElementOfSeq
<1>7. \A i \in 1..Len(s) : Joined(s, i) = Joined(s, i - 1) \o s[i]
  <2>1. ASSUME NEW i \in 1..Len(s) PROVE Joined(s, i) = Joined(s, i - 1) \o s[i]
    <3>1. CASE i = 1
      <4>1. Joined(s, i) = s[i] /\ Joined(s, i - 1) = <<>>
        BY <1>2, <1>3, <1>5, <3>1
      <4>2. s[i] \in Seq(Int)
        BY <1>6
      <4>3. <<>> \o s[i] = s[i]
        BY <4>2, ConcatEmptySeq
      <4>4. QED
        BY <4>1, <4>3
    <3>2. CASE i # 1
      <4>1. i - 1 \in 1..Len(s)
        BY <3>2
      <4>2. QED
        BY <1>2, <1>5, <3>2, <4>1
    <3>3. QED
      BY <3>1, <3>2
  <2>2. QED
    BY <2>1
<1>8. \A i \in 0..Len(s) : Joined(s, i) \in Seq(Int)
  <2> DEFINE Bad == {i \in 0..Len(s) : Joined(s, i) \notin Seq(Int)}
  <2>1. SUFFICES ASSUME Bad # {} PROVE FALSE
    OBVIOUS
  <2>2. PICK i \in Bad : \A j \in Bad : i <= j
    <3>1. Bad \in SUBSET Nat
      BY <1>0
    <3>2. QED
      BY <2>1, <3>1, LeastNumber
  <2>3. i # 0
    <3>1. <<>> \in Seq(Int)
      BY EmptySeq
    <3>2. QED
      BY <1>3, <2>2, <3>1
  <2>4. i \in 1..Len(s) /\ i - 1 \in 0..Len(s) /\ i - 1 \notin Bad
    BY <2>2, <2>3
  <2>5. Joined(s, i - 1) \in Seq(Int)
    BY <2>4
  <2>6. Joined(s, i) \in Seq(Int)
    <3>1. s[i] \in Seq(Int) /\ Joined(s, i) = Joined(s, i - 1) \o s[i]
      BY <1>6, <1>7, <2>4
    <3>2. QED
      BY <2>5, <3>1, ConcatProperties
  <2>7. QED
    BY <2>2, <2>6
<1>9. QED
  BY <1>3, <1>4, <1>7, <1>8

\* s and then t.
Join(s, t) == s \o t

\* Joining is associative, and what is joined in front can be taken away.
LEMMA Joining ==
  /\ \A s, t \in Seq(Int) : Join(s, t) \in Seq(Int)
  /\ \A s, t, u \in Seq(Int) : Join(Join(s, t), u) = Join(s, Join(t, u))
  /\ \A s, t, u \in Seq(Int) : Join(s, t) = Join(s, u) => t = u
  /\ \A s \in Seq(Int) : Join(s, <<>>) = s /\ Join(<<>>, s) = s
  /\ <<>> \in Seq(Int)
<1>1. ASSUME NEW s \in Seq(Int), NEW t \in Seq(Int)
      PROVE  s \o t \in Seq(Int)
  BY ConcatProperties
<1>2. ASSUME NEW s \in Seq(Int), NEW t \in Seq(Int), NEW u \in Seq(Int)
      PROVE  (s \o t) \o u = s \o (t \o u)
  BY ConcatAssociative
<1>3. ASSUME NEW s \in Seq(Int), NEW t \in Seq(Int), NEW u \in Seq(Int), s \o t = s \o u
      PROVE  t = u
  BY <1>3, ConcatSimplifications
<1>4. ASSUME NEW s \in Seq(Int)
      PROVE  s \o <<>> = s /\ <<>> \o s = s
  BY ConcatEmptySeq
<1>5. <<>> \in Seq(Int)
  BY EmptySeq
<1>6. QED
  BY <1>1, <1>2, <1>3, <1>4, <1>5, Zenon DEF Join

\* Associativity for four.
LEMMA JoiningFour ==
  ASSUME NEW s \in Seq(Int), NEW t \in Seq(Int), NEW u \in Seq(Int), NEW x \in Seq(Int)
  PROVE  Join(Join(s, Join(t, u)), x) = Join(s, Join(t, Join(u, x)))
<1>1. \A a, b \in Seq(Int) : Join(a, b) \in Seq(Int)
  BY Joining, Zenon
<1>2. Join(t, u) \in Seq(Int) /\ Join(u, x) \in Seq(Int) /\ Join(t, Join(u, x)) \in Seq(Int)
  BY <1>1, Zenon
<1>3. \A a, b, c \in Seq(Int) : Join(Join(a, b), c) = Join(a, Join(b, c))
  BY Joining, Zenon
<1> DEFINE tu == Join(t, u)
<1>4. Join(Join(s, tu), x) = Join(s, Join(tu, x))
  <2>1. tu \in Seq(Int)
    BY <1>2
  <2> HIDE DEF tu
  <2>2. QED
    BY <1>3, <2>1, Zenon
<1>5. Join(Join(t, u), x) = Join(t, Join(u, x))
  BY <1>3, Zenon
<1>6. QED
  BY <1>2, <1>4, <1>5, Zenon

\* One more sequence is joined.
LEMMA JoinedStep ==
  ASSUME NEW s \in Seq(Seq(Int)), NEW i \in Nat \ {0}, i <= Len(s)
  PROVE  /\ Joined(s, i) = Join(Joined(s, i - 1), s[i])
         /\ Joined(s, i) \in Seq(Int) /\ Joined(s, i - 1) \in Seq(Int) /\ s[i] \in Seq(Int)
<1>1. Len(s) \in Nat
  BY LenProperties
<1>2. i \in 1..Len(s) /\ i \in 0..Len(s) /\ i - 1 \in 0..Len(s)
  BY <1>1
<1>3. s[i] \in Seq(Int)
  BY <1>2, ElementOfSeq
<1>4. QED
  BY <1>2, <1>3, JoinedDef, Zenon DEF Join

\* All of it.
LEMMA JoinedAll ==
  ASSUME NEW s \in Seq(Seq(Int))
  PROVE  FlattenSeq(s) = Joined(s, Len(s)) /\ FlattenSeq(s) \in Seq(Int) /\ Joined(s, 0) = <<>>
<1>1. Len(s) \in Nat
  BY LenProperties
<1>2. Len(s) \in 0..Len(s)
  BY <1>1
<1>3. QED
  BY <1>2, JoinedDef, Zenon

\* What is joined first does not depend on what follows.
LEMMA JoinedAgree ==
  ASSUME NEW s \in Seq(Seq(Int)), NEW t \in Seq(Seq(Int)),
         NEW k \in Nat, k <= Len(s), k <= Len(t), \A i \in 1..k : s[i] = t[i]
  PROVE  Joined(s, k) = Joined(t, k)
<1>0. Len(s) \in Nat /\ Len(t) \in Nat
  BY LenProperties
<1> DEFINE Bad == {i \in 0..k : Joined(s, i) # Joined(t, i)}
<1>1. SUFFICES ASSUME Bad # {} PROVE FALSE
  <2>1. k \in 0..k
    OBVIOUS
  <2>2. QED
    BY <2>1, Zenon
<1>2. PICK i \in Bad : \A j \in Bad : i <= j
  <2>1. Bad \in SUBSET Nat
    BY <1>0
  <2>2. QED
    BY <1>1, <2>1, LeastNumber
<1>3. i # 0
  BY <1>2, JoinedAll
<1>4. i \in 1..k /\ i - 1 \in 0..k /\ i - 1 \notin Bad
  BY <1>0, <1>2, <1>3
<1>5. Joined(s, i - 1) = Joined(t, i - 1)
  BY <1>4, Zenon
<1>6. i \in Nat \ {0} /\ i <= Len(s) /\ i <= Len(t)
  BY <1>0, <1>4
<1>7. Joined(s, i) = Join(Joined(s, i - 1), s[i]) /\ Joined(t, i) = Join(Joined(t, i - 1), t[i])
  BY <1>6, JoinedStep, Zenon
<1>8. s[i] = t[i]
  BY <1>4, Zenon
<1>9. Joined(s, i) # Joined(t, i)
  BY <1>2, Zenon
<1>10. QED
  BY <1>5, <1>7, <1>8, <1>9, Zenon

\* Where a sequence stands in what all are joined to.
LEMMA JoinedSplit ==
  ASSUME NEW s \in Seq(Seq(Int)), NEW i \in Nat \ {0}, i <= Len(s)
  PROVE  \E u \in Seq(Int) : FlattenSeq(s) = Join(Joined(s, i - 1), Join(s[i], u))
<1>0. Len(s) \in Nat /\ s[i] \in Seq(Int) /\ Joined(s, i - 1) \in Seq(Int)
  BY LenProperties, JoinedStep
<1> DEFINE Splits(j) == \E u \in Seq(Int) : Joined(s, j) = Join(Joined(s, i - 1), Join(s[i], u))
           Bad == {j \in i..Len(s) : ~Splits(j)}
<1>1. SUFFICES ASSUME ~Splits(Len(s)) PROVE FALSE
  BY JoinedAll, Zenon
<1>2. Splits(i)
  <2>1. Joined(s, i) = Join(Joined(s, i - 1), s[i])
    BY JoinedStep, Zenon
  <2>2. Join(s[i], <<>>) = s[i] /\ <<>> \in Seq(Int)
    BY <1>0, Joining, Zenon
  <2>3. QED
    BY <2>1, <2>2, Zenon
<1>3. ASSUME NEW j \in (i + 1)..Len(s), Splits(j - 1)
      PROVE  Splits(j)
  <2>1. PICK u \in Seq(Int) : Joined(s, j - 1) = Join(Joined(s, i - 1), Join(s[i], u))
    BY <1>3, Zenon
  <2>2. j \in Nat \ {0} /\ j <= Len(s)
    BY <1>0
  <2>3. Joined(s, j) = Join(Joined(s, j - 1), s[j]) /\ s[j] \in Seq(Int)
    BY <2>2, JoinedStep, Zenon
  <2>4. Join(Join(Joined(s, i - 1), Join(s[i], u)), s[j])
          = Join(Joined(s, i - 1), Join(s[i], Join(u, s[j])))
    <3> DEFINE a == Joined(s, i - 1)
               b == s[i]
               d == s[j]
    <3>1. a \in Seq(Int) /\ b \in Seq(Int) /\ u \in Seq(Int) /\ d \in Seq(Int)
      BY <1>0, <2>3
    <3> HIDE DEF a, b, d
    <3>2. Join(Join(a, Join(b, u)), d) = Join(a, Join(b, Join(u, d)))
      BY <3>1, JoiningFour
    <3>3. QED
      BY <3>2 DEF a, b, d
  <2>5. Join(u, s[j]) \in Seq(Int)
    BY <2>3, Joining
  <2>6. QED
    BY <2>1, <2>3, <2>4, <2>5, Zenon
<1> HIDE DEF Splits
<1>4. PICK j \in Bad : \A k \in Bad : j <= k
  <2>1. Bad \in SUBSET Nat /\ Len(s) \in Bad
    BY <1>0, <1>1
  <2>2. QED
    BY <2>1, LeastNumber
<1>5. j # i
  BY <1>2, <1>4
<1>6. j \in (i + 1)..Len(s) /\ j - 1 \in i..Len(s) /\ j - 1 \notin Bad
  BY <1>0, <1>4, <1>5
<1>7. QED
  BY <1>3, <1>4, <1>6

\* No item of p is the beginning of an item of q, or the other way round.
NoBeginnings(p, q) ==
  \A i \in 1..Len(p), j \in 1..Len(q) : \A u, v \in Seq(Int) :
    Join(p[i], u) = Join(q[j], v) => p[i] = q[j]

\* No item of p is the beginning of y.
NotAhead(p, y) == \A i \in 1..Len(p) : \A u \in Seq(Int) : Join(p[i], u) # y

\* Of two sequences with one join, and different marks behind them, the second
\* begins like the first, if none of their items is the beginning of another.
LEMMA DecodedInto ==
  ASSUME NEW p \in Seq(Seq(Int)), NEW q \in Seq(Seq(Int)), NEW x \in Seq(Int), NEW y \in Seq(Int),
         Join(FlattenSeq(p), x) = Join(FlattenSeq(q), y), NoBeginnings(p, q), NotAhead(p, y)
  PROVE  Len(p) <= Len(q) /\ \A i \in 1..Len(p) : p[i] = q[i]
<1>0. Len(p) \in Nat /\ Len(q) \in Nat
  BY LenProperties
<1> DEFINE Same(k) == k <= Len(q) /\ \A i \in 1..k : p[i] = q[i]
           Bad == {k \in 0..Len(p) : ~Same(k)}
<1>1. SUFFICES ASSUME ~Same(Len(p)) PROVE FALSE
  BY Zenon
<1>2. PICK k \in Bad : \A j \in Bad : k <= j
  <2>1. Bad \in SUBSET Nat /\ Len(p) \in Bad
    BY <1>0, <1>1
  <2>2. QED
    BY <2>1, LeastNumber
<1>3. Same(0)
  BY <1>0
<1>4. k # 0
  BY <1>2, <1>3
<1> HIDE DEF Same
<1>5. /\ k \in Nat \ {0} /\ k <= Len(p) /\ k \in 1..Len(p)
      /\ k - 1 \in 0..Len(p) /\ k - 1 \notin Bad /\ ~Same(k)
  BY <1>0, <1>2, <1>4
<1>6. k - 1 \in Nat /\ k - 1 <= Len(p) /\ k - 1 <= Len(q) /\ \A i \in 1..(k - 1) : p[i] = q[i]
  <2>1. Same(k - 1)
    BY <1>5
  <2>2. k - 1 \in Nat /\ k - 1 <= Len(p)
    BY <1>0, <1>5
  <2>3. QED
    BY <2>1, <2>2, Zenon DEF Same
<1> DEFINE before == Joined(p, k - 1)
<1>7. before \in Seq(Int) /\ before = Joined(q, k - 1) /\ p[k] \in Seq(Int)
  BY <1>5, <1>6, JoinedStep, JoinedAgree, Zenon
<1>8. PICK u \in Seq(Int) : FlattenSeq(p) = Join(before, Join(p[k], u))
  BY <1>5, JoinedSplit, Zenon
<1> HIDE DEF before
<1>9. Join(u, x) \in Seq(Int) /\ Join(p[k], Join(u, x)) \in Seq(Int)
  BY <1>7, <1>8, Joining
<1>10. Join(FlattenSeq(q), y) = Join(before, Join(p[k], Join(u, x)))
  <2>1. Join(Join(before, Join(p[k], u)), x) = Join(before, Join(p[k], Join(u, x)))
    BY <1>7, <1>8, JoiningFour
  <2>2. QED
    BY <1>8, <2>1, Zenon
<1>11. CASE k <= Len(q)
  <2>1. k \in 1..Len(q)
    BY <1>0, <1>5, <1>11
  <2>2. PICK v \in Seq(Int) : FlattenSeq(q) = Join(before, Join(q[k], v))
    BY <1>5, <1>7, <1>11, JoinedSplit, Zenon
  <2>3. q[k] \in Seq(Int)
    BY <1>5, <1>11, JoinedStep, Zenon
  <2>4. Join(v, y) \in Seq(Int) /\ Join(q[k], Join(v, y)) \in Seq(Int)
    BY <2>2, <2>3, Joining
  <2>5. Join(FlattenSeq(q), y) = Join(before, Join(q[k], Join(v, y)))
    <3>1. Join(Join(before, Join(q[k], v)), y) = Join(before, Join(q[k], Join(v, y)))
      BY <1>7, <2>2, <2>3, JoiningFour
    <3>2. QED
      BY <2>2, <3>1, Zenon
  <2>6. Join(before, Join(p[k], Join(u, x))) = Join(before, Join(q[k], Join(v, y)))
    BY <1>10, <2>5, Zenon
  <2>7. Join(p[k], Join(u, x)) = Join(q[k], Join(v, y))
    BY <1>7, <1>9, <2>4, <2>6, Joining
  <2>8. p[k] = q[k]
    BY <1>5, <1>9, <2>1, <2>4, <2>7, Zenon DEF NoBeginnings
  <2>9. \A i \in 1..k : i = k \/ i \in 1..(k - 1)
    BY <1>5
  <2>10. Same(k)
    BY <1>6, <1>11, <2>8, <2>9, Zenon DEF Same
  <2>11. QED
    BY <1>5, <2>10, Zenon
<1>12. CASE ~(k <= Len(q))
  <2>1. Len(q) = k - 1
    BY <1>0, <1>5, <1>6, <1>12
  <2>2. FlattenSeq(q) = before
    BY <1>7, <2>1, JoinedAll, Zenon
  <2>3. Join(before, y) = Join(before, Join(p[k], Join(u, x)))
    BY <1>10, <2>2, Zenon
  <2>4. Join(p[k], Join(u, x)) = y
    BY <1>7, <1>9, <2>3, Joining
  <2>5. QED
    BY <1>5, <1>9, <2>4, Zenon DEF NotAhead
<1>13. QED
  BY <1>11, <1>12, Zenon

\* So that the two are one.
LEMMA Decoded ==
  ASSUME NEW p \in Seq(Seq(Int)), NEW q \in Seq(Seq(Int)), NEW x \in Seq(Int), NEW y \in Seq(Int),
         Join(FlattenSeq(p), x) = Join(FlattenSeq(q), y),
         NoBeginnings(p, q), NotAhead(p, y), NotAhead(q, x)
  PROVE  p = q /\ x = y
<1>1. Len(p) <= Len(q) /\ \A i \in 1..Len(p) : p[i] = q[i]
  BY DecodedInto, Zenon
<1>2. Len(q) <= Len(p)
  <2>1. NoBeginnings(q, p)
    BY Zenon DEF NoBeginnings
  <2>2. Join(FlattenSeq(q), y) = Join(FlattenSeq(p), x)
    BY Zenon
  <2>3. QED
    BY <2>1, <2>2, DecodedInto, Zenon
<1>3. Len(p) \in Nat /\ Len(q) \in Nat
  BY LenProperties
<1>4. Len(p) = Len(q)
  BY <1>1, <1>2, <1>3
<1>5. p = q
  BY <1>1, <1>4, SeqEqual, Zenon
<1>6. FlattenSeq(p) \in Seq(Int)
  BY JoinedAll, Zenon
<1>7. QED
  BY <1>5, <1>6, Joining

-----------------------------------------------------------------------------
(* The tokens of which getClassName() makes a class name.                  *)

\* One character of a name as getClassName() writes it.
Escaped(unit) ==
  IF unit \in {Comma, OpenBracket, CloseBracket, Backslash} THEN <<Backslash, unit>> ELSE <<unit>>

\* A name, character by character.
Items(name) == [i \in DOMAIN name |-> Escaped(name[i])]

\* What an escaped character begins with, and what follows a backslash.
LEMMA EscapedBegins ==
  ASSUME NEW a \in Int, NEW u \in Seq(Int)
  PROVE  LET special == a \in {Comma, OpenBracket, CloseBracket, Backslash}
         IN /\ Escaped(a) \in Seq(Int)
            /\ special => Join(Escaped(a), u)[1] = Backslash /\ Join(Escaped(a), u)[2] = a
            /\ ~special => Join(Escaped(a), u)[1] = a
<1> DEFINE special == a \in {Comma, OpenBracket, CloseBracket, Backslash}
<1>0. Len(u) \in Nat
  BY LenProperties
<1>1. CASE special
  <2> DEFINE e == <<Backslash, a>>
  <2>1. Escaped(a) = e
    BY <1>1 DEF Escaped
  <2>2. e \in Seq(Int) /\ Len(e) = 2 /\ e[1] = Backslash /\ e[2] = a
    BY DEF Backslash
  <2> HIDE DEF e
  <2>3. \A i \in 1..(Len(e) + Len(u)) : (e \o u)[i] = IF i <= Len(e) THEN e[i] ELSE u[i - Len(e)]
    BY <2>2, ConcatProperties
  <2>4. 1 \in 1..(Len(e) + Len(u)) /\ 2 \in 1..(Len(e) + Len(u))
    BY <1>0, <2>2
  <2>5. (e \o u)[1] = Backslash /\ (e \o u)[2] = a
    <3> DEFINE w == e \o u
    <3>1. w[1] = IF 1 <= Len(e) THEN e[1] ELSE u[1 - Len(e)]
      BY <2>3, <2>4, Zenon
    <3>2. w[2] = IF 2 <= Len(e) THEN e[2] ELSE u[2 - Len(e)]
      BY <2>3, <2>4, Zenon
    <3> HIDE DEF w
    <3>3. w[1] = Backslash /\ w[2] = a
      BY <2>2, <3>1, <3>2
    <3>4. QED
      BY <3>3 DEF w
  <2>6. QED
    BY <1>1, <2>1, <2>2, <2>5 DEF Join
<1>2. CASE ~special
  <2> DEFINE e == <<a>>
  <2>1. Escaped(a) = e
    BY <1>2 DEF Escaped
  <2>2. e \in Seq(Int) /\ Len(e) = 1 /\ e[1] = a
    OBVIOUS
  <2> HIDE DEF e
  <2>3. \A i \in 1..(Len(e) + Len(u)) : (e \o u)[i] = IF i <= Len(e) THEN e[i] ELSE u[i - Len(e)]
    BY <2>2, ConcatProperties
  <2>4. 1 \in 1..(Len(e) + Len(u))
    BY <1>0, <2>2
  <2>5. (e \o u)[1] = a
    BY <2>2, <2>3, <2>4
  <2>6. QED
    BY <1>2, <2>1, <2>2, <2>5 DEF Join
<1>3. QED
  BY <1>1, <1>2

\* No escaped character is the beginning of another.
LEMMA EscapedDecoded ==
  ASSUME NEW a \in Int, NEW b \in Int, NEW u \in Seq(Int), NEW v \in Seq(Int),
         Join(Escaped(a), u) = Join(Escaped(b), v)
  PROVE  a = b
<1> DEFINE special(c) == c \in {Comma, OpenBracket, CloseBracket, Backslash}
<1> DEFINE left == Join(Escaped(a), u)
           right == Join(Escaped(b), v)
<1>1. /\ special(a) => left[1] = Backslash /\ left[2] = a
      /\ ~special(a) => left[1] = a
  BY EscapedBegins, Zenon
<1>2. /\ special(b) => right[1] = Backslash /\ right[2] = b
      /\ ~special(b) => right[1] = b
  BY EscapedBegins, Zenon
<1>3. left = right
  OBVIOUS
<1> HIDE DEF left, right
<1>4. QED
  BY <1>1, <1>2, <1>3 DEF Backslash

\* The items of a name, one per character.
LEMMA ItemsOfName ==
  ASSUME NEW n \in Seq(Int)
  PROVE  /\ Items(n) \in Seq(Seq(Int))
         /\ Len(Items(n)) = Len(n)
         /\ \A i \in 1..Len(n) : n[i] \in Int /\ Items(n)[i] = Escaped(n[i])
         /\ Escape(n) = FlattenSeq(Items(n))
<1>1. Len(n) \in Nat /\ DOMAIN n = 1..Len(n) /\ \A i \in 1..Len(n) : n[i] \in Int
  BY LenProperties, ElementOfSeq
<1>2. <<>> \in Seq(Int)
  BY EmptySeq
<1>3. \A i \in 1..Len(n) : Escaped(n[i]) \in Seq(Int)
  BY <1>1, <1>2, EscapedBegins
<1>4. Items(n) = [i \in 1..Len(n) |-> Escaped(n[i])]
  BY <1>1 DEF Items
<1>5. Items(n) \in Seq(Seq(Int)) /\ Len(Items(n)) = Len(n)
  <2> DEFINE e(i) == Escaped(n[i])
  <2>1. \A i \in 1..Len(n) : e(i) \in Seq(Int)
    BY <1>3
  <2> HIDE DEF e
  <2>2. [i \in 1..Len(n) |-> e(i)] \in Seq(Seq(Int)) /\ Len([i \in 1..Len(n) |-> e(i)]) = Len(n)
    BY <1>1, <2>1
  <2>3. QED
    BY <1>4, <2>2 DEF e
<1>6. Escape(n) = FlattenSeq(Items(n))
  BY DEF Escape, Items, Escaped
<1>7. QED
  BY <1>1, <1>4, <1>5, <1>6

\* Begins with a character that a name does not contain without a backslash.
Marked(x) == x \in Seq(Int) /\ x[1] \in {OpenBracket, Comma}

\* Where an escaped name ends can be seen, and what it was.
LEMMA EscapeDecoded ==
  ASSUME NEW n \in Seq(Int), NEW m \in Seq(Int), NEW x, NEW y, Marked(x), Marked(y),
         Join(Escape(n), x) = Join(Escape(m), y)
  PROVE  n = m /\ x = y
<1> DEFINE p == Items(n)
           q == Items(m)
<1>1. /\ p \in Seq(Seq(Int)) /\ q \in Seq(Seq(Int)) /\ Len(p) = Len(n) /\ Len(q) = Len(m)
      /\ \A i \in 1..Len(p) : n[i] \in Int /\ p[i] = Escaped(n[i])
      /\ \A i \in 1..Len(q) : m[i] \in Int /\ q[i] = Escaped(m[i])
  <2>1. p \in Seq(Seq(Int)) /\ Len(p) = Len(n) /\ \A i \in 1..Len(n) : n[i] \in Int /\ p[i] = Escaped(n[i])
    BY ItemsOfName, Zenon
  <2>2. q \in Seq(Seq(Int)) /\ Len(q) = Len(m) /\ \A i \in 1..Len(m) : m[i] \in Int /\ q[i] = Escaped(m[i])
    BY ItemsOfName, Zenon
  <2>3. QED
    BY <2>1, <2>2, Zenon
<1>2. Join(FlattenSeq(p), x) = Join(FlattenSeq(q), y)
  BY ItemsOfName, Zenon
<1> HIDE DEF p, q
<1>3. x \in Seq(Int) /\ y \in Seq(Int)
  BY DEF Marked
<1>4. NoBeginnings(p, q)
  <2>1. ASSUME NEW i \in 1..Len(p), NEW j \in 1..Len(q), NEW u \in Seq(Int), NEW v \in Seq(Int),
               Join(p[i], u) = Join(q[j], v)
        PROVE  p[i] = q[j]
    <3>1. n[i] \in Int /\ m[j] \in Int /\ p[i] = Escaped(n[i]) /\ q[j] = Escaped(m[j])
      BY <1>1, Zenon
    <3>2. Join(Escaped(n[i]), u) = Join(Escaped(m[j]), v)
      BY <2>1, <3>1, Zenon
    <3>3. n[i] = m[j]
      BY <3>1, <3>2, EscapedDecoded, Zenon
    <3>4. QED
      BY <3>1, <3>3, Zenon
  <2>2. QED
    BY <2>1, Zenon DEF NoBeginnings
<1>5. ASSUME NEW a \in Int, NEW u \in Seq(Int), NEW z, Marked(z)
      PROVE  Join(Escaped(a), u) # z
  <2> DEFINE w == Join(Escaped(a), u)
  <2>1. w[1] = Backslash \/ (w[1] = a /\ a \notin {Comma, OpenBracket, CloseBracket, Backslash})
    BY EscapedBegins, Zenon
  <2> HIDE DEF w
  <2>2. w # z
    BY <1>5, <2>1 DEF Marked, Backslash, OpenBracket, Comma
  <2>3. QED
    BY <2>2 DEF w
<1>6. NotAhead(p, y) /\ NotAhead(q, x)
  BY <1>1, <1>5, Zenon DEF NotAhead
<1>7. p = q /\ x = y
  BY <1>1, <1>2, <1>3, <1>4, <1>6, Decoded, Zenon
<1>8. \A i \in 1..Len(n) : n[i] = m[i]
  <2>1. ASSUME NEW i \in 1..Len(n) PROVE n[i] = m[i]
    <3>1. i \in 1..Len(p) /\ i \in 1..Len(q)
      BY <1>1, <1>7, Zenon
    <3>2. n[i] \in Int /\ m[i] \in Int /\ Escaped(n[i]) = Escaped(m[i])
      BY <1>1, <1>7, <3>1, Zenon
    <3>3. <<>> \in Seq(Int)
      BY EmptySeq
    <3>4. QED
      BY <3>2, <3>3, EscapedDecoded, Zenon
  <2>2. QED
    BY <2>1, Zenon
<1>9. Len(n) = Len(m)
  BY <1>1, <1>7, Zenon
<1>10. QED
  BY <1>7, <1>8, <1>9, SeqEqual, Zenon

\* Joining three sequences in either order.
LEMMA JoinAssociates ==
  ASSUME NEW s \in Seq(Int), NEW t \in Seq(Int), NEW u \in Seq(Int)
  PROVE  Join(Join(s, t), u) = Join(s, Join(t, u))
<1>1. \A a, b, c \in Seq(Int) : Join(Join(a, b), c) = Join(a, Join(b, c))
  BY Joining, Zenon
<1>2. QED
  BY <1>1

\* What follows the name in a token of getClassName().
Mark(type) == (IF type = "array" THEN <<OpenBracket, CloseBracket>> ELSE <<>>) \o <<Comma>>

\* What a field name adds to the class name.
Token(name, type) == Join(Escape(name), Mark(type))

\* FullFieldName is the name and its mark.
LEMMA FullNameIsToken ==
  ASSUME NEW fields, NEW n \in DOMAIN fields, n \in Seq(Int)
  PROVE  FullFieldName(fields, n) = Token(n, fields[n].type)
<1> DEFINE brackets == IF fields[n].type = "array" THEN <<OpenBracket, CloseBracket>> ELSE <<>>
           comma == <<Comma>>
           name == Escape(n)
<1>1. brackets \in Seq(Int) /\ comma \in Seq(Int)
  BY DEF OpenBracket, CloseBracket, Comma
<1>2. name \in Seq(Int)
  BY ItemsOfName, JoinedAll, Zenon
<1>3. FullFieldName(fields, n) = name \o brackets \o comma
  BY DEF FullFieldName
<1>4. Token(n, fields[n].type) = name \o (brackets \o comma)
  BY DEF Token, Mark, Join
<1> HIDE DEF brackets, comma, name
<1>5. (name \o brackets) \o comma = name \o (brackets \o comma)
  BY <1>1, <1>2, ConcatAssociative
<1>6. QED
  BY <1>3, <1>4, <1>5

\* What a mark begins with.
LEMMA MarkBegins ==
  ASSUME NEW b, NEW u \in Seq(Int)
  PROVE  /\ Mark(b) \in Seq(Int) /\ Len(Mark(b)) \in Nat \ {0}
         /\ Marked(Join(Mark(b), u))
         /\ Join(Mark(b), u)[1] = IF b = "array" THEN OpenBracket ELSE Comma
<1> DEFINE e == Mark(b)
<1>1. Len(u) \in Nat
  BY LenProperties
<1>2. e = (IF b = "array" THEN <<OpenBracket, CloseBracket>> ELSE <<>>) \o <<Comma>>
  BY DEF Mark
<1>3. e \in Seq(Int) /\ Len(e) \in Nat \ {0} /\ e[1] = IF b = "array" THEN OpenBracket ELSE Comma
  <2> HIDE DEF e
  <2>1. CASE b = "array"
    <3> DEFINE s == <<OpenBracket, CloseBracket>>
               t == <<Comma>>
    <3>1. /\ s \in Seq(Int) /\ Len(s) = 2 /\ s[1] = OpenBracket
          /\ t \in Seq(Int) /\ Len(t) = 1
      BY DEF OpenBracket, CloseBracket, Comma
    <3>2. e = s \o t
      BY <1>2, <2>1
    <3> HIDE DEF s, t
    <3>3. /\ e \in Seq(Int) /\ Len(e) = Len(s) + Len(t)
          /\ \A i \in 1..(Len(s) + Len(t)) : e[i] = IF i <= Len(s) THEN s[i] ELSE t[i - Len(s)]
      BY <3>1, <3>2, ConcatProperties
    <3>4. QED
      <4>1. 1 \in 1..(Len(s) + Len(t)) /\ 1 <= Len(s)
        BY <3>1
      <4>2. e[1] = s[1]
        BY <3>3, <4>1, Zenon
      <4>3. QED
        BY <2>1, <3>1, <3>3, <4>2
  <2>2. CASE b # "array"
    <3> DEFINE t == <<Comma>>
    <3>1. t \in Seq(Int) /\ Len(t) = 1 /\ t[1] = Comma
      BY DEF Comma
    <3>2. e = <<>> \o t
      BY <1>2, <2>2
    <3> HIDE DEF t
    <3>3. e = t
      BY <3>1, <3>2, ConcatEmptySeq
    <3>4. e \in Seq(Int) /\ Len(e) = 1 /\ e[1] = Comma
      BY <3>1, <3>3, Zenon
    <3>5. QED
      BY <2>2, <3>4
  <2>3. QED
    BY <2>1, <2>2
<1> HIDE DEF e
<1>4. \A i \in 1..(Len(e) + Len(u)) : (e \o u)[i] = IF i <= Len(e) THEN e[i] ELSE u[i - Len(e)]
  BY <1>3, ConcatProperties
<1>5. 1 \in 1..(Len(e) + Len(u)) /\ 1 <= Len(e)
  BY <1>1, <1>3
<1>6. (e \o u)[1] = e[1]
  BY <1>4, <1>5, Zenon
<1>7. e \o u \in Seq(Int)
  BY <1>3, ConcatProperties
<1> DEFINE w == e \o u
<1>8. w = Join(Mark(b), u)
  BY DEF Join, e
<1> HIDE DEF w
<1>9. w[1] = IF b = "array" THEN OpenBracket ELSE Comma
  BY <1>3, <1>6 DEF w
<1>10. w \in Seq(Int)
  BY <1>7 DEF w
<1>11. QED
  BY <1>3, <1>8, <1>9, <1>10 DEF Marked, e

\* No token is the beginning of another.
LEMMA TokenDecoded ==
  ASSUME NEW n \in Seq(Int), NEW m \in Seq(Int), NEW b, NEW c,
         NEW u \in Seq(Int), NEW v \in Seq(Int),
         Join(Token(n, b), u) = Join(Token(m, c), v)
  PROVE  n = m /\ (b = "array" <=> c = "array")
<1>1. Escape(n) \in Seq(Int) /\ Escape(m) \in Seq(Int) /\ Mark(b) \in Seq(Int) /\ Mark(c) \in Seq(Int)
  BY ItemsOfName, JoinedAll, MarkBegins, Zenon
<1> DEFINE en == Escape(n)
           em == Escape(m)
           mb == Mark(b)
           mc == Mark(c)
           x == Join(mb, u)
           y == Join(mc, v)
<1>2. en \in Seq(Int) /\ em \in Seq(Int) /\ mb \in Seq(Int) /\ mc \in Seq(Int)
  BY <1>1
<1>3. Token(n, b) = Join(en, mb) /\ Token(m, c) = Join(em, mc)
  BY DEF Token
<1>4. Marked(x) /\ Marked(y)
  BY MarkBegins, Zenon
<1>5. Join(en, x) = Join(em, y)
  <2> HIDE DEF en, em, mb, mc
  <2>1. Join(Join(en, mb), u) = Join(en, Join(mb, u))
    BY <1>2, JoinAssociates
  <2>2. Join(Join(em, mc), v) = Join(em, Join(mc, v))
    BY <1>2, JoinAssociates
  <2>3. QED
    BY <1>3, <2>1, <2>2, Zenon
<1>6. Join(Escape(n), x) = Join(Escape(m), y)
  BY <1>5, Zenon
<1>7. n = m /\ x = y
  <2> HIDE DEF x, y
  <2>1. QED
    BY <1>4, <1>6, EscapeDecoded
<1>8. Join(mb, u)[1] = (IF b = "array" THEN OpenBracket ELSE Comma) /\ Join(mc, v)[1] = (IF c = "array" THEN OpenBracket ELSE Comma)
  BY MarkBegins, Zenon
<1>9. (IF b = "array" THEN OpenBracket ELSE Comma) = (IF c = "array" THEN OpenBracket ELSE Comma)
  BY <1>7, <1>8, Zenon
<1>10. b = "array" <=> c = "array"
  BY <1>9 DEF OpenBracket, Comma
<1>11. QED
  BY <1>7, <1>10

-----------------------------------------------------------------------------
(* A class name joins the tokens in their order.                           *)

\* The order of names is irreflexive and transitive.
LEMMA BeforeOrders ==
  ASSUME NEW r \in Seq(Int), NEW s \in Seq(Int), NEW t \in Seq(Int)
  PROVE  /\ ~Before(r, r)
         /\ Before(r, s) /\ Before(s, t) => Before(r, t)
<1>1. /\ Len(r) \in Nat /\ DOMAIN r = 1..Len(r) /\ \A i \in 1..Len(r) : r[i] \in Int
      /\ Len(s) \in Nat /\ DOMAIN s = 1..Len(s) /\ \A i \in 1..Len(s) : s[i] \in Int
      /\ Len(t) \in Nat /\ DOMAIN t = 1..Len(t) /\ \A i \in 1..Len(t) : t[i] \in Int
  BY LenProperties, ElementOfSeq
<1>2. ~Before(r, r)
  BY <1>1 DEF Before
<1>3. ASSUME Before(r, s), Before(s, t)
      PROVE  Before(r, t)
  <2>1. PICK i \in 1..Len(s) :
          /\ \A j \in 1..(i - 1) : j <= Len(r) /\ r[j] = s[j]
          /\ i > Len(r) \/ r[i] < s[i]
    BY <1>1, <1>3 DEF Before
  <2>2. PICK k \in 1..Len(t) :
          /\ \A j \in 1..(k - 1) : j <= Len(s) /\ s[j] = t[j]
          /\ k > Len(s) \/ s[k] < t[k]
    BY <1>1, <1>3 DEF Before
  <2>3. CASE i < k
    <3>1. i \in 1..(k - 1) /\ i \in 1..Len(t)
      BY <1>1, <2>1, <2>2, <2>3
    <3>2. s[i] = t[i]
      BY <2>2, <3>1
    <3>3. \A j \in 1..(i - 1) : j <= Len(r) /\ r[j] = t[j]
      BY <2>1, <2>2, <3>1
    <3>4. QED
      BY <1>1, <2>1, <3>1, <3>2, <3>3 DEF Before
  <2>4. CASE k <= i
    <3>1. \A j \in 1..(k - 1) : j <= Len(r) /\ r[j] = t[j]
      <4>1. \A j \in 1..(k - 1) : j \in 1..(i - 1)
        BY <2>1, <2>2, <2>4
      <4>2. QED
        BY <2>1, <2>2, <4>1, Zenon
    <3>2. k <= Len(s) /\ s[k] < t[k]
      BY <1>1, <2>1, <2>2, <2>4
    <3>3. k > Len(r) \/ r[k] < t[k]
      <4>1. CASE k = i
        <5>1. k > Len(r) \/ r[k] < s[k]
          BY <2>1, <4>1
        <5>2. k > Len(r) \/ (k \in 1..Len(r) /\ r[k] \in Int /\ s[k] \in Int /\ t[k] \in Int)
          BY <1>1, <2>1, <2>2, <3>2
        <5>3. QED
          BY <3>2, <5>1, <5>2
      <4>2. CASE k # i
        <5>1. k \in 1..(i - 1)
          BY <2>1, <2>2, <2>4, <4>2
        <5>2. r[k] = s[k]
          BY <2>1, <5>1
        <5>3. QED
          BY <3>2, <5>2
      <4>3. QED
        BY <4>1, <4>2
    <3>4. QED
      BY <1>1, <2>2, <3>1, <3>3 DEF Before
  <2>5. QED
    BY <2>1, <2>2, <2>3, <2>4
<1>4. QED
  BY <1>2, <1>3

\* And it is total.
LEMMA BeforeTotal ==
  ASSUME NEW s \in Seq(Int), NEW t \in Seq(Int), s # t
  PROVE  Before(s, t) \/ Before(t, s)
<1>1. /\ Len(s) \in Nat /\ DOMAIN s = 1..Len(s) /\ \A i \in 1..Len(s) : s[i] \in Int
      /\ Len(t) \in Nat /\ DOMAIN t = 1..Len(t) /\ \A i \in 1..Len(t) : t[i] \in Int
  BY LenProperties, ElementOfSeq
<1> DEFINE Differ == {i \in Nat \ {0} : /\ i <= Len(s) \/ i <= Len(t)
                                        /\ i <= Len(s) /\ i <= Len(t) => s[i] # t[i]}
<1>2. Differ # {}
  <2>1. CASE Len(s) = Len(t)
    <3>1. PICK i \in 1..Len(s) : s[i] # t[i]
      BY <2>1, SeqEqual, Zenon
    <3>2. i \in Differ
      BY <1>1, <3>1
    <3>3. QED
      BY <3>2
  <2>2. CASE Len(s) < Len(t)
    <3>1. Len(s) + 1 \in Differ
      BY <1>1, <2>2
    <3>2. QED
      BY <3>1
  <2>3. CASE Len(t) < Len(s)
    <3>1. Len(t) + 1 \in Differ
      BY <1>1, <2>3
    <3>2. QED
      BY <3>1
  <2> HIDE DEF Differ
  <2>4. Len(s) = Len(t) \/ Len(s) < Len(t) \/ Len(t) < Len(s)
    <3>1. Len(s) \in Nat /\ Len(t) \in Nat
      BY <1>1
    <3>2. \A i, j \in Nat : i = j \/ i < j \/ j < i
      OBVIOUS
    <3>3. QED
      BY <3>1, <3>2, Zenon
  <2>5. QED
    BY <2>1, <2>2, <2>3, <2>4
<1>3. PICK i \in Differ : \A j \in Differ : i <= j
  <2>1. Differ \in SUBSET Nat
    OBVIOUS
  <2>2. QED
    BY <1>2, <2>1, LeastNumber
<1>4. \A j \in 1..(i - 1) : j <= Len(s) /\ j <= Len(t) /\ s[j] = t[j]
  <2>1. ASSUME NEW j \in 1..(i - 1)
        PROVE  j <= Len(s) /\ j <= Len(t) /\ s[j] = t[j]
    <3>1. j \in Nat \ {0} /\ j < i /\ j \notin Differ
      BY <1>3
    <3>2. i <= Len(s) \/ i <= Len(t)
      BY <1>3
    <3>3. j <= Len(s) \/ j <= Len(t)
      BY <1>1, <1>3, <3>1, <3>2
    <3>4. QED
      BY <3>1, <3>3
  <2>2. QED
    BY <2>1
<1>5. CASE i > Len(s)
  BY <1>1, <1>3, <1>4, <1>5 DEF Before
<1>6. CASE i > Len(t)
  BY <1>1, <1>3, <1>4, <1>6 DEF Before
<1>7. CASE i <= Len(s) /\ i <= Len(t)
  <2>1. i \in 1..Len(s) /\ i \in 1..Len(t) /\ s[i] # t[i] /\ s[i] \in Int /\ t[i] \in Int
    BY <1>1, <1>3, <1>7
  <2>2. s[i] < t[i] \/ t[i] < s[i]
    BY <2>1
  <2>3. QED
    BY <1>1, <1>4, <2>1, <2>2 DEF Before
<1>8. QED
  BY <1>1, <1>3, <1>5, <1>6, <1>7

\* How many elements of S are before s.
Earlier(S, s) == {t \in S : Before(t, s)}
Rank(S, s) == Cardinality(Earlier(S, s))

\* A finite set of names has one element of each rank.
LEMMA Ranked ==
  ASSUME NEW S \in SUBSET Seq(Int), IsFiniteSet(S)
  PROVE  /\ Cardinality(S) \in Nat
         /\ \A s \in S : Rank(S, s) \in 0..(Cardinality(S) - 1)
         /\ \A s, t \in S : Rank(S, s) = Rank(S, t) => s = t
         /\ \A i \in 0..(Cardinality(S) - 1) : \E s \in S : Rank(S, s) = i
<1> DEFINE n == Cardinality(S)
<1>1. n \in Nat
  BY FS_CardinalityType
<1>2. \A s \in S : IsFiniteSet(Earlier(S, s)) /\ Rank(S, s) \in Nat
  <2>1. ASSUME NEW s \in S PROVE IsFiniteSet(Earlier(S, s)) /\ Rank(S, s) \in Nat
    <3>1. Earlier(S, s) \in SUBSET S
      BY DEF Earlier
    <3>2. IsFiniteSet(Earlier(S, s))
      BY <3>1, FS_Subset
    <3>3. QED
      BY <3>2, FS_CardinalityType DEF Rank
  <2>2. QED
    BY <2>1
<1>3. \A s \in S : Rank(S, s) + 1 <= n
  <2>1. ASSUME NEW s \in S PROVE Rank(S, s) + 1 <= n
    <3>1. s \notin Earlier(S, s)
      BY BeforeOrders DEF Earlier
    <3>2. Cardinality(Earlier(S, s) \cup {s}) = Rank(S, s) + 1
      BY <1>2, <3>1, FS_AddElement DEF Rank
    <3>3. Earlier(S, s) \cup {s} \in SUBSET S
      BY DEF Earlier
    <3>4. QED
      BY <3>2, <3>3, FS_Subset
  <2>2. QED
    BY <2>1
<1>4. ASSUME NEW s \in S, NEW t \in S, Before(s, t)
      PROVE  Rank(S, s) < Rank(S, t)
  <2>1. s \notin Earlier(S, s)
    BY BeforeOrders DEF Earlier
  <2>2. Cardinality(Earlier(S, s) \cup {s}) = Rank(S, s) + 1
    BY <1>2, <2>1, FS_AddElement DEF Rank
  <2>3. Earlier(S, s) \cup {s} \in SUBSET Earlier(S, t)
    <3>1. \A r \in S : Before(r, s) => Before(r, t)
      BY <1>4, BeforeOrders
    <3>2. QED
      BY <1>4, <3>1 DEF Earlier
  <2>4. IsFiniteSet(Earlier(S, t))
    BY <1>2
  <2>5. Rank(S, s) + 1 <= Rank(S, t)
    BY <2>2, <2>3, <2>4, FS_Subset DEF Rank
  <2>6. QED
    BY <1>2, <2>5
<1>5. ASSUME NEW s \in S, NEW t \in S, Rank(S, s) = Rank(S, t)
      PROVE  s = t
  <2>1. Rank(S, s) \in Nat /\ Rank(S, t) \in Nat
    BY <1>2
  <2>2. ~Before(s, t) /\ ~Before(t, s)
    BY <1>4, <1>5, <2>1
  <2>3. QED
    BY <2>2, BeforeTotal
<1>6. ASSUME NEW i \in 0..(n - 1)
      PROVE  \E s \in S : Rank(S, s) = i
  <2> DEFINE f == [s \in S |-> Rank(S, s)]
             T == 0..(n - 1)
  <2>1. f \in [S -> T]
    BY <1>1, <1>2, <1>3
  <2>2. \A s, t \in S : f[s] = f[t] => s = t
    BY <1>5
  <2>3. IsFiniteSet(T) /\ Cardinality(T) = n
    BY <1>1, FS_Interval
  <2>4. f \in Injection(S, T)
    BY <2>1, <2>2 DEF Injection, IsInjective
  <2> HIDE DEF f, T
  <2>5. f \in Surjection(S, T)
    BY <2>3, <2>4, FS_Injection
  <2>6. i \in T
    BY DEF T
  <2>7. \E s \in S : f[s] = i
    BY <2>5, <2>6 DEF Surjection
  <2>8. QED
    BY <2>7 DEF f
<1>7. QED
  BY <1>1, <1>2, <1>3, <1>5, <1>6

\* Each element stands at its rank.
LEMMA OrderedRange ==
  ASSUME NEW S \in SUBSET Seq(Int), IsFiniteSet(S)
  PROVE  /\ Ordered(S) \in Seq(Seq(Int))
         /\ \A i \in 1..Len(Ordered(S)) : Ordered(S)[i] \in S
         /\ \A s \in S : \E i \in 1..Len(Ordered(S)) : Ordered(S)[i] = s
<1> DEFINE n == Cardinality(S)
           at(i) == CHOOSE s \in S : Rank(S, s) = i - 1
<1>1. n \in Nat
  BY Ranked
<1>2. Ordered(S) = [i \in 1..n |-> at(i)]
  BY DEF Ordered, Rank, Earlier
<1>3. \A i \in 1..n : at(i) \in S /\ Rank(S, at(i)) = i - 1
  <2>1. ASSUME NEW i \in 1..n PROVE at(i) \in S /\ Rank(S, at(i)) = i - 1
    <3>1. i - 1 \in 0..(Cardinality(S) - 1)
      BY <1>1
    <3>2. \E s \in S : Rank(S, s) = i - 1
      BY <3>1, Ranked, Zenon
    <3>3. QED
      BY <3>2, Zenon
  <2>2. QED
    BY <2>1, Zenon
<1> HIDE DEF at
<1>4. \A i \in 1..n : at(i) \in Seq(Int)
  BY <1>3
<1>5. [i \in 1..n |-> at(i)] \in Seq(Seq(Int)) /\ Len([i \in 1..n |-> at(i)]) = n
  BY <1>1, <1>4
<1>6. \A i \in 1..n : Ordered(S)[i] = at(i)
  BY <1>2
<1>7. Ordered(S) \in Seq(Seq(Int)) /\ Len(Ordered(S)) = n
  BY <1>2, <1>5, Zenon
<1>8. ASSUME NEW s \in S
      PROVE  \E i \in 1..n : Ordered(S)[i] = s
  <2>1. Rank(S, s) \in 0..(n - 1)
    BY Ranked, Zenon
  <2>2. Rank(S, s) + 1 \in 1..n /\ (Rank(S, s) + 1) - 1 = Rank(S, s)
    BY <1>1, <2>1
  <2>3. at(Rank(S, s) + 1) \in S /\ Rank(S, at(Rank(S, s) + 1)) = Rank(S, s)
    BY <1>3, <2>2
  <2>4. at(Rank(S, s) + 1) = s
    BY <2>3, Ranked
  <2>5. QED
    BY <1>6, <2>2, <2>4
<1>9. QED
  BY <1>3, <1>6, <1>7, <1>8, Zenon

\* The fields of an object that can be converted.
IsFields(f) == IsFiniteSet(DOMAIN f) /\ DOMAIN f \subseteq Seq(Int)

\* What getClassName() puts together.
Tokens(f) == {FullFieldName(f, n) : n \in DOMAIN f}

\* They are finitely many sequences: a name and its mark each.
LEMMA TokensOfFields ==
  ASSUME NEW f, IsFields(f)
  PROVE  /\ Tokens(f) \in SUBSET Seq(Int) /\ IsFiniteSet(Tokens(f))
         /\ \A n \in DOMAIN f : FullFieldName(f, n) = Token(n, f[n].type)
<1>1. \A n \in DOMAIN f : n \in Seq(Int)
  BY DEF IsFields
<1>2. \A n \in DOMAIN f : FullFieldName(f, n) = Token(n, f[n].type)
  BY <1>1, FullNameIsToken
<1>3. \A n \in DOMAIN f : FullFieldName(f, n) \in Seq(Int)
  <2>1. ASSUME NEW n \in DOMAIN f PROVE Token(n, f[n].type) \in Seq(Int)
    <3>1. Escape(n) \in Seq(Int)
      BY <1>1, ItemsOfName, JoinedAll, Zenon
    <3>3. <<>> \in Seq(Int)
      BY EmptySeq
    <3>4. Mark(f[n].type) \in Seq(Int)
      BY <3>3, MarkBegins, Zenon
    <3>5. QED
      BY <3>1, <3>4, Joining, Zenon DEF Token
  <2>2. QED
    BY <1>2, <2>1
<1>4. IsFiniteSet(Tokens(f))
  <2> DEFINE g == [n \in DOMAIN f |-> FullFieldName(f, n)]
  <2>1. g \in Surjection(DOMAIN f, Tokens(f))
    BY DEF Surjection, Tokens
  <2>2. QED
    BY <2>1, FS_Surjection DEF IsFields
<1>5. QED
  BY <1>2, <1>3, <1>4 DEF Tokens

\* A token is that of a field.
LEMMA TokenOfField ==
  ASSUME NEW f, IsFields(f), NEW s \in Tokens(f)
  PROVE  \E n \in Seq(Int) : \E b : s = Token(n, b) /\ n \in DOMAIN f /\ b = f[n].type
<1>1. PICK n \in DOMAIN f : s = FullFieldName(f, n)
  BY DEF Tokens
<1>2. s = Token(n, f[n].type) /\ n \in Seq(Int)
  BY <1>1, TokensOfFields DEF IsFields
<1>3. QED
  BY <1>1, <1>2, Zenon

\* From the tokens of an object its shape can be told.
LEMMA ShapeOfTokens ==
  ASSUME NEW f, NEW g, IsFields(f), IsFields(g), Tokens(f) \subseteq Tokens(g), NEW n \in DOMAIN f
  PROVE  n \in DOMAIN g /\ (f[n].type = "array" <=> g[n].type = "array")
<1>1. n \in Seq(Int) /\ <<>> \in Seq(Int)
  BY EmptySeq DEF IsFields
<1>2. Token(n, f[n].type) \in Tokens(g)
  BY TokensOfFields DEF Tokens
<1>3. PICK m \in Seq(Int) : \E c : Token(n, f[n].type) = Token(m, c) /\ m \in DOMAIN g /\ c = g[m].type
  BY <1>2, TokenOfField
<1> DEFINE c == g[m].type
<1>4. Join(Token(n, f[n].type), <<>>) = Join(Token(m, c), <<>>) /\ m \in DOMAIN g
  BY <1>3, Zenon
<1>5. n = m /\ (f[n].type = "array" <=> c = "array")
  <2> DEFINE b == f[n].type
             none == <<>>
  <2>1. Join(Token(n, b), none) = Join(Token(m, c), none) /\ none \in Seq(Int)
    BY <1>1, <1>4
  <2> HIDE DEF b, c, none
  <2>2. n = m /\ (b = "array" <=> c = "array")
    BY <1>1, <2>1, TokenDecoded
  <2>3. QED
    BY <2>2 DEF b
<1>6. QED
  BY <1>3, <1>5

\* A token is not empty.
LEMMA TokenNotEmpty ==
  ASSUME NEW n \in Seq(Int), NEW b, NEW u \in Seq(Int)
  PROVE  Join(Token(n, b), u) # <<>>
<1>1. SUFFICES ASSUME Join(Token(n, b), u) = <<>> PROVE FALSE
  OBVIOUS
<1>2. Escape(n) \in Seq(Int) /\ Mark(b) \in Seq(Int) /\ Join(Mark(b), u) \in Seq(Int)
  BY ItemsOfName, JoinedAll, MarkBegins, Zenon DEF Marked
<1>3. Join(Token(n, b), u) = Join(Escape(n), Join(Mark(b), u))
  BY <1>2, JoinAssociates DEF Token
<1>4. Join(Mark(b), u) = <<>>
  BY <1>1, <1>2, <1>3, ConcatSimplifications DEF Join
<1>5. Mark(b) = <<>>
  BY <1>2, <1>4, ConcatSimplifications DEF Join
<1>6. Len(<<>>) = 0
  BY EmptySeq
<1>7. Len(Mark(b)) \in Nat \ {0}
  BY MarkBegins
<1>8. QED
  BY <1>5, <1>6, <1>7

\* Two shapes have two class names: getClassName() is injective.
THEOREM ClassNamesDistinct ==
  ASSUME NEW f, NEW g, IsFields(f), IsFields(g), ClassName(f) = ClassName(g)
  PROVE  /\ DOMAIN f = DOMAIN g
         /\ \A n \in DOMAIN f : f[n].type = "array" <=> g[n].type = "array"
<1> DEFINE p == Ordered(Tokens(f))
           q == Ordered(Tokens(g))
<1>1. /\ p \in Seq(Seq(Int))
      /\ \A i \in 1..Len(p) : p[i] \in Tokens(f)
      /\ \A s \in Tokens(f) : \E i \in 1..Len(p) : p[i] = s
  BY TokensOfFields, OrderedRange, Zenon
<1>2. /\ q \in Seq(Seq(Int))
      /\ \A i \in 1..Len(q) : q[i] \in Tokens(g)
      /\ \A s \in Tokens(g) : \E i \in 1..Len(q) : q[i] = s
  BY TokensOfFields, OrderedRange, Zenon
<1>3. FlattenSeq(p) = FlattenSeq(q)
  BY DEF ClassName, Tokens
<1> HIDE DEF p, q
<1>4. ASSUME NEW i \in 1..Len(p)
      PROVE  \E n \in Seq(Int) : \E b : p[i] = Token(n, b)
  <2>1. p[i] \in Tokens(f)
    BY <1>1, Zenon
  <2>2. QED
    BY <2>1, TokenOfField
<1>5. ASSUME NEW i \in 1..Len(q)
      PROVE  \E n \in Seq(Int) : \E b : q[i] = Token(n, b)
  <2>1. q[i] \in Tokens(g)
    BY <1>2, Zenon
  <2>2. QED
    BY <2>1, TokenOfField
<1>6. NoBeginnings(p, q)
  <2>1. ASSUME NEW i \in 1..Len(p), NEW j \in 1..Len(q), NEW u \in Seq(Int), NEW v \in Seq(Int),
               Join(p[i], u) = Join(q[j], v)
        PROVE  p[i] = q[j]
    <3>1. PICK n \in Seq(Int) : \E b : p[i] = Token(n, b)
      BY <1>4, Zenon
    <3>2. PICK b : p[i] = Token(n, b)
      BY <3>1
    <3>3. PICK m \in Seq(Int) : \E c : q[j] = Token(m, c)
      BY <1>5, Zenon
    <3>4. PICK c : q[j] = Token(m, c)
      BY <3>3
    <3>5. Join(Token(n, b), u) = Join(Token(m, c), v)
      BY <2>1, <3>2, <3>4, Zenon
    <3>6. n = m /\ (b = "array" <=> c = "array")
      BY <3>5, TokenDecoded
    <3>7. Mark(b) = Mark(c)
      BY <3>6 DEF Mark
    <3>8. QED
      BY <3>2, <3>4, <3>6, <3>7, Zenon DEF Token
  <2>2. QED
    BY <2>1, Zenon DEF NoBeginnings
<1>7. NotAhead(p, <<>>) /\ NotAhead(q, <<>>)
  <2>1. ASSUME NEW i \in 1..Len(p), NEW u \in Seq(Int) PROVE Join(p[i], u) # <<>>
    BY <1>4, TokenNotEmpty
  <2>2. ASSUME NEW i \in 1..Len(q), NEW u \in Seq(Int) PROVE Join(q[i], u) # <<>>
    BY <1>5, TokenNotEmpty
  <2>3. QED
    BY <2>1, <2>2 DEF NotAhead
<1>8. p = q
  <2>1. <<>> \in Seq(Int)
    BY EmptySeq
  <2>2. Join(FlattenSeq(p), <<>>) = Join(FlattenSeq(q), <<>>)
    BY <1>3, Zenon
  <2>3. QED
    BY <1>1, <1>2, <1>6, <1>7, <2>1, <2>2, Decoded, Zenon
<1>9. Tokens(f) \subseteq Tokens(g)
  <2>1. ASSUME NEW s \in Tokens(f) PROVE s \in Tokens(g)
    <3>1. PICK i \in 1..Len(p) : p[i] = s
      BY <1>1, Zenon
    <3>2. QED
      BY <1>2, <1>8, <3>1, Zenon
  <2>2. QED
    BY <2>1
<1>10. Tokens(g) \subseteq Tokens(f)
  <2>1. ASSUME NEW s \in Tokens(g) PROVE s \in Tokens(f)
    <3>1. PICK i \in 1..Len(q) : q[i] = s
      BY <1>2, Zenon
    <3>2. QED
      BY <1>1, <1>8, <3>1, Zenon
  <2>2. QED
    BY <2>1
<1>11. \A n \in DOMAIN f : n \in DOMAIN g /\ (f[n].type = "array" <=> g[n].type = "array")
  BY <1>9, ShapeOfTokens
<1>12. \A n \in DOMAIN g : n \in DOMAIN f
  BY <1>10, ShapeOfTokens
<1>13. QED
  BY <1>11, <1>12
===============================================================================
