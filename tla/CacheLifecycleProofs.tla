------------------------- MODULE CacheLifecycleProofs -------------------------
(***************************************************************************)
(* Proofs about CacheLifecycle for any sets of factories, Cache objects,   *)
(* native caches, values and kinds of settings.                            *)
(***************************************************************************)
EXTENDS CacheLifecycle, TLAPS

\* What a setting of a factory or of a cache can be.
Configs == [AllSettings -> Values \cup {NoValue, Default}]

-----------------------------------------------------------------------------
(* Lemmas about the operators of the model.                                *)

\* A list of arguments has one or two elements.
LEMMA ArgumentsTyped ==
  ASSUME NEW args \in ArgumentLists, NEW i \in {1, 2}
  PROVE  Argument(args, i) \in Values \cup {NoValue}
<1>1. CASE \E a \in Values \cup {NoValue} : args = <<a>>
  BY <1>1 DEF Argument
<1>2. CASE args \in (Values \cup {NoValue}) \X (Values \cup {NoValue})
  BY <1>2 DEF Argument
<1>3. QED
  BY <1>1, <1>2 DEF ArgumentLists

\* Any argument is converted, undefined included.
LEMMA NativeTyped ==
  ASSUME NEW a \in Values \cup {NoValue}
  PROVE  Native(a) \in Values \cup {NoValue, Default}
BY DEF Native

\* What a method sets, and what it is documented to set, are native values.
LEMMA SettingsTyped ==
  ASSUME NEW s \in AllSettings, NEW args \in ArgumentLists
  PROVE  /\ ValueSet(s, args) \in Values \cup {NoValue, Default}
         /\ ValueAsked(s, args) \in Values \cup {NoValue, Default}
<1>1. Read[s] \in {1, 2}
  BY DEF AllSettings, Read
<1>2. ValueSet(s, args) \in Values \cup {NoValue, Default}
  BY <1>1, ArgumentsTyped, NativeTyped DEF ValueSet
<1>3. Len(args) = 1 => args[1] = Argument(args, 1)
  BY DEF Argument
<1>4. QED
  BY <1>2, <1>3, ArgumentsTyped, NativeTyped DEF ValueAsked

\* A factory without settings, and one that configure() made.
LEMMA UnsetTyped ==
  /\ Unset \in Configs
  /\ \A path \in Values : [Unset EXCEPT !["direct"] = path] \in Configs
BY DEF Unset, Configs, AllSettings

\* create() leaves a cache open, makes the new object the singleton, and fixes
\* the settings of a cache only when it opens it.
LEMMA NativeCreateEffect ==
  ASSUME TypeOK, NEW w \in Wrappers, NEW given \in Configs, NEW requested \in Configs,
         NativeCreate(w, given, requested)
  PROVE  /\ open' \in Caches /\ singleton' = w
         /\ wrapped[w] = NoCache /\ wrapped' = [wrapped EXCEPT ![w] = open']
         /\ open # NoCache => open' = open /\ UNCHANGED configVars
         /\ open = NoCache => /\ \A v \in Wrappers : wrapped[v] # open'
                              /\ config' = [config EXCEPT ![open'] = given]
                              /\ askedFor' = [askedFor EXCEPT ![open'] = requested]
         /\ config' \in [Caches -> Configs] /\ askedFor' \in [Caches -> Configs]
<1>1. CASE open # NoCache
  BY <1>1 DEF NativeCreate, NewInstance, OpenCache, TypeOK, Configs, configVars
<1>2. CASE open = NoCache
  <2>1. /\ open' \in Caches \ Used
        /\ config' = [config EXCEPT ![open'] = given]
        /\ askedFor' = [askedFor EXCEPT ![open'] = requested]
    BY <1>2 DEF NativeCreate, NewInstance, OpenCache
  <2>2. \A v \in Wrappers : wrapped[v] # open'
    BY <2>1 DEF Used
  <2>3. config' \in [Caches -> Configs] /\ askedFor' \in [Caches -> Configs]
    BY <2>1 DEF TypeOK, Configs
  <2>4. QED
    BY <1>2, <2>1, <2>2, <2>3 DEF NativeCreate, NewInstance
<1>3. QED
  BY <1>1, <1>2

\* create() and configure() are the calls that make a Cache object: what else
\* they do.
Makes(w, given, requested) ==
  /\ NativeCreate(w, given, requested)
  /\ jsHeld' \subseteq jsHeld \cup {w}
  /\ UNCHANGED <<factories, deleted, regions, closed, settingVars>>

\* What else the program and the collector do.
Others ==
  \/ \E f \in Factories :
       \/ CreateCacheFactory(f)
       \/ \E s \in Settings, args \in ArgumentLists : Set(f, s, args)
  \/ \E w \in Wrappers : Close(w) \/ Drop(w) \/ Collect(w) \/ CreateRegion(w)
  \/ GetCache

\* Each step that changes something makes a Cache object, or is one of the others.
LEMMA MakesOrOthers ==
  ASSUME TypeOK, Next
  PROVE  \/ \E w \in Wrappers, given \in Configs, requested \in Configs :
              Makes(w, given, requested)
         \/ Others
<1>1. ASSUME NEW f \in Factories, NEW w \in Wrappers, Create(f, w)
      PROVE  Makes(w, settings[f], asked[f]) /\ settings[f] \in Configs /\ asked[f] \in Configs
  BY <1>1 DEF Create, Makes, TypeOK, Configs
<1>2. ASSUME NEW w \in Wrappers, NEW path \in Values, Configure(w, path)
      PROVE  LET s == [Unset EXCEPT !["direct"] = path] IN Makes(w, s, s) /\ s \in Configs
  BY <1>2, UnsetTyped DEF Configure, Makes
<1>3. QED
  BY <1>1, <1>2 DEF Next, Others

-----------------------------------------------------------------------------
(* The invariant.                                                          *)

\* At the start there is no factory, object or cache.
LEMMA InitInv == Init => Inv
<1> SUFFICES ASSUME Init PROVE Inv
  OBVIOUS
<1>1. TypeOK
  BY UnsetTyped DEF Init, TypeOK, Configs
<1>2. QED
  BY <1>1, NoWrapperAssumption DEF Init, Inv, HeldAreLive, SingletonWrapsOpenCache,
    OpenUntilClosedIfWrappedOnce

\* Every step leaves the state well typed.
LEMMA NextTypeOK == TypeOK /\ HeldAreLive /\ [Next]_vars => TypeOK'
<1> SUFFICES ASSUME TypeOK, HeldAreLive, [Next]_vars PROVE TypeOK'
  OBVIOUS
<1> USE DEF settingVars, configVars
<1>1. ASSUME NEW w \in Wrappers, NEW given \in Configs, NEW requested \in Configs,
             Makes(w, given, requested)
      PROVE  TypeOK'
  <2>1. /\ open' \in Caches /\ singleton' = w
        /\ wrapped' = [wrapped EXCEPT ![w] = open']
        /\ config' \in [Caches -> Configs] /\ askedFor' \in [Caches -> Configs]
    BY <1>1, NativeCreateEffect DEF Makes
  <2>2. QED
    BY <1>1, <2>1 DEF Makes, TypeOK, Configs
<1>2. ASSUME NEW f \in Factories, NEW s \in Settings, NEW args \in ArgumentLists,
             Set(f, s, args)
      PROVE  TypeOK'
  <2>1. s \in AllSettings
    BY SettingsAssumption
  <2>2. /\ ValueSet(s, args) \in Values \cup {NoValue, Default}
        /\ ValueAsked(s, args) \in Values \cup {NoValue, Default}
    BY <2>1, SettingsTyped
  <2>3. settings' \in [Factories -> Configs] /\ asked' \in [Factories -> Configs]
    BY <1>2, <2>1, <2>2 DEF Set, TypeOK, Configs
  <2>4. QED
    BY <1>2, <2>3 DEF Set, TypeOK, Configs
<1>3. ASSUME NEW w \in Wrappers, Close(w) \/ Drop(w) \/ Collect(w) \/ CreateRegion(w)
      PROVE  TypeOK'
  BY <1>3 DEF Close, Drop, Collect, CreateRegion, CloseNative, TypeOK, HeldAreLive
<1>4. CASE GetCache
  BY <1>4 DEF GetCache, TypeOK
<1>5. ASSUME NEW f \in Factories, CreateCacheFactory(f) PROVE TypeOK'
  BY <1>5 DEF CreateCacheFactory, TypeOK
<1>6. CASE UNCHANGED vars
  BY <1>6 DEF vars, TypeOK
<1>7. QED
  BY <1>1, <1>2, <1>3, <1>4, <1>5, <1>6, MakesOrOthers DEF Others

\* What the program holds, or gets with getCache(), was made by create() and is
\* not deleted.
LEMMA NextHeld ==
  TypeOK /\ HeldAreLive /\ [Next]_vars => HeldAreLive'
<1> SUFFICES ASSUME TypeOK, HeldAreLive, [Next]_vars
             PROVE  HeldAreLive'
  OBVIOUS
<1>1. ASSUME NEW w \in Wrappers, NEW given \in Configs, NEW requested \in Configs,
             Makes(w, given, requested)
      PROVE  HeldAreLive'
  <2>1. /\ open' # NoCache /\ singleton' = w /\ wrapped' = [wrapped EXCEPT ![w] = open']
        /\ jsHeld' \subseteq jsHeld \cup {w}
    BY <1>1, NativeCreateEffect, NoCacheAssumption DEF Makes
  <2>2. wrapped[w] = NoCache /\ deleted' = deleted
    BY <1>1, NativeCreateEffect DEF Makes
  <2>3. w \notin deleted
    BY <2>2 DEF HeldAreLive
  <2>4. QED
    BY <2>1, <2>2, <2>3 DEF HeldAreLive, TypeOK
<1>2. CASE Others \/ UNCHANGED vars
  BY <1>2 DEF Others, vars, CreateCacheFactory, Set, Close, Drop, Collect, CreateRegion,
              GetCache, HeldAreLive
<1>3. QED
  BY <1>1, <1>2, MakesOrOthers

\* The singleton goes with every cache that is opened, and no other object's
\* close can open one.
LEMMA NextSingleton ==
  TypeOK /\ SingletonWrapsOpenCache /\ [Next]_vars
    => SingletonWrapsOpenCache'
<1> SUFFICES ASSUME TypeOK, SingletonWrapsOpenCache, [Next]_vars
             PROVE  SingletonWrapsOpenCache'
  OBVIOUS
<1>1. ASSUME NEW w \in Wrappers, NEW given \in Configs, NEW requested \in Configs,
             Makes(w, given, requested)
      PROVE  SingletonWrapsOpenCache'
  <2>1. singleton' = w /\ wrapped' = [wrapped EXCEPT ![w] = open']
    BY <1>1, NativeCreateEffect DEF Makes
  <2>2. QED
    BY <2>1, NoWrapperAssumption DEF SingletonWrapsOpenCache, TypeOK
<1>2. CASE Others \/ UNCHANGED vars
  BY <1>2 DEF Others, vars, CreateCacheFactory, Set, Close, Drop, Collect, CreateRegion,
              GetCache, CloseNative, SingletonWrapsOpenCache
<1>3. QED
  BY <1>1, <1>2, MakesOrOthers

\* The collector closes a cache only if it has a second Cache object: the first
\* would be the singleton.
LEMMA NextOpenUntilClosed ==
  TypeOK /\ SingletonWrapsOpenCache /\ OpenUntilClosedIfWrappedOnce
    /\ [Next]_vars => OpenUntilClosedIfWrappedOnce'
<1> SUFFICES ASSUME TypeOK, SingletonWrapsOpenCache,
                    OpenUntilClosedIfWrappedOnce, [Next]_vars
             PROVE  OpenUntilClosedIfWrappedOnce'
  OBVIOUS
<1>1. ASSUME NEW w \in Wrappers, NEW given \in Configs, NEW requested \in Configs,
             Makes(w, given, requested)
      PROVE  OpenUntilClosedIfWrappedOnce'
  <2>1. /\ wrapped[w] = NoCache /\ wrapped' = [wrapped EXCEPT ![w] = open']
        /\ open # NoCache => open' = open
        /\ closed' = closed
    BY <1>1, NativeCreateEffect DEF Makes
  <2>2. SUFFICES ASSUME NEW u \in Wrappers, wrapped'[u] # NoCache,
                        \A v \in Wrappers \ {u} : wrapped'[v] # wrapped'[u]
                 PROVE  wrapped'[u] \in closed \/ open' = wrapped'[u]
    BY <2>1 DEF OpenUntilClosedIfWrappedOnce
  <2>3. CASE u = w
    BY <2>1, <2>3 DEF TypeOK
  <2>4. CASE u # w
    <3>1. wrapped'[u] = wrapped[u] /\ \A v \in Wrappers \ {u} : wrapped[v] # wrapped[u]
      BY <2>1, <2>2, <2>4 DEF TypeOK
    <3>2. QED
      BY <2>1, <2>2, <3>1 DEF OpenUntilClosedIfWrappedOnce
  <2>5. QED
    BY <2>3, <2>4
<1>2. ASSUME NEW w \in Wrappers, Close(w) PROVE OpenUntilClosedIfWrappedOnce'
  BY <1>2 DEF Close, CloseNative, OpenUntilClosedIfWrappedOnce
<1>3. ASSUME NEW w \in Wrappers, Collect(w) PROVE OpenUntilClosedIfWrappedOnce'
  <2>1. CASE open # wrapped[w]
    BY <1>3, <2>1 DEF Collect, CloseNative, OpenUntilClosedIfWrappedOnce
  <2>2. CASE open = wrapped[w]
    <3>1. singleton # w /\ singleton \in Wrappers /\ wrapped[singleton] = wrapped[w]
      BY <1>3, <2>2 DEF Collect, SingletonWrapsOpenCache, TypeOK
    <3>2. ASSUME NEW u \in Wrappers, wrapped[u] = wrapped[w]
          PROVE  \E v \in Wrappers \ {u} : wrapped[v] = wrapped[u]
      BY <3>1, <3>2
    <3>3. QED
      BY <1>3, <2>2, <3>2 DEF Collect, CloseNative, OpenUntilClosedIfWrappedOnce
  <2>3. QED
    BY <2>1, <2>2
<1>4. CASE Others /\ ~(\E w \in Wrappers : Close(w) \/ Collect(w))
  BY <1>4 DEF Others, CreateCacheFactory, Set, Drop, CreateRegion, GetCache,
              OpenUntilClosedIfWrappedOnce
<1>5. CASE UNCHANGED vars
  BY <1>5 DEF vars, OpenUntilClosedIfWrappedOnce
<1>6. QED
  BY <1>1, <1>2, <1>3, <1>4, <1>5, MakesOrOthers

-----------------------------------------------------------------------------
(* Theorems.                                                               *)

\* The inductive invariant.
THEOREM LifecycleInvariant == Spec => []Inv
<1>1. Init => Inv
  BY InitInv
<1>2. Inv /\ [Next]_vars => Inv'
  BY NextTypeOK, NextHeld, NextSingleton, NextOpenUntilClosed DEF Inv
<1>3. QED
  BY <1>1, <1>2, PTL DEF Spec

\* Every variable keeps its type, whatever is created, set, closed and collected.
THEOREM LifecycleTyped == Spec => []TypeOK
BY LifecycleInvariant, PTL DEF Inv

\* An open native cache is the one that getCache() gives access to, for any
\* number of factories, Cache objects and caches.
THEOREM SingletonIsRight == Spec => []SingletonWrapsOpenCache
BY LifecycleInvariant, PTL DEF Inv

\* The collector never closes a cache that has one Cache object.
THEOREM OneObjectIsSafe == Spec => []OpenUntilClosedIfWrappedOnce
BY LifecycleInvariant, PTL DEF Inv

===============================================================================
