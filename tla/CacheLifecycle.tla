---------------------------- MODULE CacheLifecycle ----------------------------
(***************************************************************************)
(* The life of the native cache: who creates it and with which settings,   *)
(* which JavaScript object getCache() returns, and what closes it.         *)
(*                                                                         *)
(* binding.js keeps one variable, cacheSingleton, that the callback of a   *)
(* CacheFactory sets; configure() and createCacheFactory() refuse once it  *)
(* is set, but a factory made before then can still create().  Every       *)
(* create() makes a new Cache object around the native cache, and the      *)
(* destructor of each of these objects closes that cache, so that the      *)
(* garbage collector is an actor here.                                     *)
(*                                                                         *)
(* External: the native create() returns the open cache if there is one    *)
(* and else a new one, and regions end with their cache.  A create() that  *)
(* fails ends the process and is left out.                                 *)
(*                                                                         *)
(* The methods of a CacheFactory that set something are of three kinds,    *)
(* which differ in the argument they hand to the native factory.  A value  *)
(* is a model value; a configuration is fixed when its cache is opened.    *)
(***************************************************************************)
EXTENDS Naturals, Sequences

CONSTANTS
  Factories,  \* the CacheFactory objects the program may make
  Wrappers,   \* the JavaScript Cache objects; bound: calls of create()
  Caches,     \* the native caches; bound: caches in the life of the process
  NoWrapper,  \* cacheSingleton is undefined
  NoCache,    \* no native cache
  Values,     \* arguments of the type a setting asks for
  NoValue,    \* undefined as an argument; a setting that was not made
  Default,    \* what undefined is converted to: 0, false or "undefined"
  Settings    \* the kinds of settings made, a subset of AllSettings

ASSUME NoWrapperAssumption == NoWrapper \notin Wrappers
ASSUME NoCacheAssumption == NoCache \notin Caches
ASSUME ValuesAssumption == NoValue \notin Values /\ Default \notin Values

\* The kinds: "direct" is set(name, value), and addLocator() and addServer()
\* are like it, here without the name, and setServerGroup(name); "pool" stands
\* for the other setters, each with one number or boolean.
AllSettings == {"direct", "pool"}

ASSUME SettingsAssumption == Settings \subseteq AllSettings

\* Which argument a method hands on.  It is documented with one.
Read == [direct |-> 1, pool |-> 2]

\* The arguments of a call; an argument that is not given is undefined.
ArgumentLists ==
  LET Arguments == Values \cup {NoValue}
  IN {<<a>> : a \in Arguments} \cup Arguments \X Arguments
Argument(args, i) == IF i <= Len(args) THEN args[i] ELSE NoValue

\* A call throws only if the number of its arguments is wrong and the type of
\* the first is right.
Rejected(args) == Len(args) # 1 /\ Argument(args, 1) \in Values

\* The native value of an argument.
Native(a) == IF a = NoValue THEN Default ELSE a

\* What a call sets, and what its documentation says it sets.
ValueSet(s, args) == Native(Argument(args, Read[s]))
ValueAsked(s, args) == IF Len(args) = 1 THEN Native(args[1]) ELSE ValueSet(s, args)

Unset == [s \in AllSettings |-> NoValue]

VARIABLES
  factories,  \* factories that were made
  wrapped,    \* the cachePtr of each Cache object
  jsHeld,     \* Cache objects the program holds
  deleted,    \* Cache objects the garbage collector has deleted
  singleton,  \* cacheSingleton of binding.js
  open,       \* the open native cache
  regions,    \* caches in which the program has created a region
  settings,   \* the settings of each native factory
  config,     \* the settings each native cache was opened with
  closed,     \* history: caches the program has closed with cache.close()
  asked,      \* history: the settings the program asked of each factory
  askedFor    \* history: those it had asked for when the cache was opened

settingVars == <<settings, asked>>
configVars == <<config, askedFor>>
vars == <<factories, wrapped, jsHeld, deleted, singleton, open, regions, closed,
          settingVars, configVars>>

Init ==
  /\ factories = {}
  /\ wrapped = [w \in Wrappers |-> NoCache]
  /\ jsHeld = {} /\ deleted = {}
  /\ singleton = NoWrapper /\ open = NoCache /\ regions = {}
  /\ settings = [f \in Factories |-> Unset] /\ asked = settings
  /\ config = [c \in Caches |-> Unset] /\ askedFor = config
  /\ closed = {}

Used == {wrapped[w] : w \in Wrappers}

\* The native create(): the open cache, or a new one with the settings given.
OpenCache(given, requested) ==
  IF open # NoCache
  THEN UNCHANGED <<open, configVars>>
  ELSE /\ open' \in Caches \ Used
       /\ config' = [config EXCEPT ![open'] = given]
       /\ askedFor' = [askedFor EXCEPT ![open'] = requested]

\* The native cache and a new Cache object around it.
NewInstance(w, given, requested) ==
  /\ wrapped[w] = NoCache
  /\ OpenCache(given, requested)
  /\ wrapped' = [wrapped EXCEPT ![w] = open']

\* Slips a programmer could have made in Create; no action uses them.  The
\* callback keeps the first object it was given; it is not called; it is given
\* the native cache.
SlipFirstStays(w, given, requested) ==
  /\ NewInstance(w, given, requested)
  /\ singleton' = IF singleton = NoWrapper THEN w ELSE singleton
SlipNoCallback(w, given, requested) ==
  NewInstance(w, given, requested) /\ UNCHANGED singleton
SlipNativeResult(w, given, requested) ==
  NewInstance(w, given, requested) /\ singleton' = open'

\* CacheFactory::Create, which calls the callback that binding.js gave the
\* factory.
NativeCreate(w, given, requested) ==
  NewInstance(w, given, requested) /\ singleton' = w

\* gemfire.createCacheFactory() throws once the singleton is set.
CreateCacheFactory(f) ==
  /\ singleton = NoWrapper
  /\ f \notin factories
  /\ factories' = factories \cup {f}
  /\ UNCHANGED <<wrapped, jsHeld, deleted, singleton, open, regions, closed,
                 settingVars, configVars>>

\* cacheFactory.set(), setServerGroup(), setFreeConnectionTimeout() ..., also
\* after create().
Set(f, s, args) ==
  /\ f \in factories
  /\ ~Rejected(args)
  /\ settings' = [settings EXCEPT ![f][s] = ValueSet(s, args)]
  /\ asked' = [asked EXCEPT ![f][s] = ValueAsked(s, args)]
  /\ UNCHANGED <<factories, wrapped, jsHeld, deleted, singleton, open, regions,
                 closed, configVars>>

\* gemfire.configure(): a factory of its own with the property
\* "cache-xml-file", whose Cache object it does not return.
Configure(w, path) ==
  /\ singleton = NoWrapper
  /\ LET s == [Unset EXCEPT !["direct"] = path] IN NativeCreate(w, s, s)
  /\ UNCHANGED <<factories, jsHeld, deleted, regions, closed, settingVars>>

\* cacheFactory.create(), as often as the program likes.
Create(f, w) ==
  /\ f \in factories
  /\ NativeCreate(w, settings[f], asked[f])
  /\ jsHeld' = jsHeld \cup {w}
  /\ UNCHANGED <<factories, deleted, regions, closed, settingVars>>

\* gemfire.getCache() throws until the singleton is set.
GetCache ==
  /\ singleton # NoWrapper
  /\ jsHeld' = jsHeld \cup {singleton}
  /\ UNCHANGED <<factories, wrapped, deleted, singleton, open, regions,
                 closed, settingVars, configVars>>

\* Cache::close: the native cache of the object, if it is open.
CloseNative(w) == open' = IF open = wrapped[w] THEN NoCache ELSE open

\* cache.close().
Close(w) ==
  /\ w \in jsHeld
  /\ CloseNative(w)
  /\ closed' = closed \cup {wrapped[w]}
  /\ UNCHANGED <<factories, wrapped, jsHeld, deleted, singleton, regions,
                 settingVars, configVars>>

\* The program drops its last reference to the object.
Drop(w) ==
  /\ w \in jsHeld
  /\ jsHeld' = jsHeld \ {w}
  /\ UNCHANGED <<factories, wrapped, deleted, singleton, open, regions,
                 closed, settingVars, configVars>>

\* A slip: the variable cacheSingleton does not keep its object.
SlipCollectSingleton(w) ==
  /\ wrapped[w] # NoCache
  /\ w \notin jsHeld \cup deleted
  /\ deleted' = deleted \cup {w}
  /\ CloseNative(w)
  /\ UNCHANGED <<factories, wrapped, jsHeld, singleton, regions, closed,
                 settingVars, configVars>>

\* The garbage collector deletes an object that nothing refers to: ~Cache.
Collect(w) ==
  /\ wrapped[w] # NoCache
  /\ w \notin jsHeld \cup deleted \cup {singleton}
  /\ deleted' = deleted \cup {w}
  /\ CloseNative(w)
  /\ UNCHANGED <<factories, wrapped, jsHeld, singleton, regions, closed,
                 settingVars, configVars>>

\* cache.createRegion() throws on a closed cache.
CreateRegion(w) ==
  /\ w \in jsHeld
  /\ open = wrapped[w]
  /\ regions' = regions \cup {open}
  /\ UNCHANGED <<factories, wrapped, jsHeld, deleted, singleton, open,
                 closed, settingVars, configVars>>

Next ==
  \/ \E f \in Factories :
       \/ CreateCacheFactory(f)
       \/ \E w \in Wrappers : Create(f, w)
       \/ \E s \in Settings, args \in ArgumentLists : Set(f, s, args)
  \/ \E w \in Wrappers :
       \/ Close(w) \/ Drop(w) \/ Collect(w) \/ CreateRegion(w)
       \/ \E path \in Values : Configure(w, path)
  \/ GetCache

Spec == Init /\ [][Next]_vars

-----------------------------------------------------------------------------
(* Properties.                                                             *)

TypeOK ==
  /\ factories \subseteq Factories
  /\ wrapped \in [Wrappers -> Caches \cup {NoCache}]
  /\ jsHeld \subseteq Wrappers /\ deleted \subseteq Wrappers
  /\ singleton \in Wrappers \cup {NoWrapper}
  /\ open \in Caches \cup {NoCache}
  /\ regions \subseteq Caches /\ closed \subseteq Caches
  /\ LET Configs == [AllSettings -> Values \cup {NoValue, Default}]
     IN /\ settings \in [Factories -> Configs] /\ asked \in [Factories -> Configs]
        /\ config \in [Caches -> Configs] /\ askedFor \in [Caches -> Configs]

\* However factories, closes and collections follow each other, an open
\* native cache is the one that getCache() gives access to: it can always be
\* closed by the program.
SingletonWrapsOpenCache ==
  open # NoCache => singleton # NoWrapper /\ wrapped[singleton] = open

\* A cache that create() has returned once stays open until the program closes
\* it, even when the program drops every reference it has: the singleton keeps
\* the only Cache object, whose destructor would close it, from the collector.
OpenUntilClosedIfWrappedOnce ==
  \A w \in Wrappers :
    /\ wrapped[w] # NoCache
    /\ \A v \in Wrappers \ {w} : wrapped[v] # wrapped[w]
    => wrapped[w] \in closed \/ open = wrapped[w]

\* doc/cache.md, createRegion(): the region remains in the client for the
\* lifetime of the process, here as long as the program does not close it.
RegionRemains == \A c \in regions \ closed : open = c

\* doc/cache_factory.md: setFreeConnectionTimeout(connectionTimeout) sets the
\* free connection timeout, and its like the rest of the pool's attributes.
SettingsTakeEffect == \A c \in Caches : config[c] = askedFor[c]

-----------------------------------------------------------------------------
(* The inductive invariant.                                                *)

\* The Cache objects the program has, or can get with getCache(), were made by
\* create(), and the collector has deleted none of them.
HeldAreLive ==
  /\ \A w \in Wrappers : w \in jsHeld \/ w = singleton =>
       wrapped[w] # NoCache /\ w \notin deleted
  /\ \A w \in deleted : wrapped[w] # NoCache

\* The inductive invariant of CacheLifecycleProofs.
Inv ==
  /\ TypeOK /\ HeldAreLive /\ SingletonWrapsOpenCache
  /\ OpenUntilClosedIfWrappedOnce
===============================================================================
