-------------------------- MODULE MethodFetchProofs --------------------------
(***************************************************************************)
(* The method store, its query cache and the activation counts of the      *)
(* providers, for any number of threads, providers, methods and queries.   *)
(***************************************************************************)
EXTENDS MethodFetch, FiniteSetTheorems, TLAPS

Found == [prov : Providers, method : Methods]
Labels == {"idle", "copy", "pin", "map", "construct", "post", "up", "deactivate", "fetch", "set",
           "held"}
Cached == [query : Queries, prov : Providers, method : Methods]

\* Types.
ProviderTypes ==
  /\ activatecnt \in [Providers -> Int]
  /\ flag_activated \in [Providers -> BOOLEAN]
  /\ operation_bits \in SUBSET Providers
  /\ spoiled \in SUBSET Providers

StoreTypes ==
  /\ impls \in Seq(Found)
  /\ cache \in SUBSET Cached
  /\ IsFiniteSet(cache)
  /\ ref \in [Methods -> Int]

ThreadTypes ==
  /\ pc \in [Fetchers -> Labels]
  /\ query \in [Fetchers -> Queries \cup {None}]
  /\ method \in [Fetchers -> Found \cup {None}]
  /\ todo \in [Fetchers -> SUBSET Providers]
  /\ pinned \in [Fetchers -> SUBSET Providers]
  /\ last \in [Fetchers -> Providers \cup {None}]
  /\ loader \in [Loaders -> {"idle", "flush", "loaded", "clear", "remove"}]
  /\ loading \in [Loaders -> Providers \cup {None}]

\* What the place of a thread says of its variables: a query is known, and a
\* method held, exactly between the lookups and the release; providers are
\* pinned only during the walk; the one taken to zero is remembered until it is
\* deactivated.
FetchersAt ==
  \A t \in Fetchers :
    /\ pc[t] # "idle" => query[t] \in Queries
    /\ method[t] # None <=> pc[t] \in {"set", "held"}
    /\ pc[t] # "pin" => todo[t] \subseteq pinned[t]
    /\ pc[t] = "pin" => \A p \in todo[t] : p \notin pinned[t]
    /\ pc[t] \in {"idle", "copy", "fetch", "set", "held"} => pinned[t] = {}
    /\ pc[t] \in {"up", "deactivate"} => last[t] \in Providers

\* Only the thread that reserved the store constructs, for a provider it keeps
\* pinned.
Reserved ==
  \A t \in Fetchers : pc[t] \in {"construct", "post"} =>
    /\ biglock \in [thread : {t}, prov : Providers]
    /\ biglock.prov \in pinned[t]

LoadersAt == \A u \in Loaders : loader[u] # "idle" => loading[u] \in Providers

\* A provider has one method in the store, and a query one entry for each
\* provider in the cache.
StoreKeyed ==
  \A j, k \in DOMAIN impls : impls[j].prov = impls[k].prov => j = k

CacheKeyed ==
  \A a, b \in cache : a.query = b.query /\ a.prov = b.prov => a = b

\* A provider that is active is not in the middle of an unload, its bits are
\* cleared before its methods are removed, and the bit about to be set is true,
\* unless the provider was spoiled.
UnloadsDone ==
  /\ \A p \in Providers \ spoiled, u \in Loaders :
       loading[u] = p /\ loader[u] \in {"clear", "remove"} =>
         /\ ~flag_activated[p]
         /\ loader[u] = "remove" => p \notin operation_bits
  /\ \A t \in Fetchers : pc[t] = "post" /\ biglock.prov \notin spoiled =>
       Stored(biglock.prov)

Types == ProviderTypes /\ StoreTypes /\ ThreadTypes
Places == FetchersAt /\ Reserved /\ LoadersAt

\* The inductive invariant.
FInv ==
  /\ Types /\ Places /\ StoreKeyed /\ CacheKeyed /\ UnloadsDone
  /\ MethodRefsExact /\ CacheCounted /\ InUseStaysActive /\ ConstructedMeansStored

-----------------------------------------------------------------------------
(* Types and places *)

\* What is stored is a method of a provider, and no NULL.
LEMMA ImplFound ==
  ASSUME StoreTypes, NEW k \in DOMAIN impls
  PROVE  /\ impls[k] \in Found /\ impls[k] # None
         /\ impls[k].prov \in Providers /\ impls[k].method \in Methods
<1>1. impls[k] \in Found
  BY DEF StoreTypes
<1> QED
  BY <1>1, MethodFetchAssumption DEF Found

\* ossl_method_store_fetch finds nothing, or the implementation at some place.
LEMMA Fetched ==
  ASSUME Types, NEW t \in Fetchers, StoreFetch(t)
  PROVE  \/ /\ query' = [query EXCEPT ![t] = None]
            /\ Goto(t, "idle") /\ UNCHANGED <<method, ref>>
         \/ /\ \E k \in DOMAIN impls :
                 /\ method' = [method EXCEPT ![t] = impls[k]]
                 /\ ref' = [ref EXCEPT ![impls[k].method] = @ + 1]
            /\ Goto(t, "set") /\ UNCHANGED query
BY Zenon DEF StoreFetch

\* The steps of a fetching thread keep types and places.
LEMMA FetcherTypes ==
  ASSUME Types, Places, NEW t \in Fetchers,
         CacheGet(t) \/ CopyProviders(t) \/ Pin(t) \/ GoThrough(t) \/ Reserve(t) \/ Unreserve(t)
           \/ Unpin(t) \/ UpAgain(t) \/ FullyDeactivate(t) \/ StoreFetch(t) \/ Release(t)
  PROVE  Types' /\ Places'
<1> USE MethodFetchAssumption DEF Types, ProviderTypes, StoreTypes, ThreadTypes, Goto,
        provs, store, walk, loads
<1>1. CASE CacheGet(t)
  <2>1. PICK q \in Queries :
          /\ query' = [query EXCEPT ![t] = q]
          /\ \/ /\ \E e \in cache :
                      /\ method' = [method EXCEPT ![t] = [prov |-> e.prov, method |-> e.method]]
                      /\ ref' = [ref EXCEPT ![e.method] = @ + 1]
                /\ Goto(t, "held")
             \/ Goto(t, "copy") /\ UNCHANGED <<method, ref>>
    BY <1>1 DEF CacheGet
  <2>2. /\ UNCHANGED <<provs, operation_bits, impls, cache, biglock, walk, loads, spoiled>>
        /\ pc[t] = "idle"
    BY <1>1 DEF CacheGet
  <2>3. CASE Goto(t, "copy") /\ UNCHANGED <<method, ref>>
    BY <2>1, <2>2, <2>3 DEF Labels, Places, FetchersAt, Reserved, LoadersAt
  <2>4. ASSUME NEW e \in cache,
               method' = [method EXCEPT ![t] = [prov |-> e.prov, method |-> e.method]],
               ref' = [ref EXCEPT ![e.method] = @ + 1],
               Goto(t, "held")
        PROVE  Types' /\ Places'
    <3> DEFINE f == [prov |-> e.prov, method |-> e.method]
    <3>1. f \in Found /\ f # None /\ e.method \in Methods
      BY DEF Cached, Found
    <3> HIDE DEF f
    <3>2. method' = [method EXCEPT ![t] = f]
      BY <2>4 DEF f
    <3>3. Types'
      BY <2>1, <2>2, <2>4, <3>1, <3>2 DEF Labels
    <3>4. Places'
      BY <2>1, <2>2, <2>4, <3>1, <3>2 DEF Places, FetchersAt, Reserved, LoadersAt
    <3> QED
      BY <3>3, <3>4
  <2> QED
    BY <2>1, <2>3, <2>4
<1>2. CASE Pin(t)
  <2>1. PICK p \in todo[t] :
          /\ todo' = [todo EXCEPT ![t] = @ \ {p}]
          /\ \/ /\ activatecnt' = [activatecnt EXCEPT ![p] = activatecnt[p] + 1]
                /\ pinned' = [pinned EXCEPT ![t] = @ \cup {p}]
             \/ UNCHANGED <<activatecnt, pinned>>
    BY <1>2 DEF Pin, PinnedCount
  <2>2. /\ pc[t] = "pin" /\ p \in Providers
        /\ UNCHANGED <<flag_activated, operation_bits, impls, cache, ref, biglock, pc, query,
                       method, last, loader, loading, spoiled>>
    BY <1>2, <2>1 DEF Pin
  <2>3. Types'
    <3>1. todo' \in [Fetchers -> SUBSET Providers]
      BY <2>1
    <3>2. pinned' \in [Fetchers -> SUBSET Providers]
      <4>1. pinned[t] \cup {p} \in SUBSET Providers
        BY <2>2
      <4>2. pinned' = [pinned EXCEPT ![t] = pinned[t] \cup {p}] \/ pinned' = pinned
        BY <2>1
      <4> QED
        BY <4>1, <4>2
    <3>3. activatecnt' \in [Providers -> Int]
      BY <2>1, <2>2
    <3> QED
      BY <2>2, <3>1, <3>2, <3>3
  <2>4. FetchersAt'
    BY <2>1, <2>2 DEF Places, FetchersAt
  <2>5. Reserved' /\ LoadersAt'
    BY <2>1, <2>2 DEF Places, Reserved, LoadersAt
  <2> QED
    BY <2>3, <2>4, <2>5 DEF Places
<1>10. CASE CopyProviders(t) \/ GoThrough(t)
  <2>1. /\ UNCHANGED <<activatecnt, flag_activated, operation_bits, impls, cache, ref, biglock,
                       query, method, pinned, last, loader, loading, spoiled>>
        /\ \/ /\ pc[t] = "copy" /\ pc' = [pc EXCEPT ![t] = "pin"]
              /\ todo' = [todo EXCEPT ![t] = Providers]
           \/ pc[t] = "copy" /\ pc' = [pc EXCEPT ![t] = "map"] /\ UNCHANGED todo
           \/ /\ pc[t] = "pin" /\ pc' = [pc EXCEPT ![t] = "map"]
              /\ todo' = [todo EXCEPT ![t] = pinned[t]]
    BY <1>10 DEF CopyProviders, GoThrough
  <2>2. Types'
    <3>1. todo' \in [Fetchers -> SUBSET Providers]
      BY <2>1
    <3>2. pc' \in [Fetchers -> Labels]
      BY <2>1 DEF Labels
    <3> QED
      BY <2>1, <3>1, <3>2
  <2>3. FetchersAt'
    BY <2>1 DEF Places, FetchersAt
  <2>4. Reserved' /\ LoadersAt'
    BY <2>1 DEF Places, Reserved, LoadersAt
  <2> QED
    BY <2>2, <2>3, <2>4 DEF Places
<1>3. CASE Reserve(t)
  <2>1. Types'
    BY <1>3 DEF Reserve, Labels
  <2>2. Places'
    <3>1. FetchersAt'
      BY <1>3 DEF Reserve, Places, FetchersAt
    <3>2. Reserved'
      BY <1>3 DEF Reserve, Places, FetchersAt, Reserved
    <3>3. LoadersAt'
      BY <1>3 DEF Reserve, Places, LoadersAt
    <3> QED
      BY <3>1, <3>2, <3>3 DEF Places
  <2> QED
    BY <2>1, <2>2
<1>4. CASE Unreserve(t)
  <2>1. Types'
    BY <1>4 DEF Unreserve, Labels, Places, Reserved
  <2>2. Places'
    BY <1>4 DEF Unreserve, Places, FetchersAt, Reserved, LoadersAt
  <2> QED
    BY <2>1, <2>2
<1>5. CASE Unpin(t)
  <2>1. /\ activatecnt' \in [Providers -> Int] /\ pinned' \in [Fetchers -> SUBSET Providers]
        /\ last' \in [Fetchers -> Providers \cup {None}] /\ pc' \in [Fetchers -> Labels]
    <3>1. ASSUME NEW p \in pinned[t],
                 activatecnt' = [activatecnt EXCEPT ![p] = @ - 1],
                 pinned' = [pinned EXCEPT ![t] = @ \ {p}],
                 \/ last' = [last EXCEPT ![t] = p] /\ Goto(t, "up")
                 \/ UNCHANGED <<pc, last>>
          PROVE  <2>1
      <4>1. p \in Providers
        OBVIOUS
      <4>2. activatecnt' \in [Providers -> Int]
        BY <3>1, <4>1
      <4>3. pinned' \in [Fetchers -> SUBSET Providers]
        BY <3>1
      <4>4. last' \in [Fetchers -> Providers \cup {None}]
        BY <3>1, <4>1
      <4>5. pc' \in [Fetchers -> Labels]
        BY <3>1 DEF Labels
      <4> QED
        BY <4>2, <4>3, <4>4, <4>5
    <3>2. CASE pc' = [pc EXCEPT ![t] = "fetch"] /\ UNCHANGED <<activatecnt, pinned, last>>
      BY <3>2 DEF Labels
    <3> QED
      BY <1>5, <3>1, <3>2 DEF Unpin
  <2>3. Types'
    BY <1>5, <2>1 DEF Unpin
  <2>2. Places'
    <3>1. FetchersAt'
      BY <1>5 DEF Unpin, Places, FetchersAt
    <3>2. Reserved'
      BY <1>5 DEF Unpin, Places, FetchersAt, Reserved
    <3>3. LoadersAt'
      BY <1>5 DEF Unpin, Places, LoadersAt
    <3> QED
      BY <3>1, <3>2, <3>3 DEF Places
  <2> QED
    BY <2>2, <2>3
<1>6. CASE UpAgain(t)
  <2>1. Types'
    BY <1>6 DEF UpAgain, Labels, Places, FetchersAt
  <2>2. Places'
    BY <1>6 DEF UpAgain, Places, FetchersAt, Reserved, LoadersAt
  <2> QED
    BY <2>1, <2>2
<1>7. CASE FullyDeactivate(t)
  <2>1. Types'
    BY <1>7 DEF FullyDeactivate, Deactivated, Labels, Places, FetchersAt
  <2>2. Places'
    BY <1>7 DEF FullyDeactivate, Deactivated, Places, FetchersAt, Reserved, LoadersAt
  <2> QED
    BY <2>1, <2>2
<1>8. CASE StoreFetch(t)
  <2>1. UNCHANGED <<provs, operation_bits, impls, cache, biglock, walk, loads, spoiled>>
    BY <1>8, Zenon DEF StoreFetch
  <2>2. pc[t] = "fetch"
    BY <1>8, Zenon DEF StoreFetch
  <2>3. CASE /\ query' = [query EXCEPT ![t] = None]
             /\ Goto(t, "idle") /\ UNCHANGED <<method, ref>>
    BY <2>1, <2>2, <2>3 DEF Labels, Places, FetchersAt, Reserved, LoadersAt
  <2>4. CASE /\ \E k \in DOMAIN impls :
                  /\ method' = [method EXCEPT ![t] = impls[k]]
                  /\ ref' = [ref EXCEPT ![impls[k].method] = @ + 1]
             /\ Goto(t, "set") /\ UNCHANGED query
    <3>1. PICK k \in DOMAIN impls :
                  /\ method' = [method EXCEPT ![t] = impls[k]]
                  /\ ref' = [ref EXCEPT ![impls[k].method] = @ + 1]
      BY <2>4
    <3>2. impls[k] \in Found /\ impls[k] # None /\ impls[k].method \in Methods
      BY ImplFound
    <3>3. Types'
      BY <2>1, <2>4, <3>1, <3>2 DEF Labels
    <3>4. Places'
      BY <2>1, <2>2, <2>4, <3>1, <3>2 DEF Places, FetchersAt, Reserved, LoadersAt
    <3> QED
      BY <3>3, <3>4
  <2> QED
    BY <1>8, <2>3, <2>4, Fetched, ZenonT(60)
<1>9. CASE Release(t)
  <2>1. Types'
    BY <1>9 DEF Release, Labels, Found, Places, FetchersAt
  <2>2. Places'
    BY <1>9 DEF Release, Places, FetchersAt, Reserved, LoadersAt
  <2> QED
    BY <2>1, <2>2
<1> QED
  BY <1>1, <1>2, <1>3, <1>4, <1>5, <1>6, <1>7, <1>8, <1>9, <1>10

-----------------------------------------------------------------------------
(* References and cached queries *)

\* Who holds references to m: places in the store, cached queries, threads.
InStore(m) == {k \in DOMAIN impls : impls[k].method = m}
Of(S, m) == {h \in S : h.method = m}
InCache(m) == Of(cache, m)
Held(m) == {t \in Fetchers : method[t] # None /\ method[t].method = m}

Holding == method \in [Fetchers -> Found \cup {None}]

\* The part of the invariant that is about the store and who holds its methods.
StoreInv ==
  StoreTypes /\ Holding /\ StoreKeyed /\ CacheKeyed /\ MethodRefsExact /\ CacheCounted

\* A part of a finite set has a number of elements.
LEMMA PartCounted ==
  ASSUME NEW S, IsFiniteSet(S), NEW T \in SUBSET S
  PROVE  IsFiniteSet(T) /\ Cardinality(T) \in Nat
BY FS_Subset, FS_CardinalityType

\* The reference count of m in terms of its holders.
LEMMA Counts ==
  ASSUME StoreInv, NEW m \in Methods
  PROVE  /\ IsFiniteSet(InStore(m)) /\ Cardinality(InStore(m)) \in Nat
         /\ IsFiniteSet(InCache(m)) /\ Cardinality(InCache(m)) \in Nat
         /\ IsFiniteSet(Held(m)) /\ Cardinality(Held(m)) \in Nat
         /\ ref[m] = Cardinality(InStore(m)) + Cardinality(InCache(m)) + Cardinality(Held(m))
<1>1. IsFiniteSet(DOMAIN impls)
  BY FS_Interval DEF StoreInv, StoreTypes
<1>2. InStore(m) \in SUBSET (DOMAIN impls) /\ InCache(m) \in SUBSET cache
      /\ Held(m) \in SUBSET Fetchers
  BY DEF InStore, InCache, Of, Held
<1>3. IsFiniteSet(cache) /\ IsFiniteSet(Fetchers)
  BY MethodFetchAssumption DEF StoreInv, StoreTypes
<1>4. ref[m] = Cardinality(InStore(m)) + Cardinality(InCache(m)) + Cardinality(Held(m))
  BY DEF StoreInv, MethodRefsExact, InStore, InCache, Of, Held
<1> QED
  BY <1>1, <1>2, <1>3, <1>4, PartCounted

\* A method without references has no holder.
LEMMA Unreferenced ==
  ASSUME StoreInv, NEW m \in Methods, ref[m] = 0
  PROVE  InStore(m) = {} /\ InCache(m) = {} /\ Held(m) = {}
<1>1. /\ Cardinality(InStore(m)) = 0 /\ Cardinality(InCache(m)) = 0
      /\ Cardinality(Held(m)) = 0
  BY Counts
<1> QED
  BY <1>1, Counts, FS_EmptySet

\* Dropping the references of a part of the cache.
LEMMA DroppedPart ==
  ASSUME NEW r \in [Methods -> Int], NEW H, IsFiniteSet(H)
  PROVE  /\ Dropped(r, H) \in [Methods -> Int]
         /\ \A m \in Methods : Dropped(r, H)[m] = r[m] - Cardinality(Of(H, m))
<1>1. ASSUME NEW m \in Methods PROVE Cardinality(Of(H, m)) \in Nat
  BY PartCounted DEF Of
<1> QED
  BY <1>1 DEF Dropped, Of

\* What the store holds when its cache was flushed.
LEMMA FlushStep ==
  ASSUME StoreInv, FlushCache, ref' = Dropped(ref, cache), UNCHANGED <<impls, method>>
  PROVE  StoreInv'
<1>1. /\ ref' \in [Methods -> Int]
      /\ \A m \in Methods : ref'[m] = ref[m] - Cardinality(InCache(m))
  BY DroppedPart DEF StoreInv, StoreTypes, InCache
<1>2. cache' = {} /\ cache_nelem' = 0
  BY FS_CardinalityType DEF FlushCache, NelemAfterFlush, StoreInv, StoreTypes, CacheCounted
<1>3. StoreTypes' /\ Holding' /\ StoreKeyed' /\ CacheKeyed' /\ CacheCounted'
  BY <1>1, <1>2, FS_EmptySet
  DEF StoreInv, StoreTypes, Holding, StoreKeyed, CacheKeyed, CacheCounted
<1>4. ASSUME NEW m \in Methods
      PROVE  ref'[m] = Cardinality(InStore(m)') + Cardinality(InCache(m)') + Cardinality(Held(m)')
  <2>1. InStore(m)' = InStore(m) /\ InCache(m)' = {} /\ Held(m)' = Held(m)
    BY <1>2 DEF InStore, InCache, Of, Held
  <2> QED
    BY <1>1, <2>1, Counts, FS_EmptySet
<1>5. MethodRefsExact'
  BY <1>4 DEF MethodRefsExact, InStore, InCache, Of, Held
<1> QED
  BY <1>3, <1>5 DEF StoreInv

\* ossl_method_store_add of a method nobody refers to yet.
LEMMA StoreAddStep ==
  ASSUME StoreInv, NEW p \in Providers, NEW m \in Methods, ref[m] = 0,
         StoreAdd(p, m), UNCHANGED method
  PROVE  StoreInv' /\ Stored(p)' /\ (\A q \in Providers : Stored(q) => Stored(q)')
<1> DEFINE new == [prov |-> p, method |-> m]
           D == Dropped(ref, cache)
<1>1. /\ D \in [Methods -> Int]
      /\ \A x \in Methods : D[x] = ref[x] - Cardinality(InCache(x))
  BY DroppedPart DEF StoreInv, StoreTypes, InCache
<1>2. cache' = {} /\ cache_nelem' = 0
  BY FS_CardinalityType
  DEF StoreAdd, FlushCache, NelemAfterFlush, StoreInv, StoreTypes, CacheCounted
<1>3. ref' = [D EXCEPT ![m] = IF Stored(p) THEN 0 ELSE 1]
  BY DEF StoreAdd
<1>4. ref' \in [Methods -> Int]
  BY <1>1, <1>3
<1>5. Holding' /\ CacheKeyed' /\ CacheCounted' /\ IsFiniteSet(cache') /\ cache' \in SUBSET Cached
  BY <1>2, FS_EmptySet DEF StoreInv, Holding, CacheKeyed, CacheCounted
<1>6. InStore(m) = {} /\ InCache(m) = {} /\ Held(m) = {}
  BY Unreferenced
<1>7. \A x \in Methods : InCache(x)' = {} /\ Held(x)' = Held(x)
  BY <1>2 DEF InCache, Of, Held
<1>8. impls \in Seq(Found) /\ new \in Found /\ StoreKeyed
  BY DEF StoreInv, StoreTypes, Found
<1>9. CASE Stored(p)
  <2>1. impls' = impls
    BY <1>9 DEF StoreAdd
  <2>2. \A q : Stored(q) => Stored(q)'
    BY <2>1 DEF Stored
  <2>3. StoreTypes' /\ StoreKeyed'
    BY <1>4, <1>5, <1>8, <2>1 DEF StoreTypes, StoreKeyed
  <2>4. ASSUME NEW x \in Methods
        PROVE  ref'[x] = Cardinality(InStore(x)') + Cardinality(InCache(x)') + Cardinality(Held(x)')
    <3>1. InStore(x)' = InStore(x)
      BY <2>1 DEF InStore
    <3>2. x # m => ref'[x] = ref[x] - Cardinality(InCache(x))
      BY <1>1, <1>3
    <3>3. x = m => ref'[x] = 0
      BY <1>1, <1>3, <1>9
    <3>4. Cardinality(InCache(x)') = 0 /\ Held(x)' = Held(x)
      BY <1>7, FS_EmptySet
    <3>5. CASE x = m
      <4>1. Cardinality(InStore(x)) = 0 /\ Cardinality(Held(x)) = 0
        BY <1>6, <3>5, FS_EmptySet
      <4> QED
        BY <3>1, <3>3, <3>4, <3>5, <4>1
    <3>6. CASE x # m
      BY <3>1, <3>2, <3>4, <3>6, Counts
    <3> QED
      BY <3>5, <3>6
  <2>5. MethodRefsExact'
    BY <2>4 DEF MethodRefsExact, InStore, InCache, Of, Held
  <2> QED
    BY <1>5, <1>9, <2>2, <2>3, <2>5 DEF StoreInv
<1>10. CASE ~Stored(p)
  <2>1. impls' = Append(impls, new)
    BY <1>10 DEF StoreAdd
  <2> DEFINE n == Len(impls)
  <2>2. /\ n \in Nat /\ DOMAIN impls = 1 .. n /\ DOMAIN impls' = 1 .. n + 1
        /\ impls' \in Seq(Found) /\ impls'[n + 1] = new
        /\ \A k \in 1 .. n : impls'[k] = impls[k]
    BY <1>8, <2>1
  <2> HIDE DEF n
  <2>3. new.prov = p /\ new.method = m
    OBVIOUS
  <2> HIDE DEF new
  <2>4. \A k \in 1 .. n : impls[k].prov # p
    BY <1>10, <2>2 DEF Stored
  <2>5. Stored(p)'
    BY <2>2, <2>3 DEF Stored
  <2>6. ASSUME NEW q \in Providers, Stored(q) PROVE Stored(q)'
    BY <2>2, <2>6 DEF Stored
  <2>7. StoreTypes'
    BY <1>4, <1>5, <2>2 DEF StoreTypes
  <2>8. StoreKeyed'
    BY <1>8, <2>2, <2>3, <2>4 DEF StoreKeyed
  <2>9. ASSUME NEW x \in Methods
        PROVE  ref'[x] = Cardinality(InStore(x)') + Cardinality(InCache(x)') + Cardinality(Held(x)')
    <3>1. CASE x = m
      <4>1. InStore(x)' = {n + 1}
        BY <1>6, <2>2, <2>3, <3>1 DEF InStore
      <4>2. ref'[x] = 1
        BY <1>1, <1>3, <1>10, <3>1
      <4>3. Cardinality(InCache(x)') = 0 /\ Cardinality(Held(x)') = 0
        BY <1>6, <1>7, <3>1, FS_EmptySet
      <4>4. Cardinality(InStore(x)') = 1
        BY <4>1, FS_Singleton
      <4> QED
        BY <4>2, <4>3, <4>4
    <3>2. CASE x # m
      <4>1. InStore(x)' = InStore(x)
        BY <2>2, <2>3, <3>2 DEF InStore
      <4>2. ref'[x] = ref[x] - Cardinality(InCache(x))
        BY <1>1, <1>3, <3>2
      <4>3. Cardinality(InCache(x)') = 0 /\ Held(x)' = Held(x)
        BY <1>7, FS_EmptySet
      <4> QED
        BY <4>1, <4>2, <4>3, Counts
    <3> QED
      BY <3>1, <3>2
  <2>10. MethodRefsExact'
    BY <2>9 DEF MethodRefsExact, InStore, InCache, Of, Held
  <2> QED
    BY <1>5, <2>5, <2>6, <2>7, <2>8, <2>10 DEF StoreInv
<1> QED
  BY <1>9, <1>10

\* A set of places loses one when the list is shortened there.
LEMMA Shifted ==
  ASSUME NEW n \in Nat, NEW k \in 1 .. n, NEW S \in SUBSET (1 .. n), NEW T \in SUBSET (1 .. n - 1),
         \A j \in 1 .. n - 1 : j \in T <=> (IF j < k THEN j ELSE j + 1) \in S
  PROVE  Cardinality(T) = Cardinality(S) - (IF k \in S THEN 1 ELSE 0)
<1>1. IsFiniteSet(S) /\ IsFiniteSet(T) /\ Cardinality(S) \in Nat
  <2>1. IsFiniteSet(1 .. n) /\ S \in SUBSET (1 .. n) /\ T \in SUBSET (1 .. n)
    BY FS_Interval
  <2> QED
    BY <2>1, PartCounted
<1> DEFINE f == [j \in T |-> IF j < k THEN j ELSE j + 1]
<1>2. f \in [T -> S \ {k}]
  OBVIOUS
<1>3. \A i, j \in T : f[i] = f[j] => i = j
  OBVIOUS
<1>4. ASSUME NEW i \in S \ {k} PROVE \E j \in T : f[j] = i
  <2>1. CASE i < k
    <3>1. i \in 1 .. n - 1 /\ i \in T
      BY <2>1
    <3> QED
      BY <2>1, <3>1
  <2>2. CASE i > k
    <3>1. i - 1 \in 1 .. n - 1 /\ ~(i - 1 < k) /\ (i - 1) + 1 = i
      BY <2>2
    <3>2. i - 1 \in T
      BY <3>1
    <3> QED
      BY <3>1, <3>2
  <2> QED
    BY <2>1, <2>2
<1> HIDE DEF f
<1>5. f \in Bijection(T, S \ {k})
  BY <1>2, <1>3, <1>4 DEF Bijection, Injection, Surjection, IsInjective
<1>6. Cardinality(T) = Cardinality(S \ {k})
  BY <1>1, <1>5, FS_Bijection DEF ExistsBijection
<1>7. Cardinality(S \ {k}) = IF k \in S THEN Cardinality(S) - 1 ELSE Cardinality(S)
  BY <1>1, FS_RemoveElement
<1> QED
  BY <1>1, <1>6, <1>7

\* The list without the place k.
LEMMA Removed ==
  ASSUME NEW X, NEW s \in Seq(X), NEW k \in DOMAIN s
  PROVE  /\ RemoveAt(s, k) \in Seq(X) /\ DOMAIN RemoveAt(s, k) = 1 .. Len(s) - 1
         /\ \A j \in 1 .. Len(s) - 1 : RemoveAt(s, k)[j] = s[IF j < k THEN j ELSE j + 1]
<1>1. k \in 1 .. Len(s) /\ Len(s) \in Nat
  OBVIOUS
<1> DEFINE a == SubSeq(s, 1, k - 1)
           b == SubSeq(s, k + 1, Len(s))
<1>2. a \in Seq(X) /\ Len(a) = k - 1 /\ \A j \in 1 .. k - 1 : a[j] = s[j]
  BY <1>1
<1>3. b \in Seq(X) /\ Len(b) = Len(s) - k /\ \A j \in 1 .. Len(s) - k : b[j] = s[k + j]
  BY <1>1
<1> HIDE DEF a, b
<1>4. a \o b \in Seq(X) /\ Len(a \o b) = Len(s) - 1
  BY <1>1, <1>2, <1>3
<1>5. ASSUME NEW j \in 1 .. Len(s) - 1
      PROVE  (a \o b)[j] = s[IF j < k THEN j ELSE j + 1]
  <2>1. CASE j < k
    BY <1>1, <1>2, <1>3, <2>1
  <2>2. CASE j >= k
    <3>1. (a \o b)[j] = b[j - (k - 1)]
      BY <1>1, <1>2, <1>3, <2>2, SMTT(30)
    <3>2. b[j - (k - 1)] = s[j + 1]
      BY <1>1, <1>3, <2>2
    <3> QED
      BY <1>1, <2>2, <3>1, <3>2
  <2>3. j < k \/ j >= k
    BY <1>1
  <2> QED
    BY <2>1, <2>2, <2>3
<1>6. DOMAIN (a \o b) = 1 .. Len(s) - 1
  BY <1>4
<1>7. RemoveAt(s, k) = a \o b
  BY DEF RemoveAt, a, b
<1> QED
  BY <1>4, <1>5, <1>6, <1>7

\* ossl_method_store_remove_all_provided
LEMMA RemoveStep ==
  ASSUME StoreInv, NEW p \in Providers, RemoveAllProvided(p), UNCHANGED method
  PROVE  StoreInv' /\ (\A q \in Providers \ {p} : Stored(q) => Stored(q)')
<1>1. CASE ~Stored(p)
  <2>1. UNCHANGED <<impls, ref, cache, cache_nelem>>
    BY <1>1 DEF RemoveAllProvided
  <2>2. \A q : Stored(q) => Stored(q)'
    BY <2>1 DEF Stored
  <2>3. StoreInv'
    BY <2>1 DEF StoreInv, StoreTypes, Holding, StoreKeyed, CacheKeyed, CacheCounted, MethodRefsExact
  <2> QED
    BY <2>2, <2>3
<1>2. CASE Stored(p)
  <2> DEFINE k == CHOOSE k \in DOMAIN impls : impls[k].prov = p
  <2>1. k \in DOMAIN impls /\ impls[k].prov = p
    BY <1>2 DEF Stored
  <2>2. /\ impls' = RemoveAt(impls, k) /\ FlushCache
        /\ ref' = Dropped([ref EXCEPT ![impls[k].method] = @ - 1], cache)
    BY <1>2 DEF RemoveAllProvided
  <2> HIDE DEF k
  <2> DEFINE n == Len(impls)
             down == [ref EXCEPT ![impls[k].method] = @ - 1]
             before(j) == IF j < k THEN j ELSE j + 1
  <2>3. impls \in Seq(Found) /\ StoreTypes /\ StoreKeyed
    BY DEF StoreInv, StoreTypes
  <2>4. n \in Nat /\ DOMAIN impls = 1 .. n /\ k \in 1 .. n
    BY <2>1, <2>3
  <2>5. /\ impls' \in Seq(Found) /\ DOMAIN impls' = 1 .. n - 1
        /\ \A j \in 1 .. n - 1 : impls'[j] = impls[before(j)]
    BY <2>1, <2>2, <2>3, Removed
  <2>6. impls[k].method \in Methods
    BY <2>1, <2>3, ImplFound
  <2> HIDE DEF n
  <2>7. down \in [Methods -> Int]
    BY <2>3, <2>6 DEF StoreTypes
  <2>8. /\ ref' \in [Methods -> Int]
        /\ \A m \in Methods : ref'[m] = down[m] - Cardinality(InCache(m))
    BY <2>2, <2>3, <2>7, DroppedPart DEF StoreTypes, InCache
  <2>9. cache' = {} /\ cache_nelem' = 0
    BY <2>2, FS_CardinalityType DEF FlushCache, NelemAfterFlush, StoreInv, StoreTypes, CacheCounted
  <2>10. \A j \in 1 .. n - 1 : before(j) \in 1 .. n /\ before(j) # k
    BY <2>4
  <2>11. \A i, j \in 1 .. n - 1 : before(i) = before(j) => i = j
    BY <2>4
  <2>12. StoreTypes' /\ Holding' /\ CacheKeyed' /\ CacheCounted'
    BY <2>5, <2>8, <2>9, FS_EmptySet
    DEF StoreInv, StoreTypes, Holding, CacheKeyed, CacheCounted
  <2>13. StoreKeyed'
    <3>1. ASSUME NEW i \in 1 .. n - 1, NEW j \in 1 .. n - 1, impls'[i].prov = impls'[j].prov
          PROVE  i = j
      <4>1. impls[before(i)].prov = impls[before(j)].prov
        BY <2>5, <3>1
      <4>2. before(i) \in DOMAIN impls /\ before(j) \in DOMAIN impls
        BY <2>4, <2>10
      <4> HIDE DEF before
      <4>3. before(i) = before(j)
        BY <2>3, <4>1, <4>2 DEF StoreKeyed
      <4> QED
        BY <2>11, <4>3
    <3> QED
      BY <2>5, <3>1 DEF StoreKeyed
  <2>14. ASSUME NEW q \in Providers \ {p}, Stored(q) PROVE Stored(q)'
    <3>1. PICK i \in 1 .. n : impls[i].prov = q
      BY <2>4, <2>14 DEF Stored
    <3>2. i # k
      BY <2>1, <3>1
    <3>3. PICK j \in 1 .. n - 1 : before(j) = i
      <4>1. CASE i < k
        <5>1. i \in 1 .. n - 1 /\ before(i) = i
          BY <2>4, <4>1
        <5> QED
          BY <5>1
      <4>2. CASE i > k
        <5>1. i - 1 \in 1 .. n - 1 /\ before(i - 1) = i
          BY <2>4, <4>2
        <5> QED
          BY <5>1
      <4> QED
        BY <2>4, <3>2, <4>1, <4>2
    <3>4. impls'[j].prov = q
      BY <2>5, <3>1, <3>3
    <3> QED
      BY <2>5, <3>4 DEF Stored
  <2>15. ASSUME NEW m \in Methods
         PROVE  ref'[m] = Cardinality(InStore(m)') + Cardinality(InCache(m)') + Cardinality(Held(m)')
    <3>1. Cardinality(InStore(m)') = Cardinality(InStore(m)) - (IF k \in InStore(m) THEN 1 ELSE 0)
      <4>1. InStore(m) \in SUBSET (1 .. n) /\ InStore(m)' \in SUBSET (1 .. n - 1)
        BY <2>4, <2>5 DEF InStore
      <4>2. \A j \in 1 .. n - 1 : j \in InStore(m)' <=> before(j) \in InStore(m)
        BY <2>4, <2>5, <2>10 DEF InStore
      <4> HIDE DEF InStore
      <4> QED
        BY <2>4, <4>1, <4>2, Shifted
    <3>2. k \in InStore(m) <=> m = impls[k].method
      BY <2>1 DEF InStore
    <3>3. down[m] = ref[m] - (IF k \in InStore(m) THEN 1 ELSE 0)
      BY <2>3, <2>6, <3>2 DEF StoreTypes
    <3>4. InCache(m)' = {} /\ Held(m)' = Held(m)
      BY <2>9 DEF InCache, Of, Held
    <3>5. Cardinality(InCache(m)') = 0
      BY <3>4, FS_EmptySet
    <3> QED
      BY <2>8, <3>1, <3>3, <3>4, <3>5, Counts
  <2>16. MethodRefsExact'
    BY <2>15 DEF MethodRefsExact, InStore, InCache, Of, Held
  <2> QED
    BY <2>12, <2>13, <2>14, <2>16 DEF StoreInv
<1> QED
  BY <1>1, <1>2

\* The holders of m in a set that loses a part.
LEMMA SplitCount ==
  ASSUME NEW S, IsFiniteSet(S), NEW T \in SUBSET S, NEW m
  PROVE  /\ Cardinality(Of(S, m)) \in Nat
         /\ Cardinality(Of(T, m)) \in Nat
         /\ Cardinality(Of(S \ T, m))
              = Cardinality(Of(S, m)) - Cardinality(Of(T, m))
<1> DEFINE s == Of(S, m)
           t == Of(T, m)
<1>1. t \subseteq s /\ s \in SUBSET S /\ t \in SUBSET S /\ Of(S \ T, m) = s \ t
  BY DEF Of
<1>2. IsFiniteSet(s) /\ Cardinality(s) \in Nat /\ Cardinality(t) \in Nat
  BY <1>1, PartCounted
<1>3. s \cap t = t
  BY <1>1
<1>4. Cardinality(s \ t) = Cardinality(s) - Cardinality(s \cap t)
  BY <1>2, FS_Difference
<1> QED
  BY <1>1, <1>2, <1>3, <1>4

\* The part of ossl_method_store_cache_set that a flush leaves.
LEMMA KeptPart ==
  ASSUME StoreInv, NEW kept \in SUBSET cache
  PROVE  /\ IsFiniteSet(kept)
         /\ Dropped(ref, cache \ kept) \in [Methods -> Int]
         /\ \A m \in Methods :
              /\ Cardinality(Of(kept, m)) \in Nat
              /\ Dropped(ref, cache \ kept)[m]
                   = Cardinality(InStore(m)) + Cardinality(Of(kept, m))
                     + Cardinality(Held(m))
<1>1. IsFiniteSet(cache) /\ ref \in [Methods -> Int]
  BY DEF StoreInv, StoreTypes
<1>2. IsFiniteSet(kept) /\ IsFiniteSet(cache \ kept)
  BY <1>1, PartCounted
<1>3. ASSUME NEW m \in Methods
      PROVE  /\ Cardinality(Of(kept, m)) \in Nat
             /\ Dropped(ref, cache \ kept)[m]
                  = Cardinality(InStore(m)) + Cardinality(Of(kept, m))
                    + Cardinality(Held(m))
  <2>1. Dropped(ref, cache \ kept)[m] = ref[m] - Cardinality(Of(cache \ kept, m))
    BY <1>1, <1>2, DroppedPart
  <2>2. /\ Cardinality(Of(kept, m)) \in Nat
        /\ Cardinality(Of(cache \ kept, m))
             = Cardinality(InCache(m)) - Cardinality(Of(kept, m))
    BY <1>1, SplitCount DEF InCache
  <2> QED
    BY <2>1, <2>2, Counts
<1> QED
  BY <1>1, <1>2, <1>3, DroppedPart

\* ossl_method_store_cache_set: an entry that is replaced gives its reference
\* back, one that a flush removes too, and the count follows.
LEMMA CacheSetStep ==
  ASSUME StoreInv, NEW e \in Cached, CacheSet(e), UNCHANGED method
  PROVE  StoreInv' /\ impls' = impls
<1>1. PICK kept \in IF cache_need_flush THEN SUBSET cache ELSE {cache} :
        LET old == {o \in kept : o.query = e.query /\ o.prov = e.prov}
            r   == Dropped(ref, cache \ kept)
            n   == IF cache_need_flush THEN Cardinality(kept) ELSE cache_nelem
        IN  /\ UNCHANGED impls
            /\ \/ cache' = kept /\ ref' = r /\ cache_nelem' = n
               \/ /\ cache' = (kept \ old) \cup {e}
                  /\ ref' = [Dropped(r, Replaced(kept, e)) EXCEPT ![e.method] = @ + 1]
                  /\ cache_nelem' = IF old = {} THEN n + 1 ELSE n
  BY DEF CacheSet
<1> DEFINE old == {o \in kept : o.query = e.query /\ o.prov = e.prov}
           r == Dropped(ref, cache \ kept)
           n == Cardinality(kept)
           rest == kept \ old
<1>2. kept \in SUBSET cache /\ n = IF cache_need_flush THEN Cardinality(kept) ELSE cache_nelem
  BY DEF StoreInv, CacheCounted
<1>3. /\ IsFiniteSet(kept) /\ r \in [Methods -> Int]
      /\ \A m \in Methods :
           /\ Cardinality(Of(kept, m)) \in Nat
           /\ r[m] = Cardinality(InStore(m)) + Cardinality(Of(kept, m))
                     + Cardinality(Held(m))
  BY <1>2, KeptPart
<1> HIDE DEF r
<1>4. /\ impls' = impls
      /\ \/ cache' = kept /\ ref' = r /\ cache_nelem' = n
         \/ /\ cache' = rest \cup {e}
            /\ ref' = [Dropped(r, old) EXCEPT ![e.method] = @ + 1]
            /\ cache_nelem' = IF old = {} THEN n + 1 ELSE n
  BY <1>1, <1>2 DEF Replaced, r
<1>5. /\ impls \in Seq(Found) /\ cache \in SUBSET Cached /\ StoreKeyed /\ Holding
      /\ \A a, b \in cache : a.query = b.query /\ a.prov = b.prov => a = b
  BY DEF StoreInv, StoreTypes, CacheKeyed
<1>6. /\ StoreKeyed' /\ Holding'
      /\ \A m \in Methods : InStore(m)' = InStore(m) /\ Held(m)' = Held(m)
  BY <1>4, <1>5 DEF StoreKeyed, Holding, InStore, Held
<1>7. CASE cache' = kept /\ ref' = r /\ cache_nelem' = n
  <2>1. StoreTypes' /\ CacheKeyed' /\ CacheCounted'
    BY <1>2, <1>3, <1>4, <1>5, <1>7 DEF StoreTypes, CacheKeyed, CacheCounted
  <2>2. \A m \in Methods : InCache(m)' = Of(kept, m)
    BY <1>7 DEF InCache
  <2>3. \A m \in Methods :
          ref'[m] = Cardinality(InStore(m)') + Cardinality(InCache(m)') + Cardinality(Held(m)')
    BY <1>3, <1>6, <1>7, <2>2
  <2>4. MethodRefsExact'
    BY <2>3 DEF MethodRefsExact, InStore, InCache, Of, Held
  <2> QED
    BY <1>4, <1>6, <2>1, <2>4 DEF StoreInv
<1>8. CASE /\ cache' = rest \cup {e}
           /\ ref' = [Dropped(r, old) EXCEPT ![e.method] = @ + 1]
           /\ cache_nelem' = IF old = {} THEN n + 1 ELSE n
  <2>1. old \in SUBSET kept /\ rest \in SUBSET kept /\ e \notin rest
    OBVIOUS
  <2>2. /\ \A a \in rest : ~(a.query = e.query /\ a.prov = e.prov)
        /\ \A a, b \in old : a = b
    BY <1>2, <1>5
  <2>3. rest = kept \ old
    OBVIOUS
  <2> HIDE DEF old, rest
  <2>4. IsFiniteSet(old) /\ IsFiniteSet(rest) /\ n \in Nat
    BY <1>3, <2>1, PartCounted, FS_CardinalityType
  <2>5. /\ IsFiniteSet(rest \cup {e}) /\ Cardinality(rest \cup {e}) = Cardinality(rest) + 1
        /\ Cardinality(rest) \in Nat
    BY <2>1, <2>4, FS_AddElement, FS_CardinalityType
  <2>6. Cardinality(rest) = IF old = {} THEN n ELSE n - 1
    <3>1. CASE old = {}
      BY <2>3, <3>1
    <3>2. CASE old # {}
      <4>1. PICK x \in old : TRUE
        BY <3>2
      <4>2. old = {x}
        BY <2>2, <4>1
      <4>3. Cardinality(kept \ {x}) = n - 1
        BY <1>3, <2>1, <4>1, FS_RemoveElement
      <4> QED
        BY <2>3, <3>2, <4>2, <4>3
    <3> QED
      BY <3>1, <3>2
  <2>7. CacheCounted'
    BY <1>8, <2>4, <2>5, <2>6 DEF CacheCounted
  <2>8. CacheKeyed'
    BY <1>2, <1>5, <1>8, <2>1, <2>2 DEF CacheKeyed
  <2>9. /\ Dropped(r, old) \in [Methods -> Int] /\ e.method \in Methods
        /\ \A m \in Methods : Dropped(r, old)[m] = r[m] - Cardinality(Of(old, m))
    BY <1>3, <2>4, DroppedPart DEF Cached
  <2>10. ref' \in [Methods -> Int]
    BY <1>8, <2>9
  <2>11. StoreTypes'
    BY <1>2, <1>4, <1>5, <1>8, <2>1, <2>5, <2>10 DEF StoreTypes
  <2>12. ASSUME NEW m \in Methods
         PROVE  ref'[m] = Cardinality(InStore(m)') + Cardinality(InCache(m)') + Cardinality(Held(m)')
    <3> DEFINE inRest == Of(rest, m)
               one == IF m = e.method THEN 1 ELSE 0
    <3>1. /\ Cardinality(Of(old, m)) \in Nat
          /\ Cardinality(Of(kept \ old, m))
               = Cardinality(Of(kept, m)) - Cardinality(Of(old, m))
      BY <1>3, <2>1, SplitCount
    <3>2. Cardinality(inRest)
            = Cardinality(Of(kept, m)) - Cardinality(Of(old, m))
      BY <2>3, <3>1
    <3>3. IsFiniteSet(inRest) /\ Cardinality(inRest) \in Nat
      BY <2>4, PartCounted DEF Of
    <3>4. Cardinality(InCache(m)') = Cardinality(inRest) + one
      <4>1. CASE m = e.method
        <5>1. InCache(m)' = inRest \cup {e} /\ e \notin inRest
          BY <1>8, <2>1, <4>1 DEF InCache, Of
        <5> HIDE DEF inRest
        <5>2. Cardinality(inRest \cup {e}) = Cardinality(inRest) + 1
          BY <3>3, <5>1, FS_AddElement
        <5> QED
          BY <4>1, <5>1, <5>2
      <4>2. CASE m # e.method
        <5>1. InCache(m)' = inRest
          BY <1>8, <4>2 DEF InCache, Of
        <5> HIDE DEF inRest
        <5> QED
          BY <3>3, <4>2, <5>1
      <4> QED
        BY <4>1, <4>2
    <3>5. ref'[m] = r[m] - Cardinality(Of(old, m)) + one
      BY <1>3, <1>8, <2>9
    <3>6. r[m] = Cardinality(InStore(m)) + Cardinality(Of(kept, m))
                 + Cardinality(Held(m))
      BY <1>3
    <3>7. /\ Cardinality(Of(kept, m)) \in Nat
          /\ Cardinality(InStore(m)) \in Nat /\ Cardinality(Held(m)) \in Nat
          /\ InStore(m)' = InStore(m) /\ Held(m)' = Held(m)
      BY <1>3, <1>6, Counts
    <3> QED
      BY <3>1, <3>2, <3>4, <3>5, <3>6, <3>7
  <2>13. MethodRefsExact'
    BY <2>12 DEF MethodRefsExact, InStore, InCache, Of, Held
  <2> QED
    BY <1>4, <1>6, <2>7, <2>8, <2>11, <2>13 DEF StoreInv
<1> QED
  BY <1>4, <1>7, <1>8

\* A thread takes a reference to the method it found.
LEMMA TakeStep ==
  ASSUME StoreInv, NEW t \in Fetchers, method[t] = None, NEW f \in Found, f # None,
         method' = [method EXCEPT ![t] = f], ref' = [ref EXCEPT ![f.method] = @ + 1],
         UNCHANGED <<impls, cache, cache_nelem>>
  PROVE  StoreInv'
<1>1. ref \in [Methods -> Int] /\ Holding /\ f.method \in Methods
  BY DEF StoreInv, StoreTypes, Found
<1>2. Holding' /\ ref' \in [Methods -> Int]
  BY <1>1 DEF Holding
<1>3. StoreTypes' /\ StoreKeyed' /\ CacheKeyed' /\ CacheCounted'
  BY <1>2 DEF StoreInv, StoreTypes, StoreKeyed, CacheKeyed, CacheCounted
<1>4. ASSUME NEW m \in Methods
      PROVE  ref'[m] = Cardinality(InStore(m)') + Cardinality(InCache(m)') + Cardinality(Held(m)')
  <2>1. InStore(m)' = InStore(m) /\ InCache(m)' = InCache(m)
    BY DEF InStore, InCache
  <2>2. CASE m = f.method
    <3>1. Held(m)' = Held(m) \cup {t} /\ t \notin Held(m)
      BY <1>1, <2>2 DEF Held, Holding
    <3>2. Cardinality(Held(m) \cup {t}) = Cardinality(Held(m)) + 1
      BY <3>1, Counts, FS_AddElement
    <3>3. ref'[m] = ref[m] + 1
      BY <1>1, <2>2
    <3> QED
      BY <2>1, <3>1, <3>2, <3>3, Counts
  <2>3. CASE m # f.method
    <3>1. Held(m)' = Held(m)
      BY <1>1, <2>3 DEF Held, Holding
    <3>2. ref'[m] = ref[m]
      BY <1>1, <2>3
    <3> QED
      BY <2>1, <3>1, <3>2, Counts
  <2> QED
    BY <2>2, <2>3
<1>5. MethodRefsExact'
  BY <1>4 DEF MethodRefsExact, InStore, InCache, Of, Held
<1> QED
  BY <1>2, <1>3, <1>5 DEF StoreInv

\* A thread gives back the reference it holds.
LEMMA GiveBackStep ==
  ASSUME StoreInv, NEW t \in Fetchers, method[t] # None,
         method' = [method EXCEPT ![t] = None],
         ref' = [ref EXCEPT ![method[t].method] = @ - 1],
         UNCHANGED <<impls, cache, cache_nelem>>
  PROVE  StoreInv'
<1>1. ref \in [Methods -> Int] /\ Holding /\ method[t].method \in Methods
  BY DEF StoreInv, StoreTypes, Holding, Found
<1>2. Holding' /\ ref' \in [Methods -> Int]
  BY <1>1 DEF Holding
<1>3. StoreTypes' /\ StoreKeyed' /\ CacheKeyed' /\ CacheCounted'
  BY <1>2 DEF StoreInv, StoreTypes, StoreKeyed, CacheKeyed, CacheCounted
<1>4. ASSUME NEW m \in Methods
      PROVE  ref'[m] = Cardinality(InStore(m)') + Cardinality(InCache(m)') + Cardinality(Held(m)')
  <2>1. InStore(m)' = InStore(m) /\ InCache(m)' = InCache(m)
    BY DEF InStore, InCache
  <2>2. CASE m = method[t].method
    <3>1. Held(m)' = Held(m) \ {t} /\ t \in Held(m)
      BY <1>1, <2>2 DEF Held, Holding
    <3>2. Cardinality(Held(m) \ {t}) = Cardinality(Held(m)) - 1
      BY <3>1, Counts, FS_RemoveElement
    <3>3. ref'[m] = ref[m] - 1
      BY <1>1, <2>2
    <3> QED
      BY <2>1, <3>1, <3>2, <3>3, Counts
  <2>3. CASE m # method[t].method
    <3>1. Held(m)' = Held(m)
      BY <1>1, <2>3 DEF Held, Holding
    <3>2. ref'[m] = ref[m]
      BY <1>1, <2>3
    <3> QED
      BY <2>1, <3>1, <3>2, Counts
  <2> QED
    BY <2>2, <2>3
<1>5. MethodRefsExact'
  BY <1>4 DEF MethodRefsExact, InStore, InCache, Of, Held
<1> QED
  BY <1>2, <1>3, <1>5 DEF StoreInv

\* A step that leaves the store and what is held alone.
LEMMA StoreKept ==
  ASSUME StoreInv, UNCHANGED <<impls, cache, cache_nelem, ref, method>>
  PROVE  StoreInv'
BY DEF StoreInv, StoreTypes, Holding, StoreKeyed, CacheKeyed, CacheCounted, MethodRefsExact

\* What the store part of the invariant says, and what the others need of it.
StoreAndPlaces == Types /\ Places /\ StoreInv

\* Methods constructed, for the provider of the reservation.
LEMMA ConstructStep ==
  ASSUME StoreAndPlaces, NEW t \in Fetchers, Construct(t)
  PROVE  /\ StoreAndPlaces' /\ biglock.prov \in Providers
         /\ \A q \in Providers : Stored(q) => Stored(q)'
         /\ Stored(biglock.prov)' \/ biglock.prov \in spoiled'
<1>1. /\ pc[t] = "construct" /\ pc' = [pc EXCEPT ![t] = "post"]
      /\ UNCHANGED <<activatecnt, flag_activated, operation_bits, biglock, query, method,
                     todo, pinned, last, loader, loading>>
  BY DEF Construct, Goto, provs, walk, loads
<1>2. biglock.prov \in Providers
  BY <1>1 DEF StoreAndPlaces, Places, Reserved
<1>3. /\ StoreInv' /\ spoiled' \in SUBSET Providers
      /\ \A q \in Providers : Stored(q) => Stored(q)'
      /\ Stored(biglock.prov)' \/ biglock.prov \in spoiled'
  <2>1. CASE UNCHANGED store /\ spoiled' = spoiled \cup {biglock.prov}
    <3>1. UNCHANGED <<impls, cache, cache_nelem, ref>>
      BY <2>1 DEF store
    <3>2. StoreInv'
      BY <1>1, <3>1, StoreKept DEF StoreAndPlaces
    <3> QED
      BY <1>2, <2>1, <3>1, <3>2 DEF StoreAndPlaces, Types, ProviderTypes, Stored
  <2>2. CASE StoreAddFails /\ spoiled' = spoiled \cup {biglock.prov}
    <3>1. FlushCache /\ ref' = Dropped(ref, cache) /\ UNCHANGED <<impls, method>>
      BY <1>1, <2>2 DEF StoreAddFails
    <3>2. StoreInv'
      BY <3>1, FlushStep DEF StoreAndPlaces
    <3> QED
      BY <1>2, <2>2, <3>1, <3>2 DEF StoreAndPlaces, Types, ProviderTypes, Stored
  <2>3. ASSUME NEW m \in Methods, ref[m] = 0, StoreAdd(biglock.prov, m), UNCHANGED spoiled
        PROVE  <1>3
    <3>1. PICK p \in Providers : p = biglock.prov
      BY <1>2
    <3>4. StoreAdd(p, m) /\ UNCHANGED method
      BY <1>1, <2>3, <3>1
    <3>2. StoreInv' /\ Stored(p)' /\ (\A q \in Providers : Stored(q) => Stored(q)')
      BY <2>3, <3>4, StoreAddStep DEF StoreAndPlaces
    <3>3. Stored(biglock.prov)'
      BY <1>1, <3>1, <3>2 DEF Stored
    <3> QED
      BY <2>3, <3>2, <3>3 DEF StoreAndPlaces, Types, ProviderTypes
  <2> QED
    BY <2>1, <2>2, <2>3 DEF Construct
<1>4. Types'
  BY <1>1, <1>3 DEF StoreAndPlaces, StoreInv, Types, ProviderTypes, ThreadTypes, Labels
<1>5. Places'
  BY <1>1 DEF StoreAndPlaces, Types, ThreadTypes, Places, FetchersAt, Reserved, LoadersAt
<1> QED
  BY <1>2, <1>3, <1>4, <1>5 DEF StoreAndPlaces

\* The steps of a fetching thread.
LEMMA FetcherStore ==
  ASSUME StoreAndPlaces, NEW t \in Fetchers,
         CacheGet(t) \/ CopyProviders(t) \/ Pin(t) \/ GoThrough(t) \/ Reserve(t) \/ Unreserve(t)
           \/ Unpin(t) \/ UpAgain(t) \/ FullyDeactivate(t) \/ StoreFetch(t) \/ Release(t)
  PROVE  StoreAndPlaces' /\ impls' = impls
<1>1. Types' /\ Places'
  BY FetcherTypes DEF StoreAndPlaces
<1>2. StoreInv /\ Types /\ Places
  BY DEF StoreAndPlaces
<1>3. CASE CacheGet(t)
  <2>1. UNCHANGED <<impls, cache, cache_nelem>> /\ method[t] = None
    BY <1>2, <1>3 DEF CacheGet, Places, FetchersAt
  <2>2. CASE UNCHANGED <<method, ref>>
    BY <1>1, <1>2, <2>1, <2>2, StoreKept DEF StoreAndPlaces
  <2>3. ASSUME NEW e \in cache,
               method' = [method EXCEPT ![t] = [prov |-> e.prov, method |-> e.method]],
               ref' = [ref EXCEPT ![e.method] = @ + 1]
        PROVE  StoreInv'
    <3> DEFINE f == [prov |-> e.prov, method |-> e.method]
    <3>1. f \in Found /\ f.method = e.method
      BY <1>2 DEF Types, StoreTypes, Cached, Found
    <3>2. f # None
      BY <3>1, MethodFetchAssumption DEF Found
    <3> HIDE DEF f
    <3>3. method' = [method EXCEPT ![t] = f] /\ ref' = [ref EXCEPT ![f.method] = @ + 1]
      BY <2>3, <3>1 DEF f
    <3> QED
      BY <1>2, <2>1, <3>1, <3>2, <3>3, TakeStep
  <2> QED
    BY <1>1, <1>3, <2>1, <2>2, <2>3 DEF CacheGet, StoreAndPlaces
<1>4. CASE StoreFetch(t)
  <2>1. UNCHANGED <<impls, cache, cache_nelem>> /\ method[t] = None
    BY <1>2, <1>4, Zenon DEF StoreFetch, Places, FetchersAt
  <2>2. CASE UNCHANGED <<method, ref>>
    BY <1>1, <1>2, <2>1, <2>2, StoreKept DEF StoreAndPlaces
  <2>3. ASSUME NEW k \in DOMAIN impls,
               method' = [method EXCEPT ![t] = impls[k]],
               ref' = [ref EXCEPT ![impls[k].method] = @ + 1]
        PROVE  StoreInv'
    <3>1. impls[k] \in Found /\ impls[k] # None
      BY <1>2, ImplFound DEF Types
    <3> QED
      BY <1>2, <2>1, <2>3, <3>1, TakeStep
  <2> QED
    BY <1>1, <1>2, <1>4, <2>1, <2>2, <2>3, Fetched DEF StoreAndPlaces
<1>5. CASE Release(t)
  <2>1. method[t] # None
    BY <1>2, <1>5 DEF Release, Places, FetchersAt
  <2>2. StoreInv'
    BY <1>2, <1>5, <2>1, GiveBackStep DEF Release
  <2> QED
    BY <1>1, <1>5, <2>2 DEF Release, StoreAndPlaces
<1>6. CASE CopyProviders(t) \/ Pin(t) \/ GoThrough(t) \/ Reserve(t) \/ Unreserve(t) \/ Unpin(t)
             \/ UpAgain(t) \/ FullyDeactivate(t)
  <2>1. UNCHANGED <<impls, cache, cache_nelem, ref, method>>
    BY <1>6
    DEF CopyProviders, Pin, GoThrough, Reserve, Unreserve, Unpin, UpAgain, FullyDeactivate, store
  <2> QED
    BY <1>1, <1>2, <2>1, StoreKept DEF StoreAndPlaces
<1> QED
  BY <1>3, <1>4, <1>5, <1>6

\* The method found goes into the cache.
LEMMA FillCacheStep ==
  ASSUME StoreAndPlaces, NEW t \in Fetchers, FillCache(t)
  PROVE  StoreAndPlaces' /\ impls' = impls
<1> DEFINE e == [query |-> query[t], prov |-> method[t].prov, method |-> method[t].method]
<1>1. /\ pc[t] = "set" /\ CacheSet(e) /\ pc' = [pc EXCEPT ![t] = "held"]
      /\ UNCHANGED <<activatecnt, flag_activated, operation_bits, biglock, query, method,
                     todo, pinned, last, loader, loading, spoiled>>
  BY DEF FillCache, Goto, provs, walk, loads
<1>2. method[t] \in Found /\ query[t] \in Queries
  BY <1>1 DEF StoreAndPlaces, Types, ThreadTypes, Places, FetchersAt
<1>3. e \in Cached
  BY <1>2 DEF Found, Cached
<1>4. StoreInv' /\ impls' = impls
  <2>1. PICK x \in Cached : x = e
    BY <1>3
  <2>2. CacheSet(x)
    BY <1>1, <2>1
  <2> QED
    BY <1>1, <2>2, CacheSetStep DEF StoreAndPlaces
<1>5. Types'
  BY <1>1, <1>4 DEF StoreAndPlaces, StoreInv, Types, ProviderTypes, ThreadTypes, Labels
<1>6. Places'
  BY <1>1 DEF StoreAndPlaces, Types, ThreadTypes, Places, FetchersAt, Reserved, LoadersAt
<1> QED
  BY <1>4, <1>5, <1>6 DEF StoreAndPlaces

\* The steps of a loading thread.  Only the removal takes anything out of the
\* store, and nothing of another provider.
LEMMA LoaderStore ==
  ASSUME StoreAndPlaces, NEW u \in Loaders,
         Load(u) \/ FlushAll(u) \/ Unload(u) \/ ClearBits(u) \/ RemoveMethods(u)
  PROVE  /\ StoreAndPlaces'
         /\ \/ impls' = impls
            \/ /\ RemoveMethods(u)
               /\ \A q \in Providers \ {loading[u]} : Stored(q) => Stored(q)'
<1>1. StoreInv /\ Types /\ Places
  BY DEF StoreAndPlaces
<1>2. loader[u] # "idle" => loading[u] \in Providers
  BY <1>1 DEF Places, LoadersAt
<1>3. UNCHANGED <<pc, query, method, todo, pinned, last, biglock>>
  BY DEF Load, FlushAll, Unload, ClearBits, RemoveMethods, walk
<1>4. /\ loader' \in [Loaders -> {"idle", "flush", "loaded", "clear", "remove"}]
      /\ loading' \in [Loaders -> Providers \cup {None}] /\ LoadersAt'
  BY <1>1, <1>2
  DEF Load, FlushAll, Unload, ClearBits, RemoveMethods, LoaderGoes, Types, ThreadTypes, Places, LoadersAt
<1>5. ThreadTypes' /\ Places'
  BY <1>1, <1>3, <1>4 DEF Types, ThreadTypes, Places, FetchersAt, Reserved
<1>6. ProviderTypes'
  <2>1. CASE Load(u)
    BY <1>1, <2>1 DEF Load, Types, ProviderTypes
  <2>2. CASE Unload(u)
    <3>1. loading[u] \in Providers /\ Deactivated(loading[u]) /\ UNCHANGED <<operation_bits, spoiled>>
      BY <1>2, <2>2 DEF Unload
    <3> QED
      BY <1>1, <3>1 DEF Deactivated, Types, ProviderTypes
  <2>3. CASE FlushAll(u) \/ ClearBits(u) \/ RemoveMethods(u)
    BY <1>1, <2>3
    DEF FlushAll, ClearBits, RemoveMethods, BitsCleared, provs, Types, ProviderTypes
  <2> QED
    BY <2>1, <2>2, <2>3
<1>7. CASE RemoveMethods(u)
  <2>1. PICK p \in Providers : p = loading[u]
    BY <1>2, <1>7 DEF RemoveMethods
  <2>2. RemoveAllProvided(p)
    BY <1>7, <2>1 DEF RemoveMethods
  <2>3. StoreInv' /\ (\A q \in Providers \ {p} : Stored(q) => Stored(q)')
    BY <1>1, <1>3, <2>2, RemoveStep
  <2> QED
    BY <1>5, <1>6, <1>7, <2>1, <2>3 DEF StoreAndPlaces, StoreInv, Types
<1>8. CASE FlushAll(u)
  <2>1. FlushCache /\ ref' = Dropped(ref, cache) /\ UNCHANGED <<impls, method>>
    BY <1>1, <1>3, <1>8, FS_CardinalityType
    DEF FlushAll, FlushCache, NelemAfterFlush, StoreInv, StoreTypes, CacheCounted
  <2>2. StoreInv'
    BY <1>1, <2>1, FlushStep
  <2> QED
    BY <1>5, <1>6, <2>1, <2>2 DEF StoreAndPlaces, StoreInv, Types
<1>9. CASE Load(u) \/ Unload(u) \/ ClearBits(u)
  <2>1. UNCHANGED <<impls, cache, cache_nelem, ref, method>>
    BY <1>3, <1>9 DEF Load, Unload, ClearBits, store
  <2>2. StoreInv'
    BY <1>1, <2>1, StoreKept
  <2> QED
    BY <1>5, <1>6, <2>1, <2>2 DEF StoreAndPlaces, StoreInv, Types
<1> QED
  BY <1>7, <1>8, <1>9

-----------------------------------------------------------------------------
(* Activation counts *)

\* Who keeps p activated: threads that loaded it, fetches that go through it,
\* fetches about to deactivate it for good.
Users(p) == {u \in Loaders : loader[u] \in {"flush", "loaded"} /\ loading[u] = p}
Pinners(p) == {t \in Fetchers : p \in pinned[t]}
Deactivating(p) == {t \in Fetchers : pc[t] = "deactivate" /\ last[t] = p}

\* InUseStaysActive for one provider.
InUse(p) ==
  /\ activatecnt[p]
       = Cardinality(Users(p)) + Cardinality(Pinners(p)) + Cardinality(Deactivating(p))
  /\ Users(p) # {} \/ Pinners(p) # {} => flag_activated[p]

\* InUseStaysActive is InUse of every provider, before a step and after it.
LEMMA InUseEach ==
  /\ InUseStaysActive <=> \A p \in Providers : InUse(p)
  /\ InUseStaysActive' <=> \A p \in Providers : InUse(p)'
BY DEF InUseStaysActive, InUse, Users, Pinners, Deactivating

\* There are finitely many of each.
LEMMA UsersCounted ==
  ASSUME NEW p \in Providers
  PROVE  /\ IsFiniteSet(Users(p)) /\ Cardinality(Users(p)) \in Nat
         /\ IsFiniteSet(Pinners(p)) /\ Cardinality(Pinners(p)) \in Nat
         /\ IsFiniteSet(Deactivating(p)) /\ Cardinality(Deactivating(p)) \in Nat
<1>1. Users(p) \in SUBSET Loaders /\ Pinners(p) \in SUBSET Fetchers
      /\ Deactivating(p) \in SUBSET Fetchers
  BY DEF Users, Pinners, Deactivating
<1> QED
  BY <1>1, MethodFetchAssumption, PartCounted

\* A provider nobody starts or stops using keeps its count and flag.
LEMMA InUseKept ==
  ASSUME NEW p \in Providers, InUse(p),
         activatecnt'[p] = activatecnt[p], flag_activated'[p] = flag_activated[p],
         Users(p)' = Users(p), Pinners(p)' = Pinners(p), Deactivating(p)' = Deactivating(p)
  PROVE  InUse(p)'
BY DEF InUse

\* provider_deactivate of the provider p by one that no longer uses it: if any
\* other thread does, the count stays positive and the flag up.
LEMMA DeactivateStep ==
  ASSUME Types, NEW p \in Providers, InUse(p), Deactivated(p),
         Cardinality(Users(p)') + Cardinality(Deactivating(p)')
           = Cardinality(Users(p)) + Cardinality(Deactivating(p)) - 1,
         Users(p)' \subseteq Users(p), Pinners(p)' = Pinners(p),
         IsFiniteSet(Users(p)'), Cardinality(Users(p)') \in Nat,
         Cardinality(Deactivating(p)') \in Nat
  PROVE  InUse(p)'
<1>1. /\ activatecnt'[p] = activatecnt[p] - 1
      /\ flag_activated'[p] = (flag_activated[p] /\ activatecnt[p] - 1 >= 1)
  BY DEF Types, ProviderTypes, Deactivated
<1>2. activatecnt[p] = Cardinality(Users(p)) + Cardinality(Pinners(p)) + Cardinality(Deactivating(p))
  BY DEF InUse
<1>3. activatecnt'[p] = Cardinality(Users(p)') + Cardinality(Pinners(p)')
                        + Cardinality(Deactivating(p)')
  BY <1>1, <1>2, UsersCounted
<1>4. ASSUME Users(p)' # {} \/ Pinners(p)' # {} PROVE flag_activated'[p]
  <2>1. flag_activated[p]
    BY <1>4 DEF InUse
  <2>2. Cardinality(Users(p)') # 0 \/ Cardinality(Pinners(p)') # 0
    BY <1>4, UsersCounted, FS_EmptySet
  <2>3. activatecnt[p] - 1 >= 1
    BY <1>1, <1>2, <1>3, <2>2, UsersCounted
  <2> QED
    BY <1>1, <2>1, <2>3
<1> QED
  BY <1>3, <1>4 DEF InUse

\* A fetch pins what is active, counts it down again, and deactivates for good
\* what it took to zero.
LEMMA FetcherActive ==
  ASSUME Types, Places, InUseStaysActive, NEW t \in Fetchers,
         Pin(t) \/ Unpin(t) \/ UpAgain(t) \/ FullyDeactivate(t)
  PROVE  InUseStaysActive'
<1>1. UNCHANGED <<loader, loading>>
  BY DEF Pin, Unpin, UpAgain, FullyDeactivate, loads
<1> SUFFICES ASSUME NEW p \in Providers PROVE InUse(p)'
  BY InUseEach
<1>2. InUse(p) /\ Users(p)' = Users(p)
  BY <1>1, InUseEach DEF Users
<1> USE DEF Types, ProviderTypes, ThreadTypes
<1>3. CASE Pin(t)
  <2>1. PICK q \in todo[t] :
          IF flag_activated[q]
            THEN /\ activatecnt' = [activatecnt EXCEPT ![q] = PinnedCount(q)]
                 /\ pinned' = [pinned EXCEPT ![t] = @ \cup {q}]
            ELSE UNCHANGED <<activatecnt, pinned>>
    BY <1>3 DEF Pin
  <2>2. UNCHANGED <<pc, flag_activated, last>> /\ q \notin pinned[t]
    BY <1>3, <2>1 DEF Pin, Places, FetchersAt
  <2>3. Deactivating(p)' = Deactivating(p)
    BY <2>2 DEF Deactivating
  <2>4. CASE p # q \/ ~flag_activated[q]
    <3>1. activatecnt'[p] = activatecnt[p] /\ Pinners(p)' = Pinners(p)
      BY <2>1, <2>2, <2>4 DEF Pinners
    <3> QED
      BY <1>2, <2>2, <2>3, <3>1, InUseKept
  <2>5. CASE p = q /\ flag_activated[q]
    <3>1. activatecnt'[p] = activatecnt[p] + 1 /\ flag_activated'[p]
      BY <2>1, <2>2, <2>5 DEF PinnedCount
    <3>2. Pinners(p)' = Pinners(p) \cup {t} /\ t \notin Pinners(p)
      BY <2>1, <2>2, <2>5 DEF Pinners
    <3>3. Cardinality(Pinners(p) \cup {t}) = Cardinality(Pinners(p)) + 1
      BY <3>2, UsersCounted, FS_AddElement
    <3> QED
      BY <1>2, <2>3, <3>1, <3>2, <3>3, UsersCounted DEF InUse
  <2> QED
    BY <2>4, <2>5
<1>4. CASE Unpin(t)
  <2>1. pc[t] = "map" /\ UNCHANGED flag_activated
    BY <1>4 DEF Unpin
  <2>2. CASE UNCHANGED <<activatecnt, pinned, last>> /\ Goto(t, "fetch")
    <3>1. Pinners(p)' = Pinners(p) /\ Deactivating(p)' = Deactivating(p)
      BY <2>1, <2>2 DEF Pinners, Deactivating, Goto
    <3> QED
      BY <1>2, <2>1, <2>2, <3>1, InUseKept
  <2>3. ASSUME NEW q \in pinned[t],
               activatecnt' = [activatecnt EXCEPT ![q] = @ - 1],
               pinned' = [pinned EXCEPT ![t] = @ \ {q}],
               \/ last' = [last EXCEPT ![t] = q] /\ Goto(t, "up")
               \/ UNCHANGED <<pc, last>>
        PROVE  InUse(p)'
    <3>1. Deactivating(p)' = Deactivating(p)
      BY <2>1, <2>3 DEF Deactivating, Goto
    <3>2. CASE p # q
      <4>1. activatecnt'[p] = activatecnt[p] /\ Pinners(p)' = Pinners(p)
        BY <2>3, <3>2 DEF Pinners
      <4> QED
        BY <1>2, <2>1, <3>1, <4>1, InUseKept
    <3>3. CASE p = q
      <4>1. activatecnt'[p] = activatecnt[p] - 1
        BY <2>3, <3>3
      <4>2. Pinners(p)' = Pinners(p) \ {t} /\ t \in Pinners(p)
        BY <2>3, <3>3 DEF Pinners
      <4>3. Cardinality(Pinners(p) \ {t}) = Cardinality(Pinners(p)) - 1
        BY <4>2, UsersCounted, FS_RemoveElement
      <4>4. flag_activated'[p]
        BY <1>2, <2>1, <4>2 DEF InUse
      <4> QED
        BY <1>2, <3>1, <4>1, <4>2, <4>3, <4>4, UsersCounted DEF InUse
    <3> QED
      BY <3>2, <3>3
  <2> QED
    BY <1>4, <2>2, <2>3 DEF Unpin
<1>5. CASE UpAgain(t)
  <2>1. /\ pc[t] = "up" /\ pc' = [pc EXCEPT ![t] = "deactivate"]
        /\ activatecnt' = [activatecnt EXCEPT ![last[t]] = @ + 1]
        /\ last[t] \in Providers /\ UNCHANGED <<flag_activated, last, pinned>>
    BY <1>5 DEF UpAgain, Goto, walk, Places, FetchersAt
  <2>2. Pinners(p)' = Pinners(p)
    BY <2>1 DEF Pinners
  <2>3. CASE p # last[t]
    <3>1. activatecnt'[p] = activatecnt[p] /\ Deactivating(p)' = Deactivating(p)
      BY <2>1, <2>3 DEF Deactivating
    <3> QED
      BY <1>2, <2>1, <2>2, <3>1, InUseKept
  <2>4. CASE p = last[t]
    <3>1. activatecnt'[p] = activatecnt[p] + 1
      BY <2>1, <2>4
    <3>2. Deactivating(p)' = Deactivating(p) \cup {t} /\ t \notin Deactivating(p)
      BY <2>1, <2>4 DEF Deactivating
    <3>3. Cardinality(Deactivating(p) \cup {t}) = Cardinality(Deactivating(p)) + 1
      BY <3>2, UsersCounted, FS_AddElement
    <3> QED
      BY <1>2, <2>1, <2>2, <3>1, <3>2, <3>3, UsersCounted DEF InUse
  <2> QED
    BY <2>3, <2>4
<1>6. CASE FullyDeactivate(t)
  <2>1. /\ pc[t] = "deactivate" /\ pc' = [pc EXCEPT ![t] = "map"]
        /\ Deactivated(last[t]) /\ last' = [last EXCEPT ![t] = None]
        /\ last[t] \in Providers /\ UNCHANGED pinned
    BY <1>6 DEF FullyDeactivate, Goto, Places, FetchersAt
  <2>2. Pinners(p)' = Pinners(p)
    BY <2>1 DEF Pinners
  <2>3. CASE p # last[t]
    <3>1. /\ activatecnt'[p] = activatecnt[p] /\ flag_activated'[p] = flag_activated[p]
          /\ Deactivating(p)' = Deactivating(p)
      BY <2>1, <2>3 DEF Deactivating, Deactivated
    <3> QED
      BY <1>2, <2>2, <3>1, InUseKept
  <2>4. CASE p = last[t]
    <3>1. Deactivating(p)' = Deactivating(p) \ {t} /\ t \in Deactivating(p)
      BY <2>1, <2>4 DEF Deactivating
    <3>2. /\ Cardinality(Deactivating(p)') = Cardinality(Deactivating(p)) - 1
          /\ Cardinality(Deactivating(p)') \in Nat
      BY <3>1, UsersCounted, FS_RemoveElement, FS_CardinalityType
    <3>3. Deactivated(p)
      BY <2>1, <2>4
    <3> QED
      BY <1>2, <2>2, <3>2, <3>3, UsersCounted, DeactivateStep
  <2> QED
    BY <2>3, <2>4
<1> QED
  BY <1>3, <1>4, <1>5, <1>6

\* The other steps of a fetching thread.
LEMMA QuietActive ==
  ASSUME Types, InUseStaysActive, NEW t \in Fetchers,
         CacheGet(t) \/ CopyProviders(t) \/ GoThrough(t) \/ Reserve(t) \/ Construct(t)
           \/ Unreserve(t) \/ StoreFetch(t) \/ FillCache(t) \/ Release(t)
  PROVE  InUseStaysActive'
<1>1. UNCHANGED <<activatecnt, flag_activated, pinned, last, loader, loading>>
  BY SMTT(30)
  DEF CacheGet, CopyProviders, GoThrough, Reserve, Construct, Unreserve, StoreFetch, FillCache,
      Release, provs, walk, loads
<1>2. /\ pc[t] # "deactivate"
      /\ pc' = pc \/ \E l \in Labels \ {"deactivate"} : pc' = [pc EXCEPT ![t] = l]
  BY DEF CacheGet, CopyProviders, GoThrough, Reserve, Construct, Unreserve, StoreFetch, FillCache,
         Release, Goto, Labels
<1> SUFFICES ASSUME NEW p \in Providers PROVE InUse(p)'
  BY InUseEach
<1>3. /\ Users(p)' = Users(p) /\ Pinners(p)' = Pinners(p)
      /\ activatecnt'[p] = activatecnt[p] /\ flag_activated'[p] = flag_activated[p]
  BY <1>1 DEF Users, Pinners
<1>4. Deactivating(p)' = Deactivating(p)
  BY <1>1, <1>2 DEF Deactivating, Types, ThreadTypes
<1> QED
  BY <1>3, <1>4, InUseEach, InUseKept, SMTT(30)

\* A thread that loads counts the provider up, one that unloads down.
LEMMA LoaderActive ==
  ASSUME Types, Places, InUseStaysActive, NEW u \in Loaders,
         Load(u) \/ FlushAll(u) \/ Unload(u) \/ ClearBits(u) \/ RemoveMethods(u)
  PROVE  InUseStaysActive'
<1>1. UNCHANGED <<pc, pinned, last>>
  BY DEF Load, FlushAll, Unload, ClearBits, RemoveMethods, walk
<1> SUFFICES ASSUME NEW p \in Providers PROVE InUse(p)'
  BY InUseEach
<1>2. InUse(p) /\ Pinners(p)' = Pinners(p) /\ Deactivating(p)' = Deactivating(p)
  BY <1>1, InUseEach DEF Pinners, Deactivating
<1> USE DEF Types, ProviderTypes, ThreadTypes, LoaderGoes
<1>3. CASE Load(u)
  <2>1. PICK q \in Providers, l \in {"flush", "loaded"} :
          /\ activatecnt' = [activatecnt EXCEPT ![q] = @ + 1]
          /\ flag_activated' = [flag_activated EXCEPT ![q] = TRUE]
          /\ loader' = [loader EXCEPT ![u] = l] /\ loading' = [loading EXCEPT ![u] = q]
    BY <1>3 DEF Load
  <2>2. loader[u] = "idle"
    BY <1>3 DEF Load
  <2>3. CASE p # q
    <3>1. /\ activatecnt'[p] = activatecnt[p] /\ flag_activated'[p] = flag_activated[p]
          /\ Users(p)' = Users(p)
      BY <2>1, <2>2, <2>3 DEF Users
    <3> QED
      BY <1>2, <3>1, InUseKept
  <2>4. CASE p = q
    <3>1. activatecnt'[p] = activatecnt[p] + 1 /\ flag_activated'[p]
      BY <2>1, <2>4
    <3>2. Users(p)' = Users(p) \cup {u} /\ u \notin Users(p)
      BY <2>1, <2>2, <2>4 DEF Users
    <3>3. Cardinality(Users(p) \cup {u}) = Cardinality(Users(p)) + 1
      BY <3>2, UsersCounted, FS_AddElement
    <3> QED
      BY <1>2, <3>1, <3>2, <3>3, UsersCounted DEF InUse
  <2> QED
    BY <2>3, <2>4
<1>4. CASE Unload(u)
  <2>1. /\ loader[u] = "loaded" /\ loading[u] \in Providers /\ Deactivated(loading[u])
        /\ \E l \in {"clear", "idle"} : loader' = [loader EXCEPT ![u] = l]
        /\ \E q : loading' = [loading EXCEPT ![u] = q]
    BY <1>4 DEF Unload, Places, LoadersAt
  <2>2. CASE p # loading[u]
    <3>1. activatecnt'[p] = activatecnt[p] /\ flag_activated'[p] = flag_activated[p]
      BY <2>1, <2>2 DEF Deactivated
    <3>2. Users(p)' = Users(p)
      BY <2>1, <2>2 DEF Users
    <3> QED
      BY <1>2, <3>1, <3>2, InUseKept
  <2>3. CASE p = loading[u]
    <3>1. Users(p)' = Users(p) \ {u} /\ u \in Users(p)
      BY <2>1, <2>3 DEF Users
    <3>2. /\ IsFiniteSet(Users(p)') /\ Cardinality(Users(p)') = Cardinality(Users(p)) - 1
          /\ Cardinality(Users(p)') \in Nat
      BY <3>1, UsersCounted, FS_RemoveElement, FS_CardinalityType
    <3>3. Deactivated(p) /\ Users(p)' \subseteq Users(p)
      BY <2>1, <2>3, <3>1
    <3>4. Cardinality(Users(p)') + Cardinality(Deactivating(p)')
            = Cardinality(Users(p)) + Cardinality(Deactivating(p)) - 1
      BY <1>2, <3>2, UsersCounted
    <3> QED
      BY <1>2, <3>2, <3>3, <3>4, UsersCounted, DeactivateStep
  <2> QED
    BY <2>2, <2>3
<1>5. CASE FlushAll(u) \/ ClearBits(u) \/ RemoveMethods(u)
  <2>1. UNCHANGED <<activatecnt, flag_activated>>
    BY <1>5 DEF FlushAll, ClearBits, RemoveMethods, provs
  <2>2. Users(p)' = Users(p)
    BY <1>5 DEF FlushAll, ClearBits, RemoveMethods, Users
  <2> QED
    BY <1>2, <2>1, <2>2, InUseKept
<1> QED
  BY <1>3, <1>4, <1>5

-----------------------------------------------------------------------------
(* Operation bits *)

\* A provider that is pinned is active, so nobody is unloading it unless it was
\* spoiled.
LEMMA PinnedNotUnloaded ==
  ASSUME Types, InUseStaysActive, UnloadsDone,
         NEW t \in Fetchers, NEW p \in pinned[t], p \notin spoiled, NEW u \in Loaders
  PROVE  ~(loading[u] = p /\ loader[u] \in {"clear", "remove"})
<1>1. p \in Providers
  BY DEF Types, ThreadTypes
<1>2. flag_activated[p]
  BY <1>1 DEF InUseStaysActive
<1> QED
  BY <1>1, <1>2 DEF UnloadsDone

\* A step that does not take anything out of the store, nor sets a bit, a flag
\* or the place of an unload.
LEMMA BitsKept ==
  ASSUME Types, UnloadsDone, ConstructedMeansStored,
         \A q \in Providers : Stored(q) => Stored(q)',
         UNCHANGED <<operation_bits, loader, loading>>,
         \A q \in Providers : flag_activated'[q] => flag_activated[q],
         spoiled \subseteq spoiled',
         \A t \in Fetchers : pc'[t] = "post" => pc[t] = "post" /\ biglock' = biglock
                                               /\ biglock.prov \in Providers
  PROVE  UnloadsDone' /\ ConstructedMeansStored'
<1>1. ConstructedMeansStored'
  BY DEF Types, ProviderTypes, ConstructedMeansStored
<1>2. ASSUME NEW t \in Fetchers, pc'[t] = "post", biglock'.prov \notin spoiled'
      PROVE  Stored(biglock.prov)'
  <2>1. Stored(biglock.prov) /\ biglock.prov \in Providers /\ biglock' = biglock
    BY <1>2 DEF UnloadsDone
  <2>2. PICK p \in Providers : p = biglock.prov
    BY <2>1
  <2>3. Stored(p)'
    BY <2>1, <2>2
  <2> QED
    BY <2>1, <2>2, <2>3 DEF Stored
<1> QED
  BY <1>1, <1>2 DEF UnloadsDone

\* Steps of a fetching thread: the bit of the provider it has pinned is set
\* only once the method is stored, or the construction failed.
LEMMA FetcherBits ==
  ASSUME FInv, NEW t \in Fetchers,
         CacheGet(t) \/ CopyProviders(t) \/ Pin(t) \/ GoThrough(t) \/ Reserve(t) \/ Construct(t)
           \/ Unreserve(t) \/ Unpin(t)
           \/ UpAgain(t) \/ FullyDeactivate(t) \/ StoreFetch(t) \/ FillCache(t) \/ Release(t)
  PROVE  UnloadsDone' /\ ConstructedMeansStored'
<1>1. /\ Types /\ Places /\ UnloadsDone /\ ConstructedMeansStored /\ InUseStaysActive
      /\ StoreAndPlaces
  BY SMTT(30) DEF FInv, StoreAndPlaces, StoreInv, Types, ThreadTypes, Holding
<1>2. UNCHANGED <<loader, loading>>
  BY DEF CacheGet, CopyProviders, Pin, GoThrough, Reserve, Construct, Unreserve, Unpin, UpAgain,
         FullyDeactivate, StoreFetch, FillCache, Release, loads
<1>3. CASE CacheGet(t) \/ CopyProviders(t) \/ Pin(t) \/ GoThrough(t) \/ Unpin(t) \/ UpAgain(t)
             \/ FullyDeactivate(t) \/ StoreFetch(t) \/ FillCache(t) \/ Release(t)
  <2>1. impls' = impls
    BY <1>1, <1>3, FetcherStore, FillCacheStep, SMTT(40)
  <2>2. UNCHANGED <<operation_bits, spoiled, biglock>>
    BY <1>3, ZenonT(60) DEF CacheGet, CopyProviders, Pin, GoThrough, Unpin, UpAgain, FullyDeactivate, StoreFetch,
        FillCache, Release
  <2>3. \A q \in Providers : flag_activated'[q] => flag_activated[q]
    BY <1>1, <1>3, ZenonT(60)
    DEF CacheGet, CopyProviders, Pin, GoThrough, Unpin, UpAgain, FullyDeactivate, StoreFetch,
        FillCache, Release, Deactivated,
        provs, Types, ProviderTypes
  <2>4. \A x \in Fetchers : pc'[x] = "post" => pc[x] = "post"
    BY <1>1, <1>3, Zenon
    DEF CacheGet, CopyProviders, Pin, GoThrough, Unpin, UpAgain, FullyDeactivate, StoreFetch,
        FillCache, Release, Goto,
        Types, ThreadTypes
  <2>5. \A x \in Fetchers : pc[x] = "post" => biglock.prov \in Providers
    BY <1>1 DEF Places, Reserved
  <2>6. \A q \in Providers : Stored(q) => Stored(q)'
    BY <2>1 DEF Stored
  <2> QED
    BY <1>1, <1>2, <2>2, <2>3, <2>4, <2>5, <2>6, BitsKept
<1>4. CASE Reserve(t)
  <2>1. /\ UNCHANGED <<impls, operation_bits, spoiled, flag_activated>> /\ biglock = None
        /\ pc' = pc \/ pc' = [pc EXCEPT ![t] = "construct"]
    BY <1>4 DEF Reserve, Goto, store, provs
  <2>2. \A x \in Fetchers : pc[x] # "post"
    BY <1>1, <2>1, MethodFetchAssumption DEF Places, Reserved
  <2>3. \A x \in Fetchers : pc'[x] # "post"
    BY <1>1, <2>1, <2>2 DEF Types, ThreadTypes
  <2>4. \A q \in Providers : Stored(q) => Stored(q)'
    BY <2>1 DEF Stored
  <2> QED
    BY <1>1, <1>2, <2>1, <2>3, <2>4, BitsKept
<1>5. CASE Construct(t)
  <2>1. /\ biglock.prov \in Providers /\ \A q \in Providers : Stored(q) => Stored(q)'
        /\ Stored(biglock.prov)' \/ biglock.prov \in spoiled'
    BY <1>1, <1>5, ConstructStep
  <2>2. /\ UNCHANGED <<operation_bits, flag_activated, biglock>> /\ spoiled \subseteq spoiled'
    BY <1>5 DEF Construct, provs
  <2>3. ConstructedMeansStored'
    BY <1>1, <2>1, <2>2 DEF Types, ProviderTypes, ConstructedMeansStored
  <2> QED
    BY <1>1, <1>2, <2>1, <2>2, <2>3 DEF UnloadsDone
<1>6. CASE Unreserve(t)
  <2>1. /\ pc[t] = "post" /\ UNCHANGED <<impls, flag_activated, spoiled>>
        /\ biglock.prov \in Providers /\ biglock.prov \in pinned[t]
        /\ \A x \in Fetchers : pc[x] = "post" => x = t
    BY <1>1, <1>6 DEF Unreserve, store, provs, Places, Reserved
  <2>2. \A x \in Fetchers : pc'[x] # "post"
    BY <1>1, <1>6, <2>1 DEF Unreserve, Goto, Types, ThreadTypes
  <2>3. operation_bits' = operation_bits \/ operation_bits' = operation_bits \cup {biglock.prov}
    BY <1>6 DEF Unreserve
  <2>4. biglock.prov \notin spoiled => Stored(biglock.prov)
    BY <1>1, <2>1 DEF UnloadsDone
  <2>5. \A q \in operation_bits' \ spoiled' : Stored(q)
    BY <1>1, <2>1, <2>3, <2>4 DEF ConstructedMeansStored
  <2>6. ConstructedMeansStored'
    BY <2>1, <2>5 DEF ConstructedMeansStored, Stored
  <2>7. ASSUME NEW q \in Providers \ spoiled', NEW u \in Loaders, loading[u] = q,
               loader[u] \in {"clear", "remove"}
        PROVE  ~flag_activated'[q] /\ (loader[u] = "remove" => q \notin operation_bits')
    <3>1. ~flag_activated[q] /\ (loader[u] = "remove" => q \notin operation_bits)
      BY <1>1, <2>1, <2>7 DEF UnloadsDone
    <3>2. q # biglock.prov
      BY <1>1, <2>1, <2>7, PinnedNotUnloaded
    <3> QED
      BY <2>1, <2>3, <3>1, <3>2
  <2> QED
    BY <1>2, <2>2, <2>6, <2>7 DEF UnloadsDone
<1> QED
  BY <1>3, <1>4, <1>5, <1>6

\* Steps of a loading thread: bits are cleared before methods are removed, and
\* a provider loaded again in between is spoiled.
LEMMA LoaderBits ==
  ASSUME FInv, NEW u \in Loaders,
         Load(u) \/ FlushAll(u) \/ Unload(u) \/ ClearBits(u) \/ RemoveMethods(u)
  PROVE  UnloadsDone' /\ ConstructedMeansStored'
<1>1. /\ Types /\ Places /\ UnloadsDone /\ ConstructedMeansStored /\ InUseStaysActive
      /\ StoreAndPlaces
  BY DEF FInv, StoreAndPlaces, StoreInv, Types, ThreadTypes, Holding
<1>2. UNCHANGED <<pc, biglock, pinned>>
  BY DEF Load, FlushAll, Unload, ClearBits, RemoveMethods, walk
<1>3. CASE Load(u)
  <2>1. PICK p \in Providers, l \in {"flush", "loaded"} :
          /\ flag_activated' = [flag_activated EXCEPT ![p] = TRUE]
          /\ loader' = [loader EXCEPT ![u] = l] /\ loading' = [loading EXCEPT ![u] = p]
          /\ spoiled' = IF \E v \in Loaders : loading[v] = p /\ loader[v] \in {"clear", "remove"}
                          THEN spoiled \cup {p} ELSE spoiled
    BY <1>3 DEF Load, LoaderGoes
  <2>2. UNCHANGED <<impls, operation_bits>> /\ spoiled \subseteq spoiled'
    BY <1>3, <2>1 DEF Load, store
  <2>3. ConstructedMeansStored'
    BY <1>1, <2>2 DEF ConstructedMeansStored, Stored
  <2>4. \A t \in Fetchers : pc'[t] = "post" /\ biglock'.prov \notin spoiled' => Stored(biglock.prov)'
    BY <1>1, <1>2, <2>2 DEF UnloadsDone, Stored
  <2>5. ASSUME NEW q \in Providers \ spoiled', NEW v \in Loaders, loading'[v] = q,
               loader'[v] \in {"clear", "remove"}
        PROVE  ~flag_activated'[q] /\ (loader'[v] = "remove" => q \notin operation_bits')
    <3>1. v # u
      BY <1>1, <2>1, <2>5 DEF Types, ThreadTypes
    <3>2. loading[v] = q /\ loader[v] = loader'[v]
      BY <1>1, <2>1, <2>5, <3>1 DEF Types, ThreadTypes
    <3>3. q # p
      BY <2>1, <2>5, <3>2
    <3>4. flag_activated'[q] = flag_activated[q]
      BY <1>1, <2>1, <3>3 DEF Types, ProviderTypes
    <3> QED
      BY <1>1, <2>2, <2>5, <3>2, <3>4 DEF UnloadsDone
  <2> QED
    BY <2>3, <2>4, <2>5 DEF UnloadsDone
<1>4. CASE Unload(u)
  <2>1. /\ loading[u] \in Providers /\ loader[u] = "loaded" /\ Deactivated(loading[u])
        /\ UNCHANGED <<impls, operation_bits, spoiled>>
        /\ \/ /\ activatecnt[loading[u]] - 1 = 0
              /\ loader' = [loader EXCEPT ![u] = "clear"]
              /\ loading' = [loading EXCEPT ![u] = loading[u]]
           \/ /\ loader' = [loader EXCEPT ![u] = "idle"]
              /\ loading' = [loading EXCEPT ![u] = None]
    BY <1>1, <1>4 DEF Unload, LoaderGoes, store, Places, LoadersAt
  <2>2. ConstructedMeansStored'
    BY <1>1, <2>1 DEF ConstructedMeansStored, Stored
  <2>3. \A t \in Fetchers : pc'[t] = "post" /\ biglock'.prov \notin spoiled' => Stored(biglock.prov)'
    BY <1>1, <1>2, <2>1 DEF UnloadsDone, Stored
  <2>4. ASSUME NEW q \in Providers \ spoiled', NEW v \in Loaders, loading'[v] = q,
               loader'[v] \in {"clear", "remove"}
        PROVE  ~flag_activated'[q] /\ (loader'[v] = "remove" => q \notin operation_bits')
    <3>1. CASE v # u
      <4>1. loading[v] = q /\ loader[v] = loader'[v]
        BY <1>1, <2>1, <2>4, <3>1 DEF Types, ThreadTypes
      <4>2. flag_activated'[q] => flag_activated[q]
        BY <1>1, <2>1 DEF Deactivated, Types, ProviderTypes
      <4> QED
        BY <1>1, <2>1, <2>4, <4>1, <4>2 DEF UnloadsDone
    <3>2. CASE v = u
      <4>1. activatecnt[q] - 1 = 0 /\ q = loading[u] /\ loader'[v] = "clear"
        BY <1>1, <2>1, <2>4, <3>2 DEF Types, ThreadTypes
      <4>2. ~flag_activated'[q]
        <5>1. ~(activatecnt[q] - 1 >= 1)
          BY <4>1
        <5>2. flag_activated'[q] = (flag_activated[q] /\ activatecnt[q] - 1 >= 1)
          BY <1>1, <2>1, <4>1 DEF Deactivated, Types, ProviderTypes
        <5> QED
          BY <5>1, <5>2
      <4> QED
        BY <4>1, <4>2
    <3> QED
      BY <3>1, <3>2
  <2> QED
    BY <2>2, <2>3, <2>4 DEF UnloadsDone
<1>5. CASE FlushAll(u)
  <2>1. /\ loader[u] = "flush" /\ loader' = [loader EXCEPT ![u] = "loaded"]
        /\ loading' = loading
        /\ UNCHANGED <<impls, operation_bits, spoiled, flag_activated>>
    BY <1>1, <1>5 DEF FlushAll, LoaderGoes, provs, Types, ThreadTypes
  <2>2. ConstructedMeansStored'
    BY <1>1, <2>1 DEF ConstructedMeansStored, Stored
  <2>3. \A t \in Fetchers : pc'[t] = "post" /\ biglock'.prov \notin spoiled' => Stored(biglock.prov)'
    BY <1>1, <1>2, <2>1 DEF UnloadsDone, Stored
  <2>4. \A v \in Loaders : loader'[v] \in {"clear", "remove"} => loader'[v] = loader[v]
    BY <1>1, <2>1 DEF Types, ThreadTypes
  <2> QED
    BY <1>1, <2>1, <2>2, <2>3, <2>4 DEF UnloadsDone
<1>6. CASE ClearBits(u)
  <2>1. /\ loader[u] = "clear" /\ loader' = [loader EXCEPT ![u] = "remove"]
        /\ loading' = loading /\ operation_bits' = operation_bits \ {loading[u]}
        /\ UNCHANGED <<impls, spoiled, flag_activated>>
    BY <1>1, <1>6 DEF ClearBits, BitsCleared, LoaderGoes, provs, store, Types, ThreadTypes
  <2>2. ConstructedMeansStored'
    BY <1>1, <2>1 DEF ConstructedMeansStored, Stored
  <2>3. \A t \in Fetchers : pc'[t] = "post" /\ biglock'.prov \notin spoiled' => Stored(biglock.prov)'
    BY <1>1, <1>2, <2>1 DEF UnloadsDone, Stored
  <2>4. \A v \in Loaders : v # u => loader'[v] = loader[v]
    BY <1>1, <2>1 DEF Types, ThreadTypes
  <2> QED
    BY <1>1, <2>1, <2>2, <2>3, <2>4 DEF UnloadsDone
<1>7. CASE RemoveMethods(u)
  <2>1. PICK p \in Providers : p = loading[u]
    BY <1>1, <1>7 DEF RemoveMethods, Places, LoadersAt
  <2>2. /\ loader[u] = "remove" /\ loader' = [loader EXCEPT ![u] = "idle"]
        /\ loading' = [loading EXCEPT ![u] = None]
        /\ UNCHANGED <<operation_bits, spoiled, flag_activated>>
    BY <1>7 DEF RemoveMethods, LoaderGoes, provs
  <2>3. \A q \in Providers \ {p} : Stored(q) => Stored(q)'
    <3>1. CASE impls' = impls
      BY <3>1 DEF Stored
    <3> QED
      BY <1>1, <1>7, <2>1, <3>1, LoaderStore
  <2>4. p \notin spoiled => p \notin operation_bits
    BY <1>1, <2>1, <2>2 DEF UnloadsDone
  <2>5. ConstructedMeansStored'
    BY <1>1, <2>2, <2>3, <2>4 DEF ConstructedMeansStored, Types, ProviderTypes
  <2>6. ASSUME NEW t \in Fetchers, pc'[t] = "post", biglock'.prov \notin spoiled'
        PROVE  Stored(biglock.prov)'
    <3>1. PICK q \in Providers : q = biglock.prov /\ q \in pinned[t] /\ Stored(q)
      BY <1>1, <1>2, <2>2, <2>6 DEF Places, Reserved, UnloadsDone
    <3>2. q # p
      BY <1>1, <1>2, <2>1, <2>2, <2>6, <3>1, PinnedNotUnloaded
    <3>3. Stored(q)'
      BY <2>3, <3>1, <3>2
    <3> QED
      BY <1>2, <3>1, <3>3 DEF Stored
  <2>7. \A v \in Loaders : v # u => loader'[v] = loader[v] /\ loading'[v] = loading[v]
    BY <1>1, <2>2 DEF Types, ThreadTypes
  <2>8. loader'[u] = "idle"
    BY <1>1, <2>2 DEF Types, ThreadTypes
  <2> QED
    BY <1>1, <2>2, <2>5, <2>6, <2>7, <2>8 DEF UnloadsDone
<1> QED
  BY <1>3, <1>4, <1>5, <1>6, <1>7

-----------------------------------------------------------------------------
(* The invariant and what follows from it *)

\* The invariant without what it says of who is active.
LEMMA FInvParts ==
  FInv <=> StoreAndPlaces /\ UnloadsDone /\ InUseStaysActive /\ ConstructedMeansStored
BY DEF FInv, StoreAndPlaces, StoreInv, Types, ThreadTypes, Holding

\* An empty library context.
LEMMA FetchInit == Init => FInv
<1> SUFFICES ASSUME Init PROVE FInv
  OBVIOUS
<1> USE MethodFetchAssumption DEF Init
<1>1. Types
  BY FS_EmptySet DEF Types, ProviderTypes, StoreTypes, ThreadTypes, Labels, Found
<1>2. Places
  BY DEF Places, FetchersAt, Reserved, LoadersAt
<1>3. StoreKeyed /\ CacheKeyed /\ UnloadsDone /\ ConstructedMeansStored
  BY DEF StoreKeyed, CacheKeyed, UnloadsDone, ConstructedMeansStored
<1>4. CacheCounted
  BY FS_EmptySet DEF CacheCounted
<1>5. ASSUME NEW m \in Methods
      PROVE  ref[m] = Cardinality(InStore(m)) + Cardinality(InCache(m)) + Cardinality(Held(m))
  <2>1. InStore(m) = {} /\ InCache(m) = {} /\ Held(m) = {}
    BY DEF InStore, InCache, Of, Held
  <2> QED
    BY <2>1, FS_EmptySet
<1>6. MethodRefsExact
  BY <1>5 DEF MethodRefsExact, InStore, InCache, Of, Held
<1>7. ASSUME NEW p \in Providers PROVE InUse(p)
  <2>1. Users(p) = {} /\ Pinners(p) = {} /\ Deactivating(p) = {}
    BY DEF Users, Pinners, Deactivating
  <2> QED
    BY <2>1, FS_EmptySet DEF InUse
<1> QED
  BY <1>1, <1>2, <1>3, <1>4, <1>6, <1>7, InUseEach DEF FInv

\* Every step keeps the invariant.
LEMMA FetchStep == ASSUME FInv, [Next]_vars PROVE FInv'
<1>1. StoreAndPlaces /\ UnloadsDone /\ InUseStaysActive /\ ConstructedMeansStored /\ Types /\ Places
  BY FInvParts DEF StoreAndPlaces
<1>2. ASSUME NEW t \in Fetchers,
             CacheGet(t) \/ CopyProviders(t) \/ Pin(t) \/ GoThrough(t) \/ Reserve(t) \/ Construct(t)
           \/ Unreserve(t) \/ Unpin(t)
               \/ UpAgain(t) \/ FullyDeactivate(t) \/ StoreFetch(t) \/ FillCache(t) \/ Release(t)
      PROVE  FInv'
  <2>1. StoreAndPlaces'
    BY <1>1, <1>2, FetcherStore, ConstructStep, FillCacheStep
  <2>2. InUseStaysActive'
    BY <1>1, <1>2, FetcherActive, QuietActive
  <2>3. UnloadsDone' /\ ConstructedMeansStored'
    BY <1>2, FetcherBits
  <2> QED
    BY <2>1, <2>2, <2>3, FInvParts, PTL
<1>3. ASSUME NEW u \in Loaders,
             Load(u) \/ FlushAll(u) \/ Unload(u) \/ ClearBits(u) \/ RemoveMethods(u)
      PROVE  FInv'
  <2>1. StoreAndPlaces'
    BY <1>1, <1>3, LoaderStore
  <2>2. InUseStaysActive'
    BY <1>1, <1>3, LoaderActive
  <2>3. UnloadsDone' /\ ConstructedMeansStored'
    BY <1>3, LoaderBits
  <2> QED
    BY <2>1, <2>2, <2>3, FInvParts, PTL
<1>4. CASE UNCHANGED vars
  <2>1. UNCHANGED <<activatecnt, flag_activated, operation_bits, impls, cache, cache_nelem, ref,
                    biglock, pc, query, method, todo, pinned, last, loader, loading, spoiled>>
    BY <1>4 DEF vars, provs, store, walk, loads
  <2>2. Types' /\ Places'
    BY <1>1, <2>1 DEF Types, ProviderTypes, StoreTypes, ThreadTypes, Places, FetchersAt, Reserved, LoadersAt
  <2>3. StoreInv'
    BY <1>1, <2>1, StoreKept DEF StoreAndPlaces
  <2>4. UnloadsDone' /\ InUseStaysActive' /\ ConstructedMeansStored'
    BY <1>1, <2>1 DEF UnloadsDone, InUseStaysActive, ConstructedMeansStored, Stored
  <2> QED
    BY <2>2, <2>3, <2>4 DEF FInv, StoreInv
<1> QED
  BY <1>2, <1>3, <1>4 DEF Next

\* The inductive invariant holds throughout.
THEOREM FetchInvariance == Spec => []FInv
BY FetchInit, FetchStep, PTL DEF Spec

\* However many threads fetch, load and unload, every method object has as many
\* references as it has holders, so none leaks and none is freed early.
THEOREM MethodRefs == Spec => []MethodRefsExact
<1>1. FInv => MethodRefsExact
  BY DEF FInv
<1> QED
  BY <1>1, FetchInvariance, PTL

\* The count of cached queries is exact.
THEOREM CacheCount == Spec => []CacheCounted
<1>1. FInv => CacheCounted
  BY DEF FInv
<1> QED
  BY <1>1, FetchInvariance, PTL

\* A provider in use stays activated, although the end of a fetch counts down
\* without the lock of the flag.
THEOREM ProvidersStayActive == Spec => []InUseStaysActive
<1>1. FInv => InUseStaysActive
  BY DEF FInv
<1> QED
  BY <1>1, FetchInvariance, PTL

\* The operation bit of a provider that was not spoiled means that its method
\* is in the store.
THEOREM BitsTellTruth == Spec => []ConstructedMeansStored
<1>1. FInv => ConstructedMeansStored
  BY DEF FInv
<1> QED
  BY <1>1, FetchInvariance, PTL
=============================================================================
