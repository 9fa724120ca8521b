----------------------------- MODULE MethodFetch -----------------------------
(***************************************************************************)
(* How EVP_MD_fetch finds a method, with threads that fetch and threads    *)
(* that load and unload providers in the same library context              *)
(* (evp_fetch.c, core_fetch.c, core_algorithm.c, property.c,               *)
(* provider_core.c).  A fetch looks into the query cache; on a miss it     *)
(* pins the active providers, has each construct its methods once, looks   *)
(* into the method store and fills the cache.  What is done under one lock *)
(* is one step.  There is one algorithm of one operation; allocations may  *)
(* fail, locks do not.  Child providers and temporary stores are left out. *)
(***************************************************************************)
EXTENDS Integers, Sequences, FiniteSets, SequencesExt

CONSTANTS
  Providers, Fetchers, Loaders,
  Queries,    \* property queries
  Matches,    \* Matches[q]: the providers whose methods match q
  Methods,    \* addresses of method objects
  None,       \* NULL
  Threshold,  \* IMPL_CACHE_FLUSH_THRESHOLD
  MayFail     \* whether allocations may fail

ASSUME MethodFetchAssumption ==
  /\ Matches \in [Queries -> SUBSET Providers]
  /\ IsFiniteSet(Fetchers) /\ IsFiniteSet(Loaders)
  /\ None \notin Methods \cup Providers
  /\ None \notin [prov : Providers, method : Methods] \cup [thread : Fetchers, prov : Providers]
  /\ Threshold \in Nat \ {0} /\ MayFail \in BOOLEAN

VARIABLES
  activatecnt, flag_activated,  \* of each provider
  operation_bits,               \* providers whose methods were constructed
  impls,                        \* the method store: alg->impls
  cache,                        \* the query cache: alg->cache
  cache_nelem, cache_need_flush,
  ref,                          \* the reference count of each method object
  biglock,                      \* who reserved the store, for which provider
  pc, query,                    \* of each fetching thread
  method,                       \* what it holds, with its provider
  todo,                         \* the providers it still has to go through
  pinned,                       \* those it keeps activated
  last,                         \* the one whose count it took to zero
  loader, loading,              \* what each loading thread does, with which
                                \* provider
  \* history variable
  spoiled                       \* providers whose construction failed, or that
                                \* were loaded in the middle of an unload

provs == <<activatecnt, flag_activated>>
store == <<impls, cache, cache_nelem, cache_need_flush, ref>>
walk == <<todo, pinned, last>>
loads == <<loader, loading>>
vars == <<provs, operation_bits, store, biglock, pc, query, method, walk, loads, spoiled>>

Init ==
  /\ activatecnt = [p \in Providers |-> 0]
  /\ flag_activated = [p \in Providers |-> FALSE]
  /\ operation_bits = {} /\ impls = <<>>
  /\ cache = {} /\ cache_nelem = 0 /\ cache_need_flush = FALSE
  /\ ref = [m \in Methods |-> 0]
  /\ biglock = None
  /\ pc = [t \in Fetchers |-> "idle"]
  /\ query = [t \in Fetchers |-> None] /\ method = [t \in Fetchers |-> None]
  /\ todo = [t \in Fetchers |-> {}] /\ pinned = [t \in Fetchers |-> {}]
  /\ last = [t \in Fetchers |-> None]
  /\ loader = [u \in Loaders |-> "idle"] /\ loading = [u \in Loaders |-> None]
  /\ spoiled = {}

Goto(t, label) == pc' = [pc EXCEPT ![t] = label]

\* The counts with one reference less for each of the holders.
Dropped(r, holders) ==
  [m \in Methods |-> r[m] - Cardinality({h \in holders : h.method = m})]

Stored(p) == \E k \in DOMAIN impls : impls[k].prov = p

-----------------------------------------------------------------------------
(* The method store and its cache, each call under the store's lock *)

\* Mutant: the entries of an algorithm are flushed and stay counted.
NelemAfterFlushStale(n) == n

\* ossl_method_cache_flush_alg: n entries less those the flush removes.
NelemAfterFlush(n) == n - Cardinality(cache)

FlushCache == cache' = {} /\ cache_nelem' = NelemAfterFlush(cache_nelem)

\* put_evp_method_in_store: ossl_method_store_add flushes the cache and adds
\* the new method m of p, with a reference of its own, unless p has one
\* stored; ossl_method_construct_this then drops the constructor's reference.
StoreAdd(p, m) ==
  /\ FlushCache
  /\ impls' = IF Stored(p) THEN impls ELSE Append(impls, [prov |-> p, method |-> m])
  /\ ref' = [Dropped(ref, cache) EXCEPT ![m] = IF Stored(p) THEN 0 ELSE 1]
  /\ UNCHANGED cache_need_flush

\* ossl_method_store_remove_all_provided: the cache is flushed only if p had
\* something stored.  StoreAdd stores one method of a provider, so the loop
\* that deletes what p has stored finds one at most.
RemoveAllProvided(p) ==
  LET k == CHOOSE k \in DOMAIN impls : impls[k].prov = p
  IN  /\ IF Stored(p)
           THEN /\ impls' = RemoveAt(impls, k)
                /\ ref' = Dropped([ref EXCEPT ![impls[k].method] = @ - 1], cache)
                /\ FlushCache
           ELSE UNCHANGED <<impls, ref, cache, cache_nelem>>
      /\ UNCHANGED cache_need_flush

\* Mutant: the entry that was replaced keeps its reference.
ReplacedKept(c, e) == {}

\* The entry lh_QUERY_insert replaces, whose reference impl_cache_free drops.
Replaced(c, e) == {o \in c : o.query = e.query /\ o.prov = e.prov}

\* ossl_method_store_cache_set of the entry e.  A flush that is due keeps a
\* random part of the cache.
CacheSet(e) ==
  \E kept \in IF cache_need_flush THEN SUBSET cache ELSE {cache} :
    LET old == {o \in kept : o.query = e.query /\ o.prov = e.prov}
        r   == Dropped(ref, cache \ kept)
        n   == IF cache_need_flush THEN Cardinality(kept) ELSE cache_nelem
    IN  /\ UNCHANGED impls
        /\ \/ /\ MayFail
              /\ cache' = kept /\ ref' = r
              /\ cache_nelem' = n /\ cache_need_flush' = FALSE
           \/ /\ cache' = (kept \ old) \cup {e}
              /\ ref' = [Dropped(r, Replaced(kept, e)) EXCEPT ![e.method] = @ + 1]
              /\ cache_nelem' = IF old = {} THEN n + 1 ELSE n
              /\ cache_need_flush' = (old = {} /\ n + 1 >= Threshold)

-----------------------------------------------------------------------------
(* inner_evp_generic_fetch in thread t, without a provider given *)

\* ossl_method_store_cache_get: any provider's entry for the query will do.
CacheGet(t) ==
  /\ pc[t] = "idle"
  /\ \E q \in Queries :
       /\ query' = [query EXCEPT ![t] = q]
       /\ \/ /\ \E e \in cache :
                  /\ e.query = q
                  /\ method' = [method EXCEPT ![t] = [prov |-> e.prov, method |-> e.method]]
                  /\ ref' = [ref EXCEPT ![e.method] = @ + 1]
             /\ Goto(t, "held")
          \/ /\ \A e \in cache : e.query # q
             /\ Goto(t, "copy")
             /\ UNCHANGED <<method, ref>>
  /\ UNCHANGED <<provs, operation_bits, impls, cache, cache_nelem, cache_need_flush,
                 biglock, walk, loads, spoiled>>

\* Mutant: the active providers are not pinned.
PinnedCountSame(p) == activatecnt[p]

\* The activation count of an active provider once pinned.
PinnedCount(p) == activatecnt[p] + 1

\* ossl_provider_doall_activated copies the list of providers, or gives up.
CopyProviders(t) ==
  /\ pc[t] = "copy"
  /\ \/ todo' = [todo EXCEPT ![t] = Providers] /\ Goto(t, "pin")
     \/ MayFail /\ Goto(t, "map") /\ UNCHANGED todo
  /\ UNCHANGED <<provs, operation_bits, store, biglock, query, method, pinned, last, loads, spoiled>>

\* It pins those that are active, each under the lock of its own flag, while
\* other threads load and unload.
Pin(t) ==
  /\ pc[t] = "pin"
  /\ \E p \in todo[t] :
       /\ todo' = [todo EXCEPT ![t] = @ \ {p}]
       /\ IF flag_activated[p]
            THEN /\ activatecnt' = [activatecnt EXCEPT ![p] = PinnedCount(p)]
                 /\ pinned' = [pinned EXCEPT ![t] = @ \cup {p}]
            ELSE UNCHANGED <<activatecnt, pinned>>
  /\ UNCHANGED <<flag_activated, operation_bits, store, biglock, pc, query, method, last, loads, spoiled>>

\* Then it goes through the ones it pinned.
GoThrough(t) ==
  /\ pc[t] = "pin" /\ todo[t] = {}
  /\ todo' = [todo EXCEPT ![t] = pinned[t]]
  /\ Goto(t, "map")
  /\ UNCHANGED <<provs, operation_bits, store, biglock, query, method, pinned, last, loads, spoiled>>

\* algorithm_do_map reserves the store and tests the operation bit.
Reserve(t) ==
  /\ pc[t] = "map" /\ biglock = None
  /\ \E p \in todo[t] :
       /\ todo' = [todo EXCEPT ![t] = @ \ {p}]
       /\ IF p \in operation_bits THEN UNCHANGED <<biglock, pc>>
          ELSE biglock' = [thread |-> t, prov |-> p] /\ Goto(t, "construct")
  /\ UNCHANGED <<provs, operation_bits, store, query, method, pinned, last, loads, spoiled>>

\* ossl_method_store_add that fails once the cache is flushed.
StoreAddFails == FlushCache /\ ref' = Dropped(ref, cache) /\ UNCHANGED <<impls, cache_need_flush>>

\* ossl_method_construct_this
Construct(t) ==
  /\ pc[t] = "construct"
  /\ \/ /\ MayFail /\ (UNCHANGED store \/ StoreAddFails)
        /\ spoiled' = spoiled \cup {biglock.prov}
     \/ /\ \E m \in Methods : ref[m] = 0 /\ StoreAdd(biglock.prov, m)
        /\ UNCHANGED spoiled
  /\ Goto(t, "post")
  /\ UNCHANGED <<provs, operation_bits, biglock, query, method, walk, loads>>

\* The operation bit is set, whether or not the method was stored, and the
\* store is released.  If there is no memory for the bit, the providers that
\* are left are not asked.
Unreserve(t) ==
  /\ pc[t] = "post"
  /\ \/ operation_bits' = operation_bits \cup {biglock.prov} /\ UNCHANGED todo
     \/ MayFail /\ todo' = [todo EXCEPT ![t] = {}] /\ UNCHANGED operation_bits
  /\ biglock' = None
  /\ Goto(t, "map")
  /\ UNCHANGED <<provs, store, query, method, pinned, last, loads, spoiled>>

\* The end of ossl_provider_doall_activated: the count of a provider goes down
\* without the flag's lock; if it was the last one it goes up again, for a full
\* deactivation.
Unpin(t) ==
  /\ pc[t] = "map" /\ todo[t] = {}
  /\ \/ \E p \in pinned[t] :
          /\ activatecnt' = [activatecnt EXCEPT ![p] = @ - 1]
          /\ pinned' = [pinned EXCEPT ![t] = @ \ {p}]
          /\ IF activatecnt[p] - 1 < 1
               THEN last' = [last EXCEPT ![t] = p] /\ Goto(t, "up")
               ELSE UNCHANGED <<pc, last>>
     \/ /\ pinned[t] = {}
        /\ Goto(t, "fetch")
        /\ UNCHANGED <<activatecnt, pinned, last>>
  /\ UNCHANGED <<flag_activated, operation_bits, store, biglock, query, method, todo, loads, spoiled>>

UpAgain(t) ==
  /\ pc[t] = "up"
  /\ activatecnt' = [activatecnt EXCEPT ![last[t]] = @ + 1]
  /\ Goto(t, "deactivate")
  /\ UNCHANGED <<flag_activated, operation_bits, store, biglock, query, method, walk, loads, spoiled>>

\* provider_deactivate, under the locks of the provider store and the flag.
Deactivated(p) ==
  /\ activatecnt' = [activatecnt EXCEPT ![p] = @ - 1]
  /\ flag_activated' = [flag_activated EXCEPT ![p] = @ /\ activatecnt[p] - 1 >= 1]

\* provider_deactivate alone: what the provider has stored stays.
FullyDeactivate(t) ==
  /\ pc[t] = "deactivate"
  /\ Deactivated(last[t])
  /\ last' = [last EXCEPT ![t] = None]
  /\ Goto(t, "map")
  /\ UNCHANGED <<operation_bits, store, biglock, query, method, todo, pinned, loads, spoiled>>

\* The providers whose methods a fetch takes: a query that cannot be parsed
\* is left out, one that cannot be merged with the defaults matches nothing.
Wanted(q) == {Matches[q]} \cup (IF MayFail THEN {Providers, {}} ELSE {})

\* ossl_method_store_fetch: of the implementations that match, the first or,
\* if the query has optional properties, any one that meets most of them.
StoreFetch(t) ==
  /\ pc[t] = "fetch"
  /\ \E wanted \in Wanted(query[t]) :
       \/ /\ \E k \in DOMAIN impls :
               /\ impls[k].prov \in wanted
               /\ method' = [method EXCEPT ![t] = impls[k]]
               /\ ref' = [ref EXCEPT ![impls[k].method] = @ + 1]
          /\ Goto(t, "set")
          /\ UNCHANGED query
       \/ /\ \A k \in DOMAIN impls : impls[k].prov \notin wanted
          /\ query' = [query EXCEPT ![t] = None]
          /\ Goto(t, "idle")
          /\ UNCHANGED <<method, ref>>
  /\ UNCHANGED <<provs, operation_bits, impls, cache, cache_nelem, cache_need_flush,
                 biglock, walk, loads, spoiled>>

\* The method found is put into the cache, under the lock taken anew.
FillCache(t) ==
  /\ pc[t] = "set"
  /\ CacheSet([query |-> query[t], prov |-> method[t].prov, method |-> method[t].method])
  /\ Goto(t, "held")
  /\ UNCHANGED <<provs, operation_bits, biglock, query, method, walk, loads, spoiled>>

\* EVP_MD_free
Release(t) ==
  /\ pc[t] = "held"
  /\ ref' = [ref EXCEPT ![method[t].method] = @ - 1]
  /\ method' = [method EXCEPT ![t] = None] /\ query' = [query EXCEPT ![t] = None]
  /\ Goto(t, "idle")
  /\ UNCHANGED <<provs, operation_bits, impls, cache, cache_nelem, cache_need_flush,
                 biglock, walk, loads, spoiled>>

-----------------------------------------------------------------------------
(* OSSL_PROVIDER_load and OSSL_PROVIDER_unload in thread u *)

LoaderGoes(u, label, p) ==
  loader' = [loader EXCEPT ![u] = label] /\ loading' = [loading EXCEPT ![u] = p]

\* ossl_provider_activate: provider_activate, and a flush if it was the first.
Load(u) ==
  /\ loader[u] = "idle"
  /\ \E p \in Providers :
       /\ activatecnt' = [activatecnt EXCEPT ![p] = @ + 1]
       /\ flag_activated' = [flag_activated EXCEPT ![p] = TRUE]
       /\ LoaderGoes(u, IF activatecnt[p] = 0 THEN "flush" ELSE "loaded", p)
       /\ spoiled' = IF \E v \in Loaders : loading[v] = p /\ loader[v] \in {"clear", "remove"}
                       THEN spoiled \cup {p} ELSE spoiled
  /\ UNCHANGED <<operation_bits, store, biglock, pc, query, method, walk>>

\* ossl_method_store_cache_flush_all
FlushAll(u) ==
  /\ loader[u] = "flush"
  /\ cache' = {} /\ cache_nelem' = 0 /\ ref' = Dropped(ref, cache)
  /\ LoaderGoes(u, "loaded", loading[u])
  /\ UNCHANGED <<provs, operation_bits, impls, cache_need_flush, biglock, pc, query, method, walk, spoiled>>

\* ossl_provider_deactivate: what is stored is removed if the count is zero.
Unload(u) ==
  LET p == loading[u]
  IN  /\ loader[u] = "loaded"
      /\ Deactivated(p)
      /\ IF activatecnt[p] - 1 = 0 THEN LoaderGoes(u, "clear", p)
         ELSE LoaderGoes(u, "idle", None)
      /\ UNCHANGED <<operation_bits, store, biglock, pc, query, method, walk, spoiled>>

\* Mutant: the operation bits survive the removal of the methods.
BitsClearedKept(p) == operation_bits

\* provider_remove_store_methods first frees the operation bits, ...
BitsCleared(p) == operation_bits \ {p}

ClearBits(u) ==
  /\ loader[u] = "clear"
  /\ operation_bits' = BitsCleared(loading[u])
  /\ LoaderGoes(u, "remove", loading[u])
  /\ UNCHANGED <<provs, store, biglock, pc, query, method, walk, spoiled>>

\* ... and then, under another lock, removes the methods.
RemoveMethods(u) ==
  /\ loader[u] = "remove"
  /\ RemoveAllProvided(loading[u])
  /\ LoaderGoes(u, "idle", None)
  /\ UNCHANGED <<provs, operation_bits, biglock, pc, query, method, walk, spoiled>>

Next ==
  \/ \E t \in Fetchers :
       \/ CacheGet(t) \/ CopyProviders(t) \/ Pin(t) \/ GoThrough(t)
       \/ Reserve(t) \/ Construct(t) \/ Unreserve(t)
       \/ Unpin(t) \/ UpAgain(t) \/ FullyDeactivate(t)
       \/ StoreFetch(t) \/ FillCache(t) \/ Release(t)
  \/ \E u \in Loaders :
       Load(u) \/ FlushAll(u) \/ Unload(u) \/ ClearBits(u) \/ RemoveMethods(u)

Spec == Init /\ [][Next]_vars

-----------------------------------------------------------------------------
(* Properties *)

\* Every method object has as many references as the store, the query cache and
\* the fetching threads hold: none is leaked when a cached query is replaced,
\* flushed or loses the race with an unload, and none is freed too early.
MethodRefsExact ==
  \A m \in Methods :
    ref[m] = Cardinality({k \in DOMAIN impls : impls[k].method = m})
             + Cardinality({e \in cache : e.method = m})
             + Cardinality({t \in Fetchers : method[t] # None /\ method[t].method = m})

\* The store counts its cached queries exactly, whichever of the four kinds of
\* flush and of replacement ran: the count decides when to flush, and an
\* unsigned count that is too small would wrap at the next flush.
CacheCounted == cache_nelem = Cardinality(cache)

\* A provider that a thread has loaded, or that a fetch is going through, stays
\* activated whatever the other threads load and unload: the count that a
\* finished fetch takes down without a lock is always put right.
InUseStaysActive ==
  \A p \in Providers :
    /\ activatecnt[p] = Cardinality({u \in Loaders : loader[u] \in {"flush", "loaded"} /\ loading[u] = p})
                        + Cardinality({t \in Fetchers : p \in pinned[t]})
                        + Cardinality({t \in Fetchers : pc[t] = "deactivate" /\ last[t] = p})
    /\ (\E u \in Loaders : loader[u] \in {"flush", "loaded"} /\ loading[u] = p)
         \/ (\E t \in Fetchers : p \in pinned[t])
       => flag_activated[p]

\* The operation bit of a provider tells that its methods have been constructed
\* and can be found in the store.  It is wrong only after a construction failed,
\* or after a thread loaded the provider again before another one's unload had
\* cleared the bits and removed the methods: that unload takes away what was
\* constructed since.
ConstructedMeansStored == \A p \in operation_bits \ spoiled : Stored(p)
=============================================================================
