------------------------------ MODULE EvpDigest ------------------------------
(***************************************************************************)
(* The digest contexts and digest methods compute_hash works with          *)
(* (crypto/evp/digest.c): a context holds a reference to the method it     *)
(* uses and owns the provider's context of the running digest; the method  *)
(* is freed with its last reference.  Any allocation, fetch or call of the *)
(* provider may fail.  The provider is the one of SHA-3 and SHAKE.         *)
(* Engines, the methods without a provider and signature contexts are left *)
(* out.                                                                    *)
(***************************************************************************)
EXTENDS Integers, Sequences, FiniteSets

CONSTANTS
  Ctxs,       \* EVP_MD_CTX pointers of the client
  Mds,        \* provided EVP_MD objects
  Static,     \* an EVP_MD such as EVP_sha3_512() without a provider
  Implicit,   \* the method an implicit fetch for Static finds
  Algs,       \* provider contexts
  Chunks,     \* pieces of data
  None,       \* NULL
  Garbled,    \* output that is the digest of no data
  MaxData,    \* bound: pieces given to one digest
  MaxRefs     \* bound: references the client holds to one method

\* struct evp_md_ctx_st
CtxRecords == [digest : Mds \cup {None}, fetched : Mds \cup {None}, algctx : Algs \cup {None},
               finalised : BOOLEAN]

ASSUME EvpDigestAssumption ==
  /\ Implicit \in Mds /\ Static \notin Mds /\ None \notin Mds \cup Algs \cup {Static}
  /\ IsFiniteSet(Ctxs) /\ None \notin CtxRecords /\ Garbled # <<>>
  /\ MaxData \in Nat /\ MaxRefs \in Nat

VARIABLES
  evp,     \* the library's objects: contexts, reference counts, provider
           \* contexts, and whether a method was called that is freed
  store,   \* the methods the method store holds a reference to
  client,  \* how many references the client holds to each method
  ret, md, \* what the last call returned, and the digest it wrote if any
  \* history variable
  fed      \* what each context has accepted since it was set up, and whether
           \* some of it came after output was taken; None if its last set up
           \* failed

vars == <<evp, store, client, ret, md, fed>>

Unused == [digest |-> None, fetched |-> None, algctx |-> None, finalised |-> FALSE]
Freed == [state |-> "freed", data |-> <<>>]
Opened == [state |-> "open", data |-> <<>>]
Nothing == [data |-> <<>>, late |-> FALSE]

Init ==
  /\ evp = [ctx |-> [c \in Ctxs |-> None], ref |-> [m \in Mds |-> 0],
            alg |-> [a \in Algs |-> Freed], fault |-> FALSE]
  /\ store = {} /\ client = [m \in Mds |-> 0]
  /\ ret = 0 /\ md = None
  /\ fed = [c \in Ctxs |-> None]

-----------------------------------------------------------------------------
(* Helpers on the library's state s *)

\* Whether calling a method of context c is a use after free.
Dead(s, c) == s.ref[s.ctx[c].digest] = 0

\* evp_md_ctx_free_algctx
FreeAlgctx(s, c) ==
  LET a == s.ctx[c].algctx
  IN  IF a = None THEN s
      ELSE [s EXCEPT !.alg[a] = Freed, !.ctx[c].algctx = None,
                     !.fault = @ \/ Dead(s, c)]

\* EVP_MD_free(ctx->fetched_digest)
FreeFetched(s, c) ==
  LET m == s.ctx[c].fetched
  IN  IF m = None THEN s
      ELSE [s EXCEPT !.ref[m] = @ - 1, !.ctx[c].fetched = None]

\* Mutant: the method is released before the provider's context.
ClearDigestMethodFirst(s, c) == FreeAlgctx(FreeFetched(s, c), c)

\* evp_md_ctx_clear_digest
ClearDigest(s, c) == FreeFetched(FreeAlgctx(s, c), c)

\* EVP_MD_CTX_reset
Reset(s, c) == [ClearDigest(s, c) EXCEPT !.ctx[c] = Unused]

\* The context takes over a reference to m, or keeps the one it has.
Fetched(s, c, m) == [FreeFetched(s, c) EXCEPT !.ctx[c].fetched = m]

UpRef(s, m) == [s EXCEPT !.ref[m] = @ + 1]

\* ossl_method_store: the stored method, or one constructed and stored.
StoreFetch(s, m) == IF m \in store THEN UpRef(s, m) ELSE [s EXCEPT !.ref[m] = 2]
CanFetch(s, m) == m \in store \/ s.ref[m] = 0

FreeAlgs(s) == {a \in Algs : s.alg[a] = Freed}

Live(c) == evp.ctx[c] # None

-----------------------------------------------------------------------------
(* Methods: EVP_MD_fetch, EVP_MD_up_ref, EVP_MD_free and a store flush *)

Fetch(m) ==
  /\ client[m] < MaxRefs /\ CanFetch(evp, m)
  /\ evp' = StoreFetch(evp, m)
  /\ store' = store \cup {m}
  /\ client' = [client EXCEPT ![m] = @ + 1]
  /\ md' = None /\ UNCHANGED <<ret, fed>>

MdUpRef(m) ==
  /\ client[m] \in 1 .. MaxRefs - 1
  /\ evp' = UpRef(evp, m)
  /\ client' = [client EXCEPT ![m] = @ + 1]
  /\ ret' = 1
  /\ md' = None /\ UNCHANGED <<store, fed>>

MdFree(m) ==
  /\ client[m] > 0
  /\ evp' = [evp EXCEPT !.ref[m] = @ - 1]
  /\ client' = [client EXCEPT ![m] = @ - 1]
  /\ md' = None /\ UNCHANGED <<store, ret, fed>>

Flush(m) ==
  /\ m \in store
  /\ evp' = [evp EXCEPT !.ref[m] = @ - 1]
  /\ store' = store \ {m}
  /\ md' = None /\ UNCHANGED <<client, ret, fed>>

-----------------------------------------------------------------------------
(* Contexts *)

CtxNew(c) ==
  /\ ~Live(c)
  /\ \E new \in {None, Unused} : evp' = [evp EXCEPT !.ctx[c] = new]
  /\ md' = None /\ UNCHANGED <<store, client, ret, fed>>

CtxFree(c) ==
  /\ Live(c)
  /\ evp' = [Reset(evp, c) EXCEPT !.ctx[c] = None]
  /\ fed' = [fed EXCEPT ![c] = None]
  /\ md' = None /\ UNCHANGED <<store, client, ret>>

CtxReset(c) ==
  /\ Live(c)
  /\ evp' = Reset(evp, c)
  /\ fed' = [fed EXCEPT ![c] = None]
  /\ ret' = 1
  /\ md' = None /\ UNCHANGED <<store, client>>

\* A call leaves the library in state s and returns r; the context c has
\* accepted the data new, or is not set up.
SetUp(c, s, r, new) ==
  /\ evp' = s
  /\ ret' = r
  /\ fed' = [fed EXCEPT ![c] = new]
  /\ md' = None /\ UNCHANGED client

\* Mutant: a provider context used before keeps its data.
DinitKeepingData(x) == [x EXCEPT !.state = "open"]

\* What a successful dinit makes of a provider context, new or used before.
Dinit(x) == Opened

\* The context c has the provider context b, in the state x.
Give(s, c, b, x) == [s EXCEPT !.alg[b] = x, !.ctx[c].algctx = b]

\* The end of evp_md_init_internal: s has the reference to the method m, whose
\* newctx and dinit are called; each of them may fail.
UseMethod(c, s, m) ==
  LET t == [s EXCEPT !.ctx[c].digest = m, !.fault = @ \/ s.ref[m] = 0]
      a == t.ctx[c].algctx
  IN  \/ a = None /\ SetUp(c, t, 0, None)
      \/ \E b \in IF a = None THEN FreeAlgs(t) ELSE {a} :
           LET x == IF a = None THEN Opened ELSE t.alg[a]
           IN  \/ SetUp(c, Give(t, c, b, Dinit(x)), 1, Nothing)
               \/ SetUp(c, Give(t, c, b, x), 0, None)

\* Mutant: the context takes no reference of its own.
AttachBorrowed(s, c, m) == Fetched(s, c, m)

\* The reference to m is taken before the old one is released.
Attach(s, c, m) ==
  IF s.ctx[c].fetched = m THEN s ELSE Fetched(UpRef(s, m), c, m)

\* evp_md_init_internal on the state s0; type is None to use the same method
\* again.
InitInternal(c, s0, type) ==
  LET t == IF type = None THEN s0.ctx[c].digest ELSE type
      s == [s0 EXCEPT !.ctx[c].finalised = FALSE]
      r == IF s.ctx[c].digest = t THEN s ELSE FreeAlgctx(s, c)
  IN  \/ t = None /\ SetUp(c, s, 0, None) /\ UNCHANGED store
      \/ t = Static /\ SetUp(c, r, 0, None) /\ UNCHANGED store
      \/ /\ t = Static /\ CanFetch(r, Implicit)
         /\ store' = store \cup {Implicit}
         /\ UseMethod(c, Fetched(StoreFetch(r, Implicit), c, Implicit), Implicit)
      \/ t \in Mds /\ UseMethod(c, Attach(r, c, t), t) /\ UNCHANGED store

Types == {None, Static} \cup {m \in Mds : client[m] > 0}

DigestInitEx(c, type) == Live(c) /\ InitInternal(c, evp, type)
DigestInit(c, type) == Live(c) /\ InitInternal(c, Reset(evp, c), type)

\* A client goes on with a context that it never set up, or whose last set up
\* succeeded.
MayUse(c) == Live(c) /\ (fed[c] # None \/ evp.ctx[c].digest = None)

AlgOf(c) == evp.alg[evp.ctx[c].algctx]

\* dupdate of the provider on x.  Once output was taken it absorbs nothing, and
\* may write over output that is left over in the buffer, but returns 1.
Dupdate(x, d) ==
  IF x.state = "open" THEN {[x EXCEPT !.data = Append(@, d)]}
  ELSE {x, [x EXCEPT !.data = Garbled]}

\* EVP_DigestUpdate; d is None for a count of 0.
DigestUpdate(c, d) ==
  /\ MayUse(c)
  /\ \/ d = None /\ ret' = 1 /\ UNCHANGED <<evp, fed>>
     \/ /\ d # None /\ (evp.ctx[c].finalised \/ evp.ctx[c].digest = None)
        /\ ret' = 0 /\ UNCHANGED <<evp, fed>>
     \/ /\ d # None /\ ~evp.ctx[c].finalised /\ evp.ctx[c].digest # None
        /\ Len(fed[c].data) < MaxData
        /\ \E x \in Dupdate(AlgOf(c), d) :
             evp' = [evp EXCEPT !.alg[evp.ctx[c].algctx] = x, !.fault = @ \/ Dead(evp, c)]
        /\ fed' = [fed EXCEPT ![c] = [data |-> Append(@.data, d),
                                      late |-> @.late \/ AlgOf(c).state # "open"]]
        /\ ret' = 1
  /\ md' = None /\ UNCHANGED <<store, client>>

\* EVP_DigestFinal_ex: the library after it, and whether it wrote a digest.
\* Without a method or a size, or when finalised before, it changes nothing;
\* once dfinal was called the context is finalised, also if dfinal failed, as
\* it does when output was taken before.
FinalEx(c) ==
  LET called == [evp EXCEPT !.ctx[c].finalised = TRUE, !.fault = @ \/ Dead(evp, c)]
      final == [called EXCEPT !.alg[evp.ctx[c].algctx].state = "final"]
  IN  {[lib |-> evp, ok |-> FALSE]} \cup
      (IF evp.ctx[c].digest = None \/ evp.ctx[c].finalised THEN {}
       ELSE {[lib |-> called, ok |-> FALSE]} \cup
            (IF AlgOf(c).state = "open" THEN {[lib |-> final, ok |-> TRUE]} ELSE {}))

Result(c, ok) ==
  /\ ret' = IF ok THEN 1 ELSE 0
  /\ md' = IF ok THEN AlgOf(c).data ELSE None

DigestFinalEx(c) ==
  /\ MayUse(c)
  /\ \E r \in FinalEx(c) : Result(c, r.ok) /\ evp' = r.lib
  /\ UNCHANGED <<store, client, fed>>

DigestFinal(c) ==
  /\ MayUse(c)
  /\ \E r \in FinalEx(c) : Result(c, r.ok) /\ evp' = Reset(r.lib, c)
  /\ fed' = [fed EXCEPT ![c] = None]
  /\ UNCHANGED <<store, client>>

\* EVP_DigestSqueeze does not look at the finalised flag: the provider refuses
\* after a final.
DigestSqueeze(c) ==
  /\ MayUse(c)
  /\ \/ Result(c, FALSE) /\ UNCHANGED evp
     \/ /\ evp.ctx[c].digest # None /\ AlgOf(c).state # "final"
        /\ Result(c, TRUE)
        /\ evp' = [evp EXCEPT !.alg[evp.ctx[c].algctx].state = "squeeze",
                              !.fault = @ \/ Dead(evp, c)]
  /\ UNCHANGED <<store, client, fed>>

\* Mutant: the copy goes on with the same provider context.
DupctxShared(s, out, in) == {s.ctx[in].algctx}

\* The provider contexts dupctx may return besides NULL.
Dupctx(s, out, in) == FreeAlgs(s)

\* EVP_MD_CTX_copy_ex: out is emptied but keeps its method if in has the same.
\* A method may have no dupctx; a copy onto itself loses the provider context.
CtxCopyEx(out, in) ==
  LET x == evp.ctx[in]
      r == Reset(evp, out)
      s == FreeAlgctx(evp, out)
      t == IF s.ctx[out].fetched = x.fetched THEN s ELSE UpRef(FreeFetched(s, out), x.fetched)
      u == [t EXCEPT !.ctx[out] = [x EXCEPT !.algctx = None]]
  IN  /\ Live(out) /\ Live(in)
      /\ UNCHANGED store
      /\ \/ x.digest = None /\ SetUp(out, [r EXCEPT !.ctx[out] = r.ctx[in]], 1, None)
         \/ x.digest # None /\ SetUp(out, evp, 0, fed[out])
         \/ x.digest # None /\ in = out /\ SetUp(out, s, 1, None)
         \/ x.digest # None /\ in # out /\ x.algctx = None /\ SetUp(out, u, 1, None)
         \/ in # out /\ x.algctx # None /\ SetUp(out, u, 0, None)
         \/ /\ in # out /\ x.algctx # None
            /\ \E a \in Dupctx(u, out, in) :
                 SetUp(out, [u EXCEPT !.ctx[out].algctx = a, !.alg[a] = u.alg[x.algctx],
                                      !.fault = @ \/ Dead(u, in)], 1, fed[in])

Next ==
  \/ \E m \in Mds : Fetch(m) \/ MdUpRef(m) \/ MdFree(m) \/ Flush(m)
  \/ \E c \in Ctxs :
       \/ CtxNew(c) \/ CtxFree(c) \/ CtxReset(c)
       \/ \E type \in Types : DigestInit(c, type) \/ DigestInitEx(c, type)
       \/ \E d \in Chunks \cup {None} : DigestUpdate(c, d)
       \/ DigestFinal(c) \/ DigestFinalEx(c) \/ DigestSqueeze(c)
       \/ \E in \in Ctxs : CtxCopyEx(c, in)

Spec == Init /\ [][Next]_vars

-----------------------------------------------------------------------------
(* Properties *)

\* The count of every method is the number of its holders: the client, the
\* method store and the contexts.  A method lives as long as anyone uses it,
\* whichever of them lets go first, and no longer.
RefsExact ==
  \A m \in Mds :
    evp.ref[m] = client[m] + (IF m \in store THEN 1 ELSE 0)
                 + Cardinality({c \in Ctxs : Live(c) /\ evp.ctx[c].fetched = m})

\* Every provider context in use belongs to exactly one context, copies,
\* failed copies and failed set ups included: none leaks or is shared.
AlgctxOwned ==
  /\ Algs \ FreeAlgs(evp) = {evp.ctx[c].algctx : c \in {d \in Ctxs : Live(d)}} \ {None}
  /\ \A c, d \in Ctxs :
       c # d /\ Live(c) /\ Live(d) /\ evp.ctx[c].algctx # None
         => evp.ctx[c].algctx # evp.ctx[d].algctx

\* No function of a method is called after the method was freed, also where a
\* context holds its last reference and is cleared.
NoUseAfterFree == ~evp.fault

\* A final digest that is returned is the one of exactly the data its context
\* accepted since it was set up, or was set up as a copy: data accepted after
\* output was taken never gets into one.  Neither does it get into the output
\* of a squeeze, which is that digest as long as no such data was accepted.
DigestsWhatWasFed ==
  [][\A c \in Ctxs :
       /\ (DigestFinal(c) \/ DigestFinalEx(c)) /\ ret' = 1 => md' = fed[c].data
       /\ DigestSqueeze(c) /\ ret' = 1 /\ ~fed[c].late => md' = fed[c].data]_vars
=============================================================================
