--------------------------- MODULE EvpDigestProofs ---------------------------
(***************************************************************************)
(* Reference counts, owners and data of digest contexts, for any number of *)
(* contexts, methods and provider contexts.                                *)
(***************************************************************************)
EXTENDS EvpDigest, FiniteSetTheorems, TLAPS

AlgRecords == [state : {"freed", "open", "squeeze", "final"}, data : Seq(Chunks) \cup {Garbled}]

\* What a context that is set up was given.
FedRecords == [data : Seq(Chunks), late : BOOLEAN]

\* States of the library's objects.
Lib == [ctx : [Ctxs -> CtxRecords \cup {None}], ref : [Mds -> Int],
        alg : [Algs -> AlgRecords], fault : BOOLEAN]

-----------------------------------------------------------------------------
(* The invariant, of a state s of the library *)

\* The contexts that hold a reference to m.
Holders(s, m) == {c \in Ctxs : s.ctx[c] # None /\ s.ctx[c].fetched = m}

\* Each count is the number of the contexts that hold m, and of the other
\* references others[m].
Refs(s, others) ==
  \A m \in Mds : s.ref[m] = others[m] + Cardinality(Holders(s, m))

\* The provider contexts in use are those of the contexts, none of them twice.
Owned(s) ==
  /\ \A a \in Algs : s.alg[a] # Freed <=> \E c \in Ctxs : s.ctx[c] # None /\ s.ctx[c].algctx = a
  /\ \A c, d \in Ctxs :
       c # d /\ s.ctx[c] # None /\ s.ctx[d] # None /\ s.ctx[c].algctx # None
         => s.ctx[c].algctx # s.ctx[d].algctx

\* A context uses the method it holds a reference to, and has a provider
\* context only of that method.
Paired(s) ==
  \A c \in Ctxs : s.ctx[c] # None =>
    /\ s.ctx[c].fetched = s.ctx[c].digest
    /\ s.ctx[c].digest = None => s.ctx[c].algctx = None

\* The provider context x runs the digest of the data f, or took some of it when
\* it had given output.
Runs(x, f) ==
  /\ ~f.late => x.data = f.data
  /\ f.late => x.state # "open"

\* A context that counts as set up has a provider context with its data.
FedRight(s, f) ==
  \A c \in Ctxs : f[c] # None =>
    /\ s.ctx[c] # None /\ s.ctx[c].algctx # None
    /\ Runs(s.alg[s.ctx[c].algctx], f[c])

\* References held by the client and the method store.
Others == [m \in Mds |-> client[m] + (IF m \in store THEN 1 ELSE 0)]

\* The inductive invariant.
EInv ==
  /\ evp \in Lib /\ client \in [Mds -> Nat] /\ store \in SUBSET Mds
  /\ fed \in [Ctxs -> FedRecords \cup {None}]
  /\ Refs(evp, Others) /\ Owned(evp) /\ Paired(evp) /\ FedRight(evp, fed)
  /\ ~evp.fault

-----------------------------------------------------------------------------
(* The helpers *)

\* What holds in the middle of a call, with references others[m] held
\* elsewhere.
Mid(s, others) == s \in Lib /\ Refs(s, others) /\ Owned(s) /\ ~s.fault

\* The contexts other than c are as before, with their provider contexts.
Untouched(s, t, c) ==
  \A d \in Ctxs \ {c} :
    /\ t.ctx[d] = s.ctx[d]
    /\ s.ctx[d] # None /\ s.ctx[d].algctx # None =>
         t.alg[s.ctx[d].algctx] = s.alg[s.ctx[d].algctx]

\* Paired, of one context.
PairedAt(s, c) ==
  s.ctx[c] # None =>
    /\ s.ctx[c].fetched = s.ctx[c].digest
    /\ s.ctx[c].digest = None => s.ctx[c].algctx = None

\* The fields of a state of the library.
LEMMA LibFields ==
  ASSUME NEW s \in Lib, NEW c \in Ctxs
  PROVE  /\ s.ctx \in [Ctxs -> CtxRecords \cup {None}] /\ s.ref \in [Mds -> Int]
         /\ s.alg \in [Algs -> AlgRecords] /\ s.fault \in BOOLEAN
         /\ s.ctx[c] # None =>
              /\ s.ctx[c] \in CtxRecords
              /\ s.ctx[c].digest \in Mds \cup {None} /\ s.ctx[c].fetched \in Mds \cup {None}
              /\ s.ctx[c].algctx \in Algs \cup {None} /\ s.ctx[c].finalised \in BOOLEAN
BY DEF Lib, CtxRecords

\* A context holds its method, so the method is not freed.
LEMMA HolderKeepsAlive ==
  ASSUME NEW s \in Lib, NEW others \in [Mds -> Nat], Refs(s, others),
         NEW c \in Ctxs, s.ctx[c] # None, s.ctx[c].fetched \in Mds
  PROVE  s.ref[s.ctx[c].fetched] > 0
<1> DEFINE m == s.ctx[c].fetched
<1>1. Holders(s, m) \in SUBSET Ctxs /\ c \in Holders(s, m)
  BY DEF Holders
<1>2. IsFiniteSet(Holders(s, m))
  BY <1>1, EvpDigestAssumption, FS_Subset
<1>3. Cardinality(Holders(s, m)) \in Nat /\ Cardinality(Holders(s, m)) # 0
  BY <1>1, <1>2, FS_CardinalityType, FS_EmptySet
<1>4. s.ref[m] = others[m] + Cardinality(Holders(s, m))
  BY DEF Refs
<1> QED
  BY <1>3, <1>4

\* The fields evp_md_ctx_free_algctx changes.
LEMMA FreeAlgctxFields ==
  ASSUME NEW s \in Lib, NEW c \in Ctxs, s.ctx[c] # None, s.ctx[c].algctx # None
  PROVE  /\ FreeAlgctx(s, c) \in Lib
         /\ FreeAlgctx(s, c).ctx = [s.ctx EXCEPT ![c].algctx = None]
         /\ FreeAlgctx(s, c).alg = [s.alg EXCEPT ![s.ctx[c].algctx] = Freed]
         /\ FreeAlgctx(s, c).ref = s.ref
         /\ FreeAlgctx(s, c).fault = (s.fault \/ Dead(s, c))
<1> DEFINE a == s.ctx[c].algctx
           t == [s EXCEPT !.alg[a] = Freed, !.ctx[c].algctx = None, !.fault = @ \/ Dead(s, c)]
<1>1. a \in Algs
  BY LibFields
<1>2. Freed \in AlgRecords
  BY DEF Freed, AlgRecords
<1>3. FreeAlgctx(s, c) = t
  BY DEF FreeAlgctx
<1>4. /\ t.ctx = [s.ctx EXCEPT ![c].algctx = None]
      /\ t.alg = [s.alg EXCEPT ![a] = Freed]
      /\ t.ref = s.ref
      /\ t.fault = (s.fault \/ Dead(s, c))
  BY DEF Lib
<1>5. [s.ctx[c] EXCEPT !.algctx = None] \in CtxRecords
  BY LibFields DEF CtxRecords
<1>6. t.ctx \in [Ctxs -> CtxRecords \cup {None}]
  BY <1>4, <1>5, LibFields
<1>7. t.alg \in [Algs -> AlgRecords]
  BY <1>1, <1>2, <1>4, LibFields
<1>8. t \in Lib
  BY <1>6, <1>7 DEF Lib, Dead
<1> QED
  BY <1>3, <1>4, <1>8

\* evp_md_ctx_free_algctx calls a method that is alive, and lets the provider
\* context go with its only owner.
LEMMA FreeAlgctxStep ==
  ASSUME NEW s \in Lib, NEW others \in [Mds -> Nat], Mid(s, others),
         NEW c \in Ctxs, s.ctx[c] # None, PairedAt(s, c)
  PROVE  /\ Mid(FreeAlgctx(s, c), others) /\ Untouched(s, FreeAlgctx(s, c), c)
         /\ FreeAlgctx(s, c).ctx = [s.ctx EXCEPT ![c].algctx = None]
         /\ FreeAlgctx(s, c).ref = s.ref
<1>1. CASE s.ctx[c].algctx = None
  <2>1. FreeAlgctx(s, c) = s
    BY <1>1 DEF FreeAlgctx
  <2>2. [s.ctx[c] EXCEPT !.algctx = None] = s.ctx[c]
    BY <1>1, LibFields DEF CtxRecords
  <2>3. [s.ctx EXCEPT ![c].algctx = None] = s.ctx
    BY <2>2, LibFields
  <2> QED
    BY <2>1, <2>3 DEF Untouched
<1>2. CASE s.ctx[c].algctx # None
  <2> DEFINE a == s.ctx[c].algctx
             x == [s.ctx[c] EXCEPT !.algctx = None]
  <2>1. PICK t \in Lib : t = FreeAlgctx(s, c)
    BY <1>2, FreeAlgctxFields
  <2>2. /\ t.ctx = [s.ctx EXCEPT ![c].algctx = None] /\ t.ref = s.ref
        /\ t.alg = [s.alg EXCEPT ![a] = Freed] /\ t.fault = (s.fault \/ Dead(s, c))
    BY <1>2, <2>1, FreeAlgctxFields
  <2>3. /\ s.ctx[c].digest \in Mds /\ s.ctx[c].fetched = s.ctx[c].digest /\ a \in Algs
        /\ s.ctx \in [Ctxs -> CtxRecords \cup {None}] /\ s.alg \in [Algs -> AlgRecords]
    BY <1>2, LibFields DEF PairedAt
  <2>4. x # None /\ x.algctx = None /\ x.fetched = s.ctx[c].fetched
    <3>1. x \in CtxRecords
      BY LibFields DEF CtxRecords
    <3> QED
      BY <3>1, LibFields, EvpDigestAssumption DEF CtxRecords
  <2>5. t.ctx[c] = x /\ \A d \in Ctxs \ {c} : t.ctx[d] = s.ctx[d]
    BY <2>2, <2>3
  <2> HIDE DEF x
  <2>6. ~t.fault
    <3>1. s.ref[s.ctx[c].digest] > 0
      BY <2>3, HolderKeepsAlive DEF Mid
    <3>2. ~Dead(s, c)
      BY <3>1 DEF Dead
    <3> QED
      BY <2>2, <3>2 DEF Mid
  <2>7. \A m \in Mds : Holders(t, m) = Holders(s, m)
    BY <2>4, <2>5 DEF Holders
  <2>8. Refs(t, others)
    BY <2>2, <2>7 DEF Mid, Refs
  <2>9. t.alg[a] = Freed /\ \A b \in Algs \ {a} : t.alg[b] = s.alg[b]
    BY <2>2, <2>3
  <2>10. \A d \in Ctxs \ {c} : s.ctx[d] # None => s.ctx[d].algctx # a
    BY <1>2 DEF Mid, Owned
  <2>11. Owned(t)
    <3>1. ASSUME NEW b \in Algs
          PROVE  t.alg[b] # Freed <=> \E d \in Ctxs : t.ctx[d] # None /\ t.ctx[d].algctx = b
      <4>1. CASE b = a
        BY <2>4, <2>5, <2>9, <2>10, <4>1, EvpDigestAssumption
      <4>2. CASE b # a
        <5>1. s.alg[b] # Freed <=> \E d \in Ctxs : s.ctx[d] # None /\ s.ctx[d].algctx = b
          BY DEF Mid, Owned
        <5>2. \A d \in Ctxs : t.ctx[d] # None /\ t.ctx[d].algctx = b
                              <=> s.ctx[d] # None /\ s.ctx[d].algctx = b
          BY <2>4, <2>5, <4>2, EvpDigestAssumption
        <5> QED
          BY <2>9, <4>2, <5>1, <5>2
      <4> QED
        BY <4>1, <4>2
    <3>2. ASSUME NEW d \in Ctxs, NEW e \in Ctxs, d # e, t.ctx[d] # None, t.ctx[e] # None,
                 t.ctx[d].algctx # None
          PROVE  t.ctx[d].algctx # t.ctx[e].algctx
      BY <2>4, <2>5, <3>2 DEF Mid, Owned
    <3> QED
      BY <3>1, <3>2 DEF Owned
  <2>12. Untouched(s, t, c)
    <3>1. ASSUME NEW d \in Ctxs \ {c}, s.ctx[d] # None, s.ctx[d].algctx # None
          PROVE  t.alg[s.ctx[d].algctx] = s.alg[s.ctx[d].algctx]
      <4>1. s.ctx[d].algctx \in Algs
        BY <3>1, LibFields
      <4> QED
        BY <2>9, <2>10, <3>1, <4>1
    <3> QED
      BY <2>5, <3>1 DEF Untouched
  <2> QED
    BY <2>1, <2>2, <2>6, <2>8, <2>11, <2>12 DEF Mid
<1> QED
  BY <1>1, <1>2

\* A context that gives up or takes the reference it holds to m.
LEMMA HoldersStep ==
  ASSUME NEW s \in Lib, NEW t \in Lib, NEW c \in Ctxs, NEW m \in Mds,
         \A d \in Ctxs \ {c} : t.ctx[d] = s.ctx[d]
  PROVE  LET holds(x) == x.ctx[c] # None /\ x.ctx[c].fetched = m
         IN  Cardinality(Holders(t, m)) + (IF holds(s) THEN 1 ELSE 0)
               = Cardinality(Holders(s, m)) + (IF holds(t) THEN 1 ELSE 0)
<1> DEFINE holds(x) == x.ctx[c] # None /\ x.ctx[c].fetched = m
           rest == Holders(s, m) \ {c}
<1>1. Holders(s, m) \in SUBSET Ctxs /\ Holders(t, m) \in SUBSET Ctxs
  BY DEF Holders
<1>2. IsFiniteSet(Holders(s, m)) /\ IsFiniteSet(Holders(t, m))
  BY <1>1, EvpDigestAssumption, FS_Subset
<1>3. /\ c \in Holders(s, m) <=> holds(s)
      /\ c \in Holders(t, m) <=> holds(t)
      /\ Holders(t, m) \ {c} = rest
  BY DEF Holders
<1> HIDE DEF holds, rest
<1>4. /\ Cardinality(rest) = IF c \in Holders(s, m) THEN Cardinality(Holders(s, m)) - 1
                              ELSE Cardinality(Holders(s, m))
      /\ Cardinality(rest) = IF c \in Holders(t, m) THEN Cardinality(Holders(t, m)) - 1
                              ELSE Cardinality(Holders(t, m))
  BY <1>2, <1>3, FS_RemoveElement DEF rest
<1>5. Cardinality(Holders(s, m)) \in Nat /\ Cardinality(Holders(t, m)) \in Nat
  BY <1>2, FS_CardinalityType
<1>6. Cardinality(Holders(t, m)) + (IF holds(s) THEN 1 ELSE 0)
        = Cardinality(Holders(s, m)) + (IF holds(t) THEN 1 ELSE 0)
  BY <1>3, <1>4, <1>5
<1> QED
  BY <1>6 DEF holds

\* A state in which all contexts own the same provider contexts as before, and
\* the same ones are freed.
LEMMA OwnedSame ==
  ASSUME NEW s, NEW t, Owned(s),
         \A a \in Algs : t.alg[a] = Freed <=> s.alg[a] = Freed,
         \A d \in Ctxs : /\ t.ctx[d] = None <=> s.ctx[d] = None
                         /\ s.ctx[d] # None => t.ctx[d].algctx = s.ctx[d].algctx
  PROVE  Owned(t)
BY DEF Owned

\* A step that leaves who holds and owns what.
LEMMA SameHold ==
  ASSUME NEW s \in Lib, NEW t \in Lib, NEW others, Mid(s, others), t.ref = s.ref, ~t.fault,
         \A a \in Algs : t.alg[a] = Freed <=> s.alg[a] = Freed,
         \A d \in Ctxs : /\ t.ctx[d] = None <=> s.ctx[d] = None
                         /\ s.ctx[d] # None => /\ t.ctx[d].algctx = s.ctx[d].algctx
                                              /\ t.ctx[d].fetched = s.ctx[d].fetched
  PROVE  Mid(t, others)
<1>1. \A m \in Mds : Holders(t, m) = Holders(s, m)
  BY DEF Holders
<1>2. Refs(t, others)
  BY <1>1 DEF Mid, Refs
<1>3. Owned(t)
  BY OwnedSame DEF Mid
<1> QED
  BY <1>2, <1>3 DEF Mid

\* Another value for a context's record.
LEMMA CtxUpdate ==
  ASSUME NEW s \in Lib, NEW c \in Ctxs, NEW x \in CtxRecords \cup {None}
  PROVE  LET t == [s EXCEPT !.ctx[c] = x]
         IN  /\ t \in Lib /\ t.ctx = [s.ctx EXCEPT ![c] = x]
             /\ t.ref = s.ref /\ t.alg = s.alg /\ t.fault = s.fault
             /\ t.ctx[c] = x /\ \A d \in Ctxs \ {c} : t.ctx[d] = s.ctx[d]
             /\ Untouched(s, t, c)
<1> DEFINE t == [s EXCEPT !.ctx[c] = x]
<1>1. t.ctx = [s.ctx EXCEPT ![c] = x] /\ t.ref = s.ref /\ t.alg = s.alg /\ t.fault = s.fault
  BY DEF Lib
<1>2. t.ctx \in [Ctxs -> CtxRecords \cup {None}]
  BY <1>1, LibFields
<1>3. t \in Lib
  BY <1>2 DEF Lib
<1>4. t.ctx[c] = x /\ \A d \in Ctxs \ {c} : t.ctx[d] = s.ctx[d]
  BY <1>1, LibFields
<1> HIDE DEF t
<1>5. Untouched(s, t, c)
  BY <1>1, <1>4 DEF Untouched
<1>6. /\ t \in Lib /\ t.ctx = [s.ctx EXCEPT ![c] = x]
      /\ t.ref = s.ref /\ t.alg = s.alg /\ t.fault = s.fault
      /\ t.ctx[c] = x /\ \A d \in Ctxs \ {c} : t.ctx[d] = s.ctx[d]
      /\ Untouched(s, t, c)
  BY <1>1, <1>3, <1>4, <1>5
<1> QED
  BY <1>6 DEF t

\* A record with another method held.
LEMMA RecordFetched ==
  ASSUME NEW s \in Lib, NEW c \in Ctxs, s.ctx[c] # None, NEW f \in Mds \cup {None}
  PROVE  LET x == [s.ctx[c] EXCEPT !.fetched = f]
         IN  /\ x \in CtxRecords /\ x # None /\ x.fetched = f
             /\ x.algctx = s.ctx[c].algctx /\ x.digest = s.ctx[c].digest
<1> DEFINE x == [s.ctx[c] EXCEPT !.fetched = f]
<1>1. x \in CtxRecords
  BY LibFields DEF CtxRecords
<1>2. x # None
  BY <1>1, EvpDigestAssumption
<1>3. x.fetched = f /\ x.algctx = s.ctx[c].algctx /\ x.digest = s.ctx[c].digest
  BY LibFields DEF CtxRecords
<1> QED
  BY <1>1, <1>2, <1>3

\* EVP_MD_free(ctx->fetched_digest) gives back the reference the context holds.
LEMMA FreeFetchedStep ==
  ASSUME NEW s \in Lib, NEW others \in [Mds -> Nat], Mid(s, others),
         NEW c \in Ctxs, s.ctx[c] # None
  PROVE  /\ Mid(FreeFetched(s, c), others) /\ Untouched(s, FreeFetched(s, c), c)
         /\ FreeFetched(s, c).ctx = [s.ctx EXCEPT ![c].fetched = None]
         /\ FreeFetched(s, c).alg = s.alg
<1>1. CASE s.ctx[c].fetched = None
  <2>1. FreeFetched(s, c) = s
    BY <1>1 DEF FreeFetched
  <2>2. [s.ctx[c] EXCEPT !.fetched = None] = s.ctx[c]
    BY <1>1, LibFields DEF CtxRecords
  <2>3. [s.ctx EXCEPT ![c].fetched = None] = s.ctx
    BY <2>2, LibFields
  <2> QED
    BY <2>1, <2>3 DEF Untouched
<1>2. CASE s.ctx[c].fetched # None
  <2> DEFINE m == s.ctx[c].fetched
             x == [s.ctx[c] EXCEPT !.fetched = None]
             t == [s EXCEPT !.ref[m] = @ - 1, !.ctx[c].fetched = None]
  <2>1. FreeFetched(s, c) = t
    BY <1>2 DEF FreeFetched
  <2>2. m \in Mds
    BY <1>2, LibFields
  <2>3. /\ t.ctx = [s.ctx EXCEPT ![c].fetched = None] /\ t.alg = s.alg /\ t.fault = s.fault
        /\ t.ref = [s.ref EXCEPT ![m] = @ - 1]
    BY DEF Lib
  <2>4. x \in CtxRecords /\ x # None /\ x.fetched = None /\ x.algctx = s.ctx[c].algctx
    BY RecordFetched
  <2>5. t.ctx[c] = x /\ \A d \in Ctxs \ {c} : t.ctx[d] = s.ctx[d]
    BY <2>3, LibFields
  <2>6. t.ctx \in [Ctxs -> CtxRecords \cup {None}] /\ t.ref \in [Mds -> Int]
    BY <2>2, <2>3, <2>4, LibFields
  <2>7. t \in Lib
    BY <2>6 DEF Lib
  <2> HIDE DEF t, x
  <2>8. ASSUME NEW y \in Mds PROVE t.ref[y] = others[y] + Cardinality(Holders(t, y))
    <3>1. Cardinality(Holders(t, y)) + (IF y = m THEN 1 ELSE 0) = Cardinality(Holders(s, y))
      <4>1. Cardinality(Holders(t, y)) + (IF s.ctx[c] # None /\ s.ctx[c].fetched = y THEN 1 ELSE 0)
              = Cardinality(Holders(s, y)) + (IF t.ctx[c] # None /\ t.ctx[c].fetched = y THEN 1 ELSE 0)
        BY <2>5, <2>7, HoldersStep
      <4>2. ~(t.ctx[c] # None /\ t.ctx[c].fetched = y)
        BY <2>4, <2>5, EvpDigestAssumption
      <4>3. IsFiniteSet(Holders(s, y)) /\ Cardinality(Holders(s, y)) \in Nat
        <5>1. Holders(s, y) \in SUBSET Ctxs
          BY DEF Holders
        <5> QED
          BY <5>1, EvpDigestAssumption, FS_Subset, FS_CardinalityType
      <4> QED
        BY <4>1, <4>2, <4>3
    <3>2. s.ref[y] = others[y] + Cardinality(Holders(s, y)) /\ others[y] \in Nat
      BY DEF Mid, Refs
    <3>3. t.ref[y] = s.ref[y] - (IF y = m THEN 1 ELSE 0)
      BY <2>2, <2>3, LibFields
    <3>4. Cardinality(Holders(t, y)) \in Nat
      <4>1. Holders(t, y) \in SUBSET Ctxs
        BY DEF Holders
      <4> QED
        BY <4>1, EvpDigestAssumption, FS_Subset, FS_CardinalityType
    <3> QED
      BY <3>1, <3>2, <3>3, <3>4
  <2>9. Owned(t)
    BY <2>3, <2>4, <2>5, OwnedSame DEF Mid
  <2>10. Untouched(s, t, c)
    BY <2>3, <2>5 DEF Untouched
  <2> QED
    BY <2>1, <2>3, <2>7, <2>8, <2>9, <2>10 DEF Mid, Refs
<1> QED
  BY <1>1, <1>2

\* Steps that each leave the other contexts alone do so together.
LEMMA UntouchedTrans ==
  ASSUME NEW s, NEW t, NEW u, NEW c, Untouched(s, t, c), Untouched(t, u, c)
  PROVE  Untouched(s, u, c)
<1> SUFFICES ASSUME NEW d \in Ctxs \ {c}
             PROVE  /\ u.ctx[d] = s.ctx[d]
                    /\ s.ctx[d] # None /\ s.ctx[d].algctx # None =>
                         u.alg[s.ctx[d].algctx] = s.alg[s.ctx[d].algctx]
  BY DEF Untouched
<1>1. t.ctx[d] = s.ctx[d] /\ u.ctx[d] = t.ctx[d]
  BY DEF Untouched
<1>2. ASSUME s.ctx[d] # None, s.ctx[d].algctx # None
      PROVE  u.alg[s.ctx[d].algctx] = s.alg[s.ctx[d].algctx]
  <2>1. t.alg[s.ctx[d].algctx] = s.alg[s.ctx[d].algctx]
    BY <1>2 DEF Untouched
  <2>2. u.alg[t.ctx[d].algctx] = t.alg[t.ctx[d].algctx]
    BY <1>1, <1>2 DEF Untouched
  <2> QED
    BY <1>1, <2>1, <2>2
<1> QED
  BY <1>1, <1>2

\* EVP_MD_CTX_reset gives back everything.
LEMMA ResetStep ==
  ASSUME NEW s \in Lib, NEW others \in [Mds -> Nat], Mid(s, others),
         NEW c \in Ctxs, s.ctx[c] # None, PairedAt(s, c)
  PROVE  /\ Mid(Reset(s, c), others) /\ Untouched(s, Reset(s, c), c)
         /\ Reset(s, c).ctx = [s.ctx EXCEPT ![c] = Unused]
<1>1. PICK t \in Lib : t = FreeAlgctx(s, c)
  BY FreeAlgctxStep DEF Mid
<1>2. Mid(t, others) /\ Untouched(s, t, c) /\ t.ctx = [s.ctx EXCEPT ![c].algctx = None]
  BY <1>1, FreeAlgctxStep
<1>3. s.ctx[c] \in CtxRecords /\ s.ctx \in [Ctxs -> CtxRecords \cup {None}]
  BY LibFields
<1> DEFINE x == [s.ctx[c] EXCEPT !.algctx = None]
<1>4. x \in CtxRecords /\ x.algctx = None /\ t.ctx[c] = x
  BY <1>2, <1>3 DEF CtxRecords
<1>5. x # None
  BY <1>4, EvpDigestAssumption
<1> HIDE DEF x
<1>6. PICK u \in Lib : u = FreeFetched(t, c)
  BY <1>2, <1>4, <1>5, FreeFetchedStep DEF Mid
<1>7. /\ Mid(u, others) /\ Untouched(t, u, c) /\ u.ctx = [t.ctx EXCEPT ![c].fetched = None]
  BY <1>2, <1>4, <1>5, <1>6, FreeFetchedStep, ZenonT(60)
<1> DEFINE y == [t.ctx[c] EXCEPT !.fetched = None]
<1>8. y # None /\ y.fetched = None /\ y.algctx = None
  BY <1>4, <1>5, RecordFetched
<1>9. u.ctx[c] = y
  BY <1>7, LibFields
<1> HIDE DEF y
<1>10. Unused \in CtxRecords /\ Unused.fetched = None /\ Unused.algctx = None
  BY DEF Unused, CtxRecords
<1>11. Unused # None
  BY <1>10, EvpDigestAssumption
<1>12. PICK v \in Lib : v = [u EXCEPT !.ctx[c] = Unused]
  BY <1>10, CtxUpdate
<1>13. /\ v.ctx = [u.ctx EXCEPT ![c] = Unused] /\ v.ref = u.ref /\ v.alg = u.alg
       /\ v.fault = u.fault /\ v.ctx[c] = Unused /\ \A d \in Ctxs \ {c} : v.ctx[d] = u.ctx[d]
       /\ Untouched(u, v, c)
  BY <1>10, <1>12, CtxUpdate
<1>14. Mid(v, others)
  BY <1>7, <1>8, <1>9, <1>10, <1>11, <1>13, SameHold DEF Mid
<1>15. Untouched(s, v, c)
  <2>1. Untouched(s, u, c)
    BY <1>2, <1>7, UntouchedTrans
  <2> QED
    BY <1>13, <2>1, UntouchedTrans
<1>16. v.ctx = [s.ctx EXCEPT ![c] = Unused]
  BY <1>2, <1>3, <1>7, <1>13
<1> QED
  BY <1>1, <1>6, <1>12, <1>14, <1>15, <1>16 DEF Reset, ClearDigest

\* How many contexts hold a method is a number.
LEMMA HoldersCount ==
  ASSUME NEW s, NEW m
  PROVE  Cardinality(Holders(s, m)) \in Nat
<1>1. Holders(s, m) \in SUBSET Ctxs
  BY DEF Holders
<1> QED
  BY <1>1, EvpDigestAssumption, FS_Subset, FS_CardinalityType

\* Another count for a method that as many more hold besides the contexts.
LEMMA RefStep ==
  ASSUME NEW s \in Lib, NEW others \in [Mds -> Nat], Mid(s, others),
         NEW m \in Mds, NEW r \in Int, NEW new \in [Mds -> Nat],
         \A y \in Mds \ {m} : new[y] = others[y],
         r - s.ref[m] = new[m] - others[m]
  PROVE  LET t == [s EXCEPT !.ref[m] = r]
         IN  /\ Mid(t, new) /\ t.ctx = s.ctx /\ t.alg = s.alg
             /\ \A c \in Ctxs : Untouched(s, t, c)
<1> DEFINE t == [s EXCEPT !.ref[m] = r]
<1>1. t.ctx = s.ctx /\ t.ref = [s.ref EXCEPT ![m] = r] /\ t.alg = s.alg /\ t.fault = s.fault
  BY DEF Lib
<1>2. s.ref \in [Mds -> Int]
  BY DEF Lib
<1>3. t.ref \in [Mds -> Int] /\ t.ref[m] = r /\ \A y \in Mds \ {m} : t.ref[y] = s.ref[y]
  BY <1>1, <1>2
<1>4. t \in Lib
  BY <1>3 DEF Lib
<1> HIDE DEF t
<1>5. \A y \in Mds : Holders(t, y) = Holders(s, y)
  BY <1>1 DEF Holders
<1>6. ASSUME NEW y \in Mds PROVE t.ref[y] = new[y] + Cardinality(Holders(t, y))
  <2>1. s.ref[y] = others[y] + Cardinality(Holders(s, y)) /\ others[y] \in Nat /\ new[y] \in Nat
    BY DEF Mid, Refs
  <2>2. Cardinality(Holders(s, y)) \in Nat
    BY HoldersCount
  <2>3. t.ref[y] = s.ref[y] + new[y] - others[y]
    <3>1. CASE y = m
      BY <1>2, <1>3, <2>1, <3>1
    <3>2. CASE y # m
      BY <1>2, <1>3, <2>1, <3>2
    <3> QED
      BY <3>1, <3>2
  <2> QED
    BY <1>5, <2>1, <2>2, <2>3
<1>7. Owned(t)
  BY <1>1, OwnedSame DEF Mid
<1>8. \A c \in Ctxs : Untouched(s, t, c)
  BY <1>1 DEF Untouched
<1>9. Mid(t, new) /\ t.ctx = s.ctx /\ t.alg = s.alg /\ \A c \in Ctxs : Untouched(s, t, c)
  BY <1>1, <1>4, <1>6, <1>7, <1>8 DEF Mid, Refs
<1> QED
  BY <1>9 DEF t

\* One more reference to m.
Plus(others, m) == [others EXCEPT ![m] = @ + 1]

\* The reference taken before a context holds it.
LEMMA UpRefStep ==
  ASSUME NEW s \in Lib, NEW others \in [Mds -> Nat], Mid(s, others), NEW m \in Mds
  PROVE  /\ Mid(UpRef(s, m), Plus(others, m))
         /\ UpRef(s, m).ctx = s.ctx /\ UpRef(s, m).alg = s.alg
         /\ \A c \in Ctxs : Untouched(s, UpRef(s, m), c)
<1> DEFINE new == Plus(others, m)
           r == s.ref[m] + 1
<1>1. s.ref[m] \in Int
  BY DEF Lib
<1>2. r \in Int /\ r - s.ref[m] = 1 /\ new \in [Mds -> Nat] /\ new[m] - others[m] = 1
      /\ \A y \in Mds \ {m} : new[y] = others[y]
  BY <1>1 DEF Plus
<1>3. UpRef(s, m) = [s EXCEPT !.ref[m] = r]
  BY DEF UpRef
<1> HIDE DEF new, r
<1>4. LET t == [s EXCEPT !.ref[m] = r]
      IN  /\ Mid(t, new) /\ t.ctx = s.ctx /\ t.alg = s.alg
          /\ \A c \in Ctxs : Untouched(s, t, c)
  BY <1>2, RefStep
<1> QED
  BY <1>3, <1>4 DEF new

\* A reference that was taken becomes the one a context holds.
LEMMA HoldStep ==
  ASSUME NEW u \in Lib, NEW v \in Lib, NEW others \in [Mds -> Nat], NEW m \in Mds,
         Mid(u, Plus(others, m)), NEW c \in Ctxs,
         v.ref = u.ref, v.alg = u.alg, ~v.fault, Untouched(u, v, c),
         u.ctx[c] # None, u.ctx[c].fetched = None,
         v.ctx[c] # None, v.ctx[c].fetched = m, v.ctx[c].algctx = u.ctx[c].algctx
  PROVE  Mid(v, others)
<1>1. ASSUME NEW y \in Mds PROVE v.ref[y] = others[y] + Cardinality(Holders(v, y))
  <2>1. Cardinality(Holders(v, y)) = Cardinality(Holders(u, y)) + (IF y = m THEN 1 ELSE 0)
    <3>1. Cardinality(Holders(v, y)) + (IF u.ctx[c] # None /\ u.ctx[c].fetched = y THEN 1 ELSE 0)
            = Cardinality(Holders(u, y)) + (IF v.ctx[c] # None /\ v.ctx[c].fetched = y THEN 1 ELSE 0)
      BY HoldersStep DEF Untouched
    <3>2. ~(u.ctx[c] # None /\ u.ctx[c].fetched = y)
      BY EvpDigestAssumption
    <3>3. (v.ctx[c] # None /\ v.ctx[c].fetched = y) <=> y = m
      OBVIOUS
    <3>4. Cardinality(Holders(v, y)) \in Nat
      BY HoldersCount
    <3> QED
      BY <3>1, <3>2, <3>3, <3>4
  <2>2. u.ref[y] = Plus(others, m)[y] + Cardinality(Holders(u, y))
    BY DEF Mid, Refs
  <2>3. /\ Plus(others, m)[y] = others[y] + (IF y = m THEN 1 ELSE 0)
        /\ others[y] \in Nat
    BY DEF Plus
  <2>4. Cardinality(Holders(u, y)) \in Nat
    BY HoldersCount
  <2> QED
    BY <2>1, <2>2, <2>3, <2>4
<1>2. Owned(v)
  BY OwnedSame DEF Mid, Untouched
<1> QED
  BY <1>1, <1>2 DEF Mid, Refs

\* A context takes over a reference to m and gives back the one it had.
LEMMA FetchedStep ==
  ASSUME NEW s \in Lib, NEW others \in [Mds -> Nat], NEW m \in Mds,
         Mid(s, Plus(others, m)), NEW c \in Ctxs, s.ctx[c] # None
  PROVE  /\ Mid(Fetched(s, c, m), others) /\ Untouched(s, Fetched(s, c, m), c)
         /\ Fetched(s, c, m).ctx = [s.ctx EXCEPT ![c].fetched = m]
         /\ Fetched(s, c, m).alg = s.alg
<1>1. PICK more \in [Mds -> Nat] : more = Plus(others, m)
  <2>1. others[m] + 1 \in Nat
    OBVIOUS
  <2>2. Plus(others, m) \in [Mds -> Nat]
    BY <2>1 DEF Plus
  <2> QED
    BY <2>2
<1>2. PICK u \in Lib : u = FreeFetched(s, c)
  BY <1>1, FreeFetchedStep DEF Mid
<1>3. Mid(u, more) /\ Untouched(s, u, c) /\ u.ctx = [s.ctx EXCEPT ![c].fetched = None]
      /\ u.alg = s.alg
  BY <1>1, <1>2, FreeFetchedStep
<1>4. u.ctx[c] = [s.ctx[c] EXCEPT !.fetched = None]
  BY <1>3, LibFields
<1>5. u.ctx[c] # None /\ u.ctx[c].fetched = None /\ u.ctx[c].algctx = s.ctx[c].algctx
  BY <1>4, RecordFetched
<1> DEFINE x == [u.ctx[c] EXCEPT !.fetched = m]
<1>6. x \in CtxRecords /\ x # None /\ x.fetched = m /\ x.algctx = u.ctx[c].algctx
  BY <1>5, RecordFetched
<1>7. Fetched(s, c, m) = [u EXCEPT !.ctx[c] = x]
  BY <1>2 DEF Fetched
<1>8. x = [s.ctx[c] EXCEPT !.fetched = m]
  BY <1>4, LibFields DEF CtxRecords
<1> HIDE DEF x
<1>9. PICK v \in Lib : v = [u EXCEPT !.ctx[c] = x]
  BY <1>6, CtxUpdate
<1>10. /\ v.ctx = [u.ctx EXCEPT ![c] = x] /\ v.ref = u.ref /\ v.alg = u.alg
       /\ v.fault = u.fault /\ v.ctx[c] = x /\ \A d \in Ctxs \ {c} : v.ctx[d] = u.ctx[d]
       /\ Untouched(u, v, c)
  BY <1>6, <1>9, CtxUpdate
<1>11. Mid(u, Plus(others, m))
  BY <1>1, <1>3
<1>12. /\ v.ref = u.ref /\ v.alg = u.alg /\ ~v.fault /\ v.ctx[c] # None /\ v.ctx[c].fetched = m
       /\ v.ctx[c].algctx = u.ctx[c].algctx /\ Untouched(u, v, c)
  BY <1>3, <1>6, <1>10 DEF Mid
<1>13. Mid(v, others)
  BY <1>5, <1>11, <1>12, HoldStep
<1>14. Untouched(s, v, c)
  BY <1>3, <1>10 DEF Untouched
<1>15. v.ctx = [s.ctx EXCEPT ![c].fetched = m]
  BY <1>3, <1>8, <1>10, LibFields
<1> QED
  BY <1>3, <1>7, <1>9, <1>10, <1>13, <1>14, <1>15

\* A context takes a provider context that is free.
LEMMA TakeAlg ==
  ASSUME NEW s \in Lib, NEW t \in Lib, NEW others, Mid(s, others), NEW c \in Ctxs,
         s.ctx[c] # None, s.ctx[c].algctx = None, NEW b \in FreeAlgs(s), t.alg[b] # Freed,
         \A a \in Algs \ {b} : t.alg[a] = s.alg[a], \A d \in Ctxs \ {c} : t.ctx[d] = s.ctx[d],
         t.ctx[c] # None, t.ctx[c].algctx = b, t.ctx[c].fetched = s.ctx[c].fetched,
         t.ref = s.ref, ~t.fault
  PROVE  Mid(t, others) /\ Untouched(s, t, c)
<1>1. b \in Algs /\ s.alg[b] = Freed
  BY DEF FreeAlgs
<1>7. \A d \in Ctxs : s.ctx[d] # None => s.ctx[d].algctx # b
  BY <1>1 DEF Mid, Owned
<1>8. \A m \in Mds : Holders(t, m) = Holders(s, m)
  BY DEF Holders
<1>9. Refs(t, others)
  BY <1>8 DEF Mid, Refs
<1>10. ASSUME NEW a \in Algs
       PROVE  t.alg[a] # Freed <=> \E d \in Ctxs : t.ctx[d] # None /\ t.ctx[d].algctx = a
  <2>1. CASE a = b
    BY <2>1
  <2>2. CASE a # b
    <3>1. s.alg[a] # Freed <=> \E d \in Ctxs : s.ctx[d] # None /\ s.ctx[d].algctx = a
      BY DEF Mid, Owned
    <3>2. \A d \in Ctxs : t.ctx[d] # None /\ t.ctx[d].algctx = a
                          <=> s.ctx[d] # None /\ s.ctx[d].algctx = a
      BY <2>2, EvpDigestAssumption
    <3> QED
      BY <2>2, <3>1, <3>2
  <2> QED
    BY <2>1, <2>2
<1>11. ASSUME NEW d \in Ctxs, NEW e \in Ctxs, d # e, t.ctx[d] # None, t.ctx[e] # None,
              t.ctx[d].algctx # None
       PROVE  t.ctx[d].algctx # t.ctx[e].algctx
  BY <1>7, <1>11 DEF Mid, Owned
<1>12. Owned(t)
  BY <1>10, <1>11 DEF Owned
<1>13. Untouched(s, t, c)
  <2>1. ASSUME NEW d \in Ctxs \ {c}, s.ctx[d] # None, s.ctx[d].algctx # None
        PROVE  t.alg[s.ctx[d].algctx] = s.alg[s.ctx[d].algctx]
    <3>1. s.ctx[d].algctx \in Algs
      BY <2>1, LibFields
    <3> QED
      BY <1>7, <2>1, <3>1
  <2> QED
    BY <2>1 DEF Untouched
<1> QED
  BY <1>9, <1>12, <1>13 DEF Mid

\* The provider's context of a context is used: nobody else's is touched.
LEMMA OwnAlgStep ==
  ASSUME NEW s \in Lib, NEW t \in Lib, NEW others, Mid(s, others), NEW c \in Ctxs,
         s.ctx[c] # None, s.ctx[c].algctx # None, t.alg[s.ctx[c].algctx] # Freed,
         \A b \in Algs \ {s.ctx[c].algctx} : t.alg[b] = s.alg[b], t.ref = s.ref, ~t.fault,
         \A d \in Ctxs \ {c} : t.ctx[d] = s.ctx[d], t.ctx[c] # None,
         t.ctx[c].algctx = s.ctx[c].algctx, t.ctx[c].fetched = s.ctx[c].fetched
  PROVE  Mid(t, others) /\ Untouched(s, t, c)
<1> DEFINE a == s.ctx[c].algctx
<1>1. a \in Algs
  BY LibFields
<1>2. t.alg[a] # Freed /\ \A b \in Algs \ {a} : t.alg[b] = s.alg[b]
  OBVIOUS
<1>3. s.alg[a] # Freed
  BY <1>1 DEF Mid, Owned
<1>4. \A b \in Algs : t.alg[b] = Freed <=> s.alg[b] = Freed
  BY <1>2, <1>3
<1>5. Mid(t, others)
  <2>1. \A d \in Ctxs : /\ t.ctx[d] = None <=> s.ctx[d] = None
                        /\ s.ctx[d] # None => /\ t.ctx[d].algctx = s.ctx[d].algctx
                                             /\ t.ctx[d].fetched = s.ctx[d].fetched
    OBVIOUS
  <2> QED
    BY <1>4, <2>1, SameHold
<1>6. ASSUME NEW d \in Ctxs \ {c}, s.ctx[d] # None, s.ctx[d].algctx # None
      PROVE  t.alg[s.ctx[d].algctx] = s.alg[s.ctx[d].algctx]
  <2>1. s.ctx[d].algctx \in Algs
    BY <1>6, LibFields
  <2>2. s.ctx[d].algctx # a
    BY <1>6 DEF Mid, Owned
  <2> QED
    BY <1>2, <2>1, <2>2
<1>7. Untouched(s, t, c)
  BY <1>6 DEF Untouched
<1> QED
  BY <1>5, <1>7

\* What a context other than c sees of several changes.
LEMMA UntouchedTwice ==
  ASSUME NEW s, NEW t, NEW u, NEW c, Untouched(s, t, c), Untouched(t, u, c)
  PROVE  Untouched(s, u, c)
BY DEF Untouched

\* The store gives a reference to a method it holds or newly constructs.
LEMMA StoreFetchStep ==
  ASSUME NEW s \in Lib, client \in [Mds -> Nat], store \in SUBSET Mds, Mid(s, Others),
         NEW m \in Mds, CanFetch(s, m), NEW others,
         others = [y \in Mds |-> client[y] + (IF y \in store \cup {m} THEN 1 ELSE 0)]
  PROVE  /\ others \in [Mds -> Nat]
         /\ Mid(StoreFetch(s, m), Plus(others, m))
         /\ StoreFetch(s, m).ctx = s.ctx /\ StoreFetch(s, m).alg = s.alg
         /\ \A c \in Ctxs : Untouched(s, StoreFetch(s, m), c)
<1> DEFINE r == IF m \in store THEN s.ref[m] + 1 ELSE 2
           new == Plus(others, m)
<1>1. PICK old \in [Mds -> Nat] : old = Others
  BY DEF Others
<1>2. s.ref[m] \in Int
  BY DEF Lib
<1>3. others \in [Mds -> Nat] /\ \A y \in Mds \ {m} : others[y] = old[y]
  BY <1>1 DEF Others
<1>4. new \in [Mds -> Nat] /\ new[m] = others[m] + 1 /\ \A y \in Mds \ {m} : new[y] = others[y]
  BY <1>3 DEF Plus
<1>5. r \in Int /\ r - s.ref[m] = new[m] - old[m]
  <2>1. others[m] = client[m] + 1 /\ client[m] \in Nat
    OBVIOUS
  <2>2. CASE m \in store
    <3>1. old[m] = client[m] + 1
      BY <1>1, <2>2 DEF Others
    <3> QED
      BY <1>2, <1>4, <2>1, <2>2, <3>1
  <2>3. CASE m \notin store
    <3>1. old[m] = client[m] /\ s.ref[m] = 0
      BY <1>1, <2>1, <2>3 DEF Others, CanFetch
    <3> QED
      BY <1>4, <2>1, <2>3, <3>1
  <2> QED
    BY <2>2, <2>3
<1>6. StoreFetch(s, m) = [s EXCEPT !.ref[m] = r]
  BY DEF StoreFetch, UpRef
<1> HIDE DEF r, new
<1>7. LET t == [s EXCEPT !.ref[m] = r]
      IN  /\ Mid(t, new) /\ t.ctx = s.ctx /\ t.alg = s.alg
          /\ \A c \in Ctxs : Untouched(s, t, c)
  <2>1. \A y \in Mds \ {m} : new[y] = old[y]
    BY <1>3, <1>4
  <2> QED
    BY <1>1, <1>4, <1>5, <2>1, RefStep
<1> QED
  BY <1>3, <1>6, <1>7 DEF new

-----------------------------------------------------------------------------
(* The end of a step *)

\* A call on context c that leaves the library in state t, with the context
\* given new or not set up.
LEMMA Finish ==
  ASSUME EInv, NEW c \in Ctxs, NEW t \in Lib, evp' = t,
         client' \in [Mds -> Nat], store' \in SUBSET Mds,
         NEW new \in FedRecords \cup {None}, fed' = [fed EXCEPT ![c] = new],
         Mid(t, Others'), Untouched(evp, t, c), PairedAt(t, c),
         new # None => /\ t.ctx[c] # None /\ t.ctx[c].algctx # None
                       /\ Runs(t.alg[t.ctx[c].algctx], new)
  PROVE  EInv'
<1>1. fed' \in [Ctxs -> FedRecords \cup {None}] /\ fed'[c] = new
      /\ \A d \in Ctxs \ {c} : fed'[d] = fed[d]
  BY DEF EInv
<1>2. Paired(t)
  BY DEF EInv, Paired, PairedAt, Untouched
<1>3. ASSUME NEW d \in Ctxs, fed'[d] # None
      PROVE  t.ctx[d] # None /\ t.ctx[d].algctx # None /\ Runs(t.alg[t.ctx[d].algctx], fed'[d])
  <2>1. CASE d = c
    BY <1>1, <1>3, <2>1
  <2>2. CASE d # c
    <3>1. /\ evp.ctx[d] # None /\ evp.ctx[d].algctx # None
          /\ Runs(evp.alg[evp.ctx[d].algctx], fed[d])
      BY <1>1, <1>3, <2>2 DEF EInv, FedRight
    <3>2. t.ctx[d] = evp.ctx[d] /\ t.alg[evp.ctx[d].algctx] = evp.alg[evp.ctx[d].algctx]
      BY <2>2, <3>1 DEF Untouched
    <3> QED
      BY <1>1, <2>2, <3>1, <3>2
  <2> QED
    BY <2>1, <2>2
<1>4. FedRight(evp, fed)'
  BY <1>3 DEF FedRight
<1>5. Paired(evp)'
  BY <1>2 DEF Paired
<1>6. Refs(evp, Others)' /\ Owned(evp)' /\ ~evp'.fault /\ evp' \in Lib
  BY DEF Mid, Refs, Owned, Holders
<1> QED
  BY <1>1, <1>4, <1>5, <1>6 DEF EInv

\* A call that changes counts only.
LEMMA FinishSame ==
  ASSUME EInv, NEW t \in Lib, evp' = t, client' \in [Mds -> Nat], store' \in SUBSET Mds,
         fed' = fed, Mid(t, Others'), t.ctx = evp.ctx, t.alg = evp.alg
  PROVE  EInv'
<1>1. FedRight(evp, fed)' /\ Paired(evp)'
  BY DEF EInv, FedRight, Paired
<1>2. Refs(evp, Others)' /\ Owned(evp)' /\ ~evp'.fault /\ evp' \in Lib
  BY DEF Mid, Refs, Owned, Holders
<1> QED
  BY <1>1, <1>2 DEF EInv

\* The state s in the middle of a call on context c.
Ready(s, others, c) ==
  Mid(s, others) /\ Untouched(evp, s, c) /\ s.ctx[c] # None

\* A call starts from the invariant.
LEMMA Start ==
  ASSUME EInv
  PROVE  /\ Others \in [Mds -> Nat] /\ Mid(evp, Others) /\ evp \in Lib
         /\ \A c \in Ctxs : PairedAt(evp, c) /\ (evp.ctx[c] # None => Ready(evp, Others, c))
<1>1. Others \in [Mds -> Nat]
  BY DEF EInv, Others
<1>2. Mid(evp, Others) /\ evp \in Lib
  BY DEF EInv, Mid
<1>3. \A c \in Ctxs : PairedAt(evp, c) /\ Untouched(evp, evp, c)
  BY DEF EInv, Paired, PairedAt, Untouched
<1> QED
  BY <1>1, <1>2, <1>3 DEF Ready

-----------------------------------------------------------------------------
(* Methods *)

\* EVP_MD_up_ref, EVP_MD_free and a flush count what they take and give back.
LEMMA CountSteps ==
  ASSUME EInv, NEW m \in Mds, MdUpRef(m) \/ MdFree(m) \/ Flush(m)
  PROVE  EInv'
<1>1. PICK old \in [Mds -> Nat] : old = Others
  BY Start
<1>2. Mid(evp, old) /\ evp \in Lib /\ client \in [Mds -> Nat] /\ store \in SUBSET Mds
  BY <1>1, Start DEF EInv
<1>3. evp.ref[m] \in Int
  BY <1>2 DEF Lib
<1>4. ASSUME NEW r \in Int, evp' = [evp EXCEPT !.ref[m] = r], client' \in [Mds -> Nat],
             store' \in SUBSET Mds, fed' = fed, \A y \in Mds \ {m} : Others'[y] = Others[y],
             r - evp.ref[m] = Others'[m] - Others[m]
      PROVE  EInv'
  <2>0. Others' = [y \in Mds |-> client'[y] + (IF y \in store' THEN 1 ELSE 0)]
    BY DEF Others
  <2>1. PICK new \in [Mds -> Nat] : new = Others'
    BY <1>4, <2>0
  <2>2. (\A y \in Mds \ {m} : new[y] = old[y]) /\ r - evp.ref[m] = new[m] - old[m]
    BY <1>1, <1>4, <2>1
  <2>3. LET t == [evp EXCEPT !.ref[m] = r]
        IN  /\ Mid(t, new) /\ t.ctx = evp.ctx /\ t.alg = evp.alg
            /\ \A c \in Ctxs : Untouched(evp, t, c)
    BY <1>2, <2>2, RefStep
  <2>4. PICK t \in Lib : t = [evp EXCEPT !.ref[m] = r]
    BY <2>3 DEF Mid
  <2>5. Mid(t, Others') /\ t.ctx = evp.ctx /\ t.alg = evp.alg
    BY <2>1, <2>3, <2>4
  <2>6. evp' = t
    BY <1>4, <2>4
  <2> QED
    BY <1>4, <2>5, <2>6, FinishSame
<1>5. CASE MdUpRef(m)
  <2>1. evp' = [evp EXCEPT !.ref[m] = evp.ref[m] + 1] /\ store' = store /\ fed' = fed
        /\ client' = [client EXCEPT ![m] = @ + 1]
    BY <1>5 DEF MdUpRef, UpRef
  <2>2. client' \in [Mds -> Nat]
    BY <1>2, <2>1
  <2>3. \A y \in Mds \ {m} : Others'[y] = Others[y]
    BY <1>2, <2>1 DEF Others
  <2>4. Others'[m] = Others[m] + 1 /\ Others[m] \in Nat
    BY <1>1, <1>2, <2>1 DEF Others
  <2>5. evp.ref[m] + 1 \in Int /\ (evp.ref[m] + 1) - evp.ref[m] = Others'[m] - Others[m]
    BY <1>3, <2>4
  <2> QED
    BY <1>2, <1>4, <2>1, <2>2, <2>3, <2>5
<1>6. CASE MdFree(m)
  <2>1. evp' = [evp EXCEPT !.ref[m] = evp.ref[m] - 1] /\ store' = store /\ fed' = fed
        /\ client' = [client EXCEPT ![m] = @ - 1] /\ client[m] > 0
    BY <1>6 DEF MdFree
  <2>2. client' \in [Mds -> Nat]
    BY <1>2, <2>1
  <2>3. \A y \in Mds \ {m} : Others'[y] = Others[y]
    BY <1>2, <2>1 DEF Others
  <2>4. Others'[m] = Others[m] - 1 /\ Others[m] \in Nat
    BY <1>1, <1>2, <2>1 DEF Others
  <2>5. evp.ref[m] - 1 \in Int /\ (evp.ref[m] - 1) - evp.ref[m] = Others'[m] - Others[m]
    BY <1>3, <2>4
  <2> QED
    BY <1>2, <1>4, <2>1, <2>2, <2>3, <2>5
<1>7. CASE Flush(m)
  <2>1. evp' = [evp EXCEPT !.ref[m] = evp.ref[m] - 1] /\ store' = store \ {m} /\ fed' = fed
        /\ client' = client /\ m \in store
    BY <1>7 DEF Flush
  <2>3. \A y \in Mds \ {m} : Others'[y] = Others[y]
    BY <1>2, <2>1 DEF Others
  <2>4. Others'[m] = Others[m] - 1 /\ Others[m] \in Nat
    BY <1>1, <1>2, <2>1 DEF Others
  <2>5. evp.ref[m] - 1 \in Int /\ (evp.ref[m] - 1) - evp.ref[m] = Others'[m] - Others[m]
    BY <1>3, <2>4
  <2> QED
    BY <1>2, <1>4, <2>1, <2>3, <2>5
<1> QED
  BY <1>5, <1>6, <1>7

\* EVP_MD_fetch gives the client its reference.
LEMMA FetchKeeps ==
  ASSUME EInv, NEW m \in Mds, Fetch(m)
  PROVE  EInv'
<1>1. /\ Mid(evp, Others) /\ evp \in Lib /\ client \in [Mds -> Nat] /\ store \in SUBSET Mds
      /\ CanFetch(evp, m) /\ evp' = StoreFetch(evp, m) /\ store' = store \cup {m}
      /\ client' = [client EXCEPT ![m] = @ + 1] /\ fed' = fed
  BY Start DEF EInv, Fetch
<1>2. PICK others : others = [y \in Mds |-> client[y] + (IF y \in store \cup {m} THEN 1 ELSE 0)]
  OBVIOUS
<1>3. /\ Mid(StoreFetch(evp, m), Plus(others, m))
      /\ StoreFetch(evp, m).ctx = evp.ctx /\ StoreFetch(evp, m).alg = evp.alg
  BY <1>1, <1>2, StoreFetchStep
<1>4. Others' = Plus(others, m)
  BY <1>1, <1>2 DEF Others, Plus
<1>5. PICK t \in Lib : t = StoreFetch(evp, m)
  BY <1>3 DEF Mid
<1>6. Mid(t, Others') /\ t.ctx = evp.ctx /\ t.alg = evp.alg /\ evp' = t
  BY <1>1, <1>3, <1>4, <1>5
<1>7. client' \in [Mds -> Nat] /\ store' \in SUBSET Mds
  BY <1>1
<1> QED
  BY <1>1, <1>6, <1>7, FinishSame

-----------------------------------------------------------------------------
(* Contexts *)

\* A context that is not allocated, or holds nothing.
Empty(x) == x = None \/ (x.fetched = None /\ x.algctx = None)

\* A context without anything is exchanged for another one.
LEMMA EmptyStep ==
  ASSUME NEW s \in Lib, NEW others, Mid(s, others), NEW c \in Ctxs, Empty(s.ctx[c]),
         NEW x \in CtxRecords \cup {None}, Empty(x)
  PROVE  LET t == [s EXCEPT !.ctx[c] = x]
         IN  t \in Lib /\ Mid(t, others) /\ Untouched(s, t, c) /\ t.ctx[c] = x
<1>1. PICK t \in Lib : t = [s EXCEPT !.ctx[c] = x]
  BY CtxUpdate
<1>2. /\ t.ref = s.ref /\ t.alg = s.alg /\ t.fault = s.fault
      /\ t.ctx[c] = x /\ Untouched(s, t, c)
  BY <1>1, CtxUpdate
<1>3. \A d \in Ctxs \ {c} : t.ctx[d] = s.ctx[d]
  BY <1>2 DEF Untouched
<1>4. \A m \in Mds : Holders(t, m) = Holders(s, m)
  BY <1>2, <1>3, EvpDigestAssumption DEF Holders, Empty
<1>5. Refs(t, others)
  BY <1>2, <1>4 DEF Mid, Refs
<1>6. \A d \in Ctxs : \A a \in Algs :
        t.ctx[d] # None /\ t.ctx[d].algctx = a <=> s.ctx[d] # None /\ s.ctx[d].algctx = a
  BY <1>2, <1>3, EvpDigestAssumption DEF Empty
<1>7. \A a \in Algs : t.alg[a] # Freed <=> \E d \in Ctxs : t.ctx[d] # None /\ t.ctx[d].algctx = a
  BY <1>2, <1>6 DEF Mid, Owned
<1>8. ASSUME NEW d \in Ctxs, NEW e \in Ctxs, d # e, t.ctx[d] # None, t.ctx[e] # None,
             t.ctx[d].algctx # None
      PROVE  t.ctx[d].algctx # t.ctx[e].algctx
  BY <1>2, <1>3, <1>8 DEF Mid, Owned, Empty
<1>9. Owned(t)
  BY <1>7, <1>8 DEF Owned
<1> QED
  BY <1>1, <1>2, <1>5, <1>9 DEF Mid

\* The record of a new context.
LEMMA UnusedRecord ==
  Unused \in CtxRecords /\ Unused # None /\ Empty(Unused) /\ Unused.digest = None
  /\ Unused.fetched = None /\ Unused.algctx = None
<1>1. Unused \in CtxRecords /\ Unused.fetched = None /\ Unused.algctx = None /\ Unused.digest = None
  BY DEF Unused, CtxRecords
<1> QED
  BY <1>1, EvpDigestAssumption DEF Empty

\* A context that was cleared can be set up again.
LEMMA ResetReady ==
  ASSUME EInv, NEW c \in Ctxs, Live(c)
  PROVE  /\ Reset(evp, c) \in Lib /\ Ready(Reset(evp, c), Others, c)
         /\ Reset(evp, c).ctx[c] = Unused /\ PairedAt(Reset(evp, c), c)
<1>1. PICK s \in Lib : s = evp
  BY Start
<1>2. PICK others \in [Mds -> Nat] : others = Others
  BY Start
<1>3. Mid(s, others) /\ PairedAt(s, c) /\ s.ctx[c] # None
  BY <1>1, <1>2, Start DEF Live
<1>4. /\ Mid(Reset(s, c), others) /\ Untouched(s, Reset(s, c), c)
      /\ Reset(s, c).ctx = [s.ctx EXCEPT ![c] = Unused]
  BY <1>3, ResetStep
<1>5. Reset(s, c).ctx[c] = Unused
  BY <1>4, LibFields
<1>6. PairedAt(Reset(s, c), c)
  BY <1>5, UnusedRecord DEF PairedAt
<1> QED
  BY <1>1, <1>2, <1>4, <1>5, <1>6, UnusedRecord DEF Ready, Mid

\* EVP_MD_CTX_new, EVP_MD_CTX_free and EVP_MD_CTX_reset leave no reference and
\* no provider context behind.
LEMMA CtxSteps ==
  ASSUME EInv, NEW c \in Ctxs, CtxNew(c) \/ CtxFree(c) \/ CtxReset(c)
  PROVE  EInv'
<1>1. client \in [Mds -> Nat] /\ store \in SUBSET Mds /\ fed \in [Ctxs -> FedRecords \cup {None}]
  BY DEF EInv
<1>2. PICK others \in [Mds -> Nat] : others = Others
  BY Start
<1>3. ASSUME UNCHANGED <<store, client>>, fed' = [fed EXCEPT ![c] = None],
             NEW s \in Lib, Mid(s, others), Untouched(evp, s, c), Empty(s.ctx[c]),
             NEW x \in {None, Unused}, evp' = [s EXCEPT !.ctx[c] = x]
      PROVE  EInv'
  <2>1. x \in CtxRecords \cup {None} /\ Empty(x) /\ (x # None => x = Unused)
    BY UnusedRecord DEF Empty
  <2>2. PICK t \in Lib : t = [s EXCEPT !.ctx[c] = x]
    BY <1>3, <2>1, EmptyStep
  <2>3. Mid(t, others) /\ Untouched(s, t, c) /\ t.ctx[c] = x
    BY <1>3, <2>1, <2>2, EmptyStep
  <2>4. Untouched(evp, t, c)
    BY <1>3, <2>3, UntouchedTwice
  <2>5. PairedAt(t, c)
    BY <2>1, <2>3, UnusedRecord DEF PairedAt
  <2>6. Others' = others
    BY <1>2, <1>3 DEF Others
  <2>7. evp' = t /\ client' \in [Mds -> Nat] /\ store' \in SUBSET Mds
    BY <1>1, <1>3, <2>2
  <2> QED
    BY <1>3, <2>3, <2>4, <2>5, <2>6, <2>7, Finish
<1>4. CASE CtxNew(c)
  <2>1. PICK x \in {None, Unused} : evp' = [evp EXCEPT !.ctx[c] = x]
    BY <1>4 DEF CtxNew
  <2>2. evp.ctx[c] = None /\ UNCHANGED <<store, client, fed>>
    BY <1>4 DEF CtxNew, Live
  <2>3. fed[c] = None
    BY <2>2 DEF EInv, FedRight
  <2>4. fed' = [fed EXCEPT ![c] = None]
    BY <1>1, <2>2, <2>3
  <2>5. Mid(evp, others) /\ Untouched(evp, evp, c) /\ Empty(evp.ctx[c]) /\ evp \in Lib
    BY <1>2, <2>2, Start DEF Untouched, Empty
  <2> QED
    BY <1>3, <2>1, <2>2, <2>4, <2>5
<1>5. ASSUME Live(c), UNCHANGED <<store, client>>, fed' = [fed EXCEPT ![c] = None],
             NEW x \in {None, Unused}, evp' = [Reset(evp, c) EXCEPT !.ctx[c] = x]
      PROVE  EInv'
  <2>1. PICK s \in Lib : s = Reset(evp, c)
    BY <1>5, ResetReady
  <2>2. Mid(s, others) /\ Untouched(evp, s, c) /\ Empty(s.ctx[c])
    BY <1>2, <1>5, <2>1, ResetReady, UnusedRecord DEF Ready
  <2> QED
    BY <1>3, <1>5, <2>1, <2>2
<1>6. CASE CtxFree(c)
  BY <1>5, <1>6 DEF CtxFree
<1>7. CASE CtxReset(c)
  <2>1. evp' = Reset(evp, c) /\ Live(c) /\ UNCHANGED <<store, client>>
        /\ fed' = [fed EXCEPT ![c] = None]
    BY <1>7 DEF CtxReset
  <2>2. PICK s \in Lib : s = Reset(evp, c)
    BY <2>1, ResetReady
  <2>3. s.ctx[c] = Unused
    BY <2>1, <2>2, ResetReady
  <2>4. [s EXCEPT !.ctx[c] = Unused] = s
    <3>1. [s.ctx EXCEPT ![c] = Unused] = s.ctx
      BY <2>3, LibFields
    <3> QED
      BY <3>1 DEF Lib
  <2>5. evp' = [Reset(evp, c) EXCEPT !.ctx[c] = Unused]
    BY <2>1, <2>2, <2>4
  <2> QED
    BY <1>5, <2>1, <2>5
<1> QED
  BY <1>4, <1>6, <1>7

-----------------------------------------------------------------------------
(* Setting up a context *)

\* The end of a call that sets up context c.
LEMMA SetUpKeeps ==
  ASSUME EInv, NEW c \in Ctxs, NEW t \in Lib, Ready(t, Others', c), PairedAt(t, c),
         store' \in SUBSET Mds, NEW r, NEW new \in FedRecords \cup {None}, SetUp(c, t, r, new),
         new # None => t.ctx[c].algctx # None /\ Runs(t.alg[t.ctx[c].algctx], new)
  PROVE  EInv'
<1>1. evp' = t /\ client' \in [Mds -> Nat] /\ fed' = [fed EXCEPT ![c] = new]
  BY DEF SetUp, EInv
<1>2. Mid(t, Others') /\ Untouched(evp, t, c) /\ t.ctx[c] # None
  BY DEF Ready
<1> QED
  BY <1>1, <1>2, Finish

\* A provider's context is written and given to a context.
LEMMA GiveAlg ==
  ASSUME NEW s \in Lib, NEW c \in Ctxs, s.ctx[c] # None, NEW b \in Algs, NEW x \in AlgRecords
  PROVE  LET t == Give(s, c, b, x)
         IN  /\ t \in Lib /\ t.ref = s.ref /\ t.fault = s.fault
             /\ t.alg[b] = x /\ \A a \in Algs \ {b} : t.alg[a] = s.alg[a]
             /\ \A d \in Ctxs \ {c} : t.ctx[d] = s.ctx[d]
             /\ t.ctx[c] # None /\ t.ctx[c].algctx = b
             /\ t.ctx[c].fetched = s.ctx[c].fetched /\ t.ctx[c].digest = s.ctx[c].digest
<1> DEFINE t == Give(s, c, b, x)
           y == [s.ctx[c] EXCEPT !.algctx = b]
<1>1. /\ t.ref = s.ref /\ t.fault = s.fault
      /\ t.ctx = [s.ctx EXCEPT ![c].algctx = b] /\ t.alg = [s.alg EXCEPT ![b] = x]
  BY DEF Lib, Give
<1>2. y \in CtxRecords /\ y.algctx = b /\ y.fetched = s.ctx[c].fetched /\ y.digest = s.ctx[c].digest
  BY LibFields DEF CtxRecords
<1>3. y # None
  BY <1>2, EvpDigestAssumption
<1>4. t.ctx[c] = y /\ \A d \in Ctxs \ {c} : t.ctx[d] = s.ctx[d]
  BY <1>1, LibFields
<1>5. t.alg[b] = x /\ \A a \in Algs \ {b} : t.alg[a] = s.alg[a]
  BY <1>1, LibFields
<1>6. t.ctx \in [Ctxs -> CtxRecords \cup {None}] /\ t.alg \in [Algs -> AlgRecords]
  BY <1>1, <1>2, LibFields
<1>7. t \in Lib
  BY <1>6 DEF Lib, Give
<1> HIDE DEF t, y
<1>8. /\ t \in Lib /\ t.ref = s.ref /\ t.fault = s.fault
      /\ t.alg[b] = x /\ \A a \in Algs \ {b} : t.alg[a] = s.alg[a]
      /\ \A d \in Ctxs \ {c} : t.ctx[d] = s.ctx[d]
      /\ t.ctx[c] # None /\ t.ctx[c].algctx = b
      /\ t.ctx[c].fetched = s.ctx[c].fetched /\ t.ctx[c].digest = s.ctx[c].digest
  BY <1>1, <1>2, <1>3, <1>4, <1>5, <1>7
<1> QED
  BY <1>8 DEF t

\* The record of a provider's context after newctx or dinit.
LEMMA OpenedRecord ==
  /\ Opened \in AlgRecords /\ Opened # Freed /\ Nothing \in FedRecords /\ Runs(Opened, Nothing)
BY DEF Opened, Freed, AlgRecords, Nothing, FedRecords, Runs

\* The end of evp_md_init_internal, whether or not a provider's context was
\* there or can be had, and whether or not dinit succeeds.
LEMMA UseMethodKeeps ==
  ASSUME EInv, NEW c \in Ctxs, NEW q \in Lib, NEW m \in Mds, NEW others \in [Mds -> Nat],
         others = Others', Ready(q, others, c), q.ctx[c].fetched = m,
         store' \in SUBSET Mds, UseMethod(c, q, m)
  PROVE  EInv'
<1> DEFINE x == [q.ctx[c] EXCEPT !.digest = m]
<1>1. q.ctx[c] \in CtxRecords /\ q.ctx[c] # None
  BY LibFields DEF Ready
<1>2. x \in CtxRecords /\ x.fetched = m /\ x.digest = m /\ x.algctx = q.ctx[c].algctx
  BY <1>1 DEF CtxRecords
<1>3. x # None
  BY <1>2, EvpDigestAssumption
<1>4. PICK t \in Lib : t = [q EXCEPT !.ctx[c].digest = m]
  BY <1>2, CtxUpdate
<1>5. /\ t.ref = q.ref /\ t.alg = q.alg /\ t.fault = q.fault
      /\ t.ctx[c] = x /\ \A d \in Ctxs \ {c} : t.ctx[d] = q.ctx[d]
      /\ Untouched(q, t, c)
  BY <1>2, <1>4, CtxUpdate
<1> HIDE DEF x
<1>6. Ready(t, others, c) /\ PairedAt(t, c)
  <2>1. \A d \in Ctxs : /\ t.ctx[d] = None <=> q.ctx[d] = None
                        /\ q.ctx[d] # None => /\ t.ctx[d].algctx = q.ctx[d].algctx
                                             /\ t.ctx[d].fetched = q.ctx[d].fetched
    BY <1>1, <1>2, <1>3, <1>5
  <2>2. ~t.fault /\ \A a \in Algs : t.alg[a] = Freed <=> q.alg[a] = Freed
    BY <1>5 DEF Ready, Mid
  <2>3. Mid(t, others)
    BY <1>5, <2>1, <2>2, SameHold DEF Ready
  <2>4. Untouched(evp, t, c)
    BY <1>5, UntouchedTwice DEF Ready
  <2>5. PairedAt(t, c)
    BY <1>2, <1>5, EvpDigestAssumption DEF PairedAt
  <2> QED
    BY <1>3, <1>5, <2>3, <2>4, <2>5 DEF Ready
<1>7. Mid(t, others) /\ Untouched(evp, t, c) /\ t.ctx[c] # None
  BY <1>6 DEF Ready
<1>8. t = [q EXCEPT !.ctx[c].digest = m, !.fault = @ \/ q.ref[m] = 0]
  <2>1. q.ref[m] > 0
    BY <1>1, HolderKeepsAlive DEF Ready, Mid
  <2>2. q.ref[m] # 0 /\ q.ref[m] \in Int
    BY <2>1, LibFields
  <2>3. q.fault = FALSE
    BY LibFields DEF Ready, Mid
  <2>4. (q.fault \/ q.ref[m] = 0) = q.fault
    BY <2>2, <2>3
  <2>5. [q EXCEPT !.ctx[c].digest = m, !.fault = @ \/ q.ref[m] = 0]
          = [q EXCEPT !.ctx[c].digest = m]
    BY <2>4 DEF Lib
  <2> QED
    BY <1>4, <2>5
<1> DEFINE a == t.ctx[c].algctx
           y == IF a = None THEN Opened ELSE t.alg[a]
<1>9. CASE a = None /\ SetUp(c, t, 0, None)
  <2>1. Ready(t, Others', c)
    BY <1>6
  <2> QED
    BY <1>6, <1>9, <2>1, SetUpKeeps
<1>10. ASSUME NEW b \in IF a = None THEN FreeAlgs(t) ELSE {a}, NEW z \in AlgRecords, z # Freed
       PROVE  LET u == Give(t, c, b, z)
              IN  /\ u \in Lib /\ Ready(u, Others', c) /\ PairedAt(u, c)
                  /\ u.ctx[c].algctx # None /\ u.alg[u.ctx[c].algctx] = z
  <2>1. b \in Algs /\ (a # None => b = a)
    BY <1>7, <1>10, LibFields DEF FreeAlgs
  <2>2. PICK u \in Lib : u = Give(t, c, b, z)
    BY <1>7, <2>1, GiveAlg
  <2>3. /\ u.ref = t.ref /\ u.fault = t.fault
        /\ u.alg[b] = z /\ (\A e \in Algs \ {b} : u.alg[e] = t.alg[e])
        /\ (\A d \in Ctxs \ {c} : u.ctx[d] = t.ctx[d])
        /\ u.ctx[c] # None /\ u.ctx[c].algctx = b
        /\ u.ctx[c].fetched = t.ctx[c].fetched /\ u.ctx[c].digest = t.ctx[c].digest
    BY <1>7, <2>1, <2>2, GiveAlg
  <2>4. Mid(t, others) /\ t.ctx[c] # None /\ ~u.fault /\ u.alg[b] # Freed
    BY <1>7, <1>10, <2>3 DEF Mid
  <2>5. Mid(u, others) /\ Untouched(t, u, c)
    <3>1. CASE a = None
      <4>1. b \in FreeAlgs(t)
        BY <1>10, <3>1
      <4> QED
        BY <2>3, <2>4, <3>1, <4>1, TakeAlg
    <3>2. CASE a # None
      <4>1. b = t.ctx[c].algctx /\ t.ctx[c].algctx # None
        BY <2>1, <3>2
      <4> QED
        BY <2>3, <2>4, <4>1, OwnAlgStep
    <3> QED
      BY <3>1, <3>2
  <2>6. Untouched(evp, u, c)
    BY <1>7, <2>5, UntouchedTwice
  <2>7. Ready(u, Others', c)
    BY <2>3, <2>5, <2>6 DEF Ready
  <2>8. PairedAt(u, c)
    BY <1>2, <1>5, <2>3, EvpDigestAssumption DEF PairedAt
  <2>9. u.ctx[c].algctx # None /\ u.alg[u.ctx[c].algctx] = z
    BY <2>1, <2>3, EvpDigestAssumption
  <2> QED
    BY <2>2, <2>7, <2>8, <2>9
<1>11. y \in AlgRecords /\ y # Freed
  <2>1. CASE a = None
    BY <2>1, OpenedRecord
  <2>2. CASE a # None
    <3>1. a \in Algs
      BY <1>7, <2>2, LibFields
    <3>2. t.alg[a] \in AlgRecords /\ t.alg[a] # Freed
      BY <1>7, <3>1, LibFields DEF Mid, Owned
    <3> QED
      BY <2>2, <3>2
  <2> QED
    BY <2>1, <2>2
<1> HIDE DEF a, y
<1>12. ASSUME NEW b \in IF a = None THEN FreeAlgs(t) ELSE {a},
              SetUp(c, Give(t, c, b, Opened), 1, Nothing)
       PROVE  EInv'
  <2>1. PICK u : u = Give(t, c, b, Opened)
    OBVIOUS
  <2>2. /\ u \in Lib /\ Ready(u, Others', c) /\ PairedAt(u, c)
        /\ u.ctx[c].algctx # None /\ u.alg[u.ctx[c].algctx] = Opened
    BY <1>10, <2>1, OpenedRecord
  <2>3. SetUp(c, u, 1, Nothing)
    BY <1>12, <2>1
  <2> QED
    BY <2>2, <2>3, OpenedRecord, SetUpKeeps
<1>13. ASSUME NEW b \in IF a = None THEN FreeAlgs(t) ELSE {a},
              SetUp(c, Give(t, c, b, y), 0, None)
       PROVE  EInv'
  <2>1. PICK u : u = Give(t, c, b, y)
    OBVIOUS
  <2>2. u \in Lib /\ Ready(u, Others', c) /\ PairedAt(u, c)
    BY <1>10, <1>11, <2>1
  <2>3. SetUp(c, u, 0, None)
    BY <1>13, <2>1
  <2> QED
    BY <2>2, <2>3, SetUpKeeps
<1>14. \/ a = None /\ SetUp(c, t, 0, None)
       \/ \E b \in IF a = None THEN FreeAlgs(t) ELSE {a} :
            \/ SetUp(c, Give(t, c, b, Opened), 1, Nothing)
            \/ SetUp(c, Give(t, c, b, y), 0, None)
  BY <1>8, Zenon DEF UseMethod, Dinit, a, y
<1> QED
  BY <1>9, <1>12, <1>13, <1>14

\* A context takes over a reference that was taken for it.
LEMMA FetchedReady ==
  ASSUME NEW r \in Lib, NEW q \in Lib, NEW others \in [Mds -> Nat], NEW m \in Mds,
         NEW c \in Ctxs, Untouched(evp, r, c), r.ctx[c] # None, q.ctx = r.ctx,
         Untouched(r, q, c), Mid(q, Plus(others, m))
  PROVE  /\ Fetched(q, c, m) \in Lib /\ Ready(Fetched(q, c, m), others, c)
         /\ Fetched(q, c, m).ctx[c].fetched = m
<1>1. q.ctx[c] # None
  OBVIOUS
<1>2. /\ Mid(Fetched(q, c, m), others) /\ Untouched(q, Fetched(q, c, m), c)
      /\ Fetched(q, c, m).ctx = [q.ctx EXCEPT ![c].fetched = m]
      /\ Fetched(q, c, m).alg = q.alg
  BY <1>1, FetchedStep
<1> DEFINE u == Fetched(q, c, m)
<1>3. Mid(u, others) /\ Untouched(q, u, c) /\ u.ctx = [q.ctx EXCEPT ![c].fetched = m]
  BY <1>2
<1> HIDE DEF u
<1>4. u.ctx[c] = [q.ctx[c] EXCEPT !.fetched = m]
  BY <1>3, LibFields
<1>5. u.ctx[c] # None /\ u.ctx[c].fetched = m
  BY <1>1, <1>4, RecordFetched
<1>6. Untouched(evp, u, c)
  BY <1>3 DEF Untouched
<1> QED
  BY <1>3, <1>5, <1>6 DEF Ready, Mid, u

\* The context holds a reference of its own to the method it is set up with.
LEMMA AttachReady ==
  ASSUME NEW r \in Lib, NEW others \in [Mds -> Nat], NEW m \in Mds, NEW c \in Ctxs,
         Ready(r, others, c)
  PROVE  /\ Attach(r, c, m) \in Lib /\ Ready(Attach(r, c, m), others, c)
         /\ Attach(r, c, m).ctx[c].fetched = m
<1>1. CASE r.ctx[c].fetched = m
  BY <1>1 DEF Attach
<1>2. CASE r.ctx[c].fetched # m
  <2>1. Mid(r, others) /\ Untouched(evp, r, c) /\ r.ctx[c] # None
    BY DEF Ready
  <2>2. /\ Mid(UpRef(r, m), Plus(others, m))
        /\ UpRef(r, m).ctx = r.ctx /\ Untouched(r, UpRef(r, m), c)
    BY <2>1, UpRefStep
  <2>3. PICK q \in Lib : q = UpRef(r, m)
    BY <2>2 DEF Mid
  <2>4. Mid(q, Plus(others, m)) /\ q.ctx = r.ctx /\ Untouched(r, q, c)
    BY <2>2, <2>3
  <2>5. /\ Fetched(q, c, m) \in Lib /\ Ready(Fetched(q, c, m), others, c)
        /\ Fetched(q, c, m).ctx[c].fetched = m
    BY <2>1, <2>4, FetchedReady
  <2> QED
    BY <1>2, <2>3, <2>5 DEF Attach
<1> QED
  BY <1>1, <1>2

\* evp_md_init_internal gives back what the context no longer uses, and holds
\* what it uses, on each of its paths.
LEMMA InitKeeps ==
  ASSUME EInv, NEW c \in Ctxs, NEW s0 \in Lib, Ready(s0, Others, c), PairedAt(s0, c),
         NEW type \in Types, InitInternal(c, s0, type)
  PROVE  EInv'
<1> DEFINE x == [s0.ctx[c] EXCEPT !.finalised = FALSE]
           m == IF type = None THEN s0.ctx[c].digest ELSE type
<1>1. PICK others \in [Mds -> Nat] : others = Others
  BY Start
<1>2. Mid(s0, others) /\ Untouched(evp, s0, c) /\ s0.ctx[c] # None /\ s0.ctx[c] \in CtxRecords
  BY <1>1, LibFields DEF Ready
<1>3. /\ x \in CtxRecords /\ x.fetched = s0.ctx[c].fetched /\ x.algctx = s0.ctx[c].algctx
      /\ x.digest = s0.ctx[c].digest
  BY <1>2 DEF CtxRecords
<1>4. x # None
  BY <1>3, EvpDigestAssumption
<1>a. [s0 EXCEPT !.ctx[c].finalised = FALSE] = [s0 EXCEPT !.ctx[c] = x]
  OBVIOUS
<1> HIDE DEF x
<1>5. PICK s \in Lib : s = [s0 EXCEPT !.ctx[c] = x]
  BY <1>3, CtxUpdate
<1>6. /\ s.ref = s0.ref /\ s.alg = s0.alg /\ s.fault = s0.fault
      /\ s.ctx[c] = x /\ (\A d \in Ctxs \ {c} : s.ctx[d] = s0.ctx[d])
      /\ Untouched(s0, s, c)
  BY <1>3, <1>5, CtxUpdate
<1>7. Ready(s, others, c) /\ PairedAt(s, c) /\ s.ctx[c] # None
  <2>1. \A d \in Ctxs : /\ s.ctx[d] = None <=> s0.ctx[d] = None
                        /\ s0.ctx[d] # None => /\ s.ctx[d].algctx = s0.ctx[d].algctx
                                              /\ s.ctx[d].fetched = s0.ctx[d].fetched
    BY <1>2, <1>3, <1>4, <1>6
  <2>2. ~s.fault /\ \A a \in Algs : s.alg[a] = Freed <=> s0.alg[a] = Freed
    BY <1>2, <1>6 DEF Mid
  <2>3. Mid(s, others)
    BY <1>2, <1>6, <2>1, <2>2, SameHold
  <2>4. Untouched(evp, s, c)
    BY <1>2, <1>6, UntouchedTwice
  <2>5. PairedAt(s, c)
    BY <1>2, <1>3, <1>6 DEF PairedAt
  <2> QED
    BY <1>4, <1>6, <2>3, <2>4, <2>5 DEF Ready
<1>8. PICK r : r = IF s.ctx[c].digest = m THEN s ELSE FreeAlgctx(s, c)
  OBVIOUS
<1>9. r \in Lib /\ Ready(r, others, c) /\ PairedAt(r, c)
  <2>1. CASE s.ctx[c].digest = m
    BY <1>7, <1>8, <2>1
  <2>2. CASE s.ctx[c].digest # m
    <3>1. r = FreeAlgctx(s, c)
      BY <1>8, <2>2
    <3>2. Mid(s, others) /\ Untouched(evp, s, c)
      BY <1>7 DEF Ready
    <3>3. Mid(r, others) /\ Untouched(s, r, c) /\ r.ctx = [s.ctx EXCEPT ![c].algctx = None]
      BY <1>7, <3>1, <3>2, FreeAlgctxStep
    <3> DEFINE y == [s.ctx[c] EXCEPT !.algctx = None]
    <3>4. /\ y \in CtxRecords /\ y.algctx = None /\ y.digest = s.ctx[c].digest
          /\ y.fetched = s.ctx[c].fetched
      BY <1>7, LibFields DEF CtxRecords
    <3>5. y # None
      BY <3>4, EvpDigestAssumption
    <3>6. r.ctx[c] = y
      BY <3>3, LibFields
    <3> HIDE DEF y
    <3>7. PairedAt(r, c)
      BY <1>7, <3>4, <3>6 DEF PairedAt
    <3>8. Untouched(evp, r, c)
      BY <3>2, <3>3, UntouchedTwice
    <3> QED
      BY <3>3, <3>5, <3>6, <3>7, <3>8 DEF Ready, Mid
  <2> QED
    BY <2>1, <2>2
<1>10. client \in [Mds -> Nat] /\ store \in SUBSET Mds
  BY DEF EInv
<1>11. UNCHANGED <<client, store>> => Others' = others
  BY <1>1 DEF Others
<1>12. CASE m = None /\ SetUp(c, s, 0, None) /\ UNCHANGED store
  <2>1. Ready(s, Others', c)
    BY <1>7, <1>11, <1>12 DEF SetUp
  <2> QED
    BY <1>7, <1>10, <1>12, <2>1, SetUpKeeps
<1>13. CASE m = Static /\ SetUp(c, r, 0, None) /\ UNCHANGED store
  <2>1. Ready(r, Others', c)
    BY <1>9, <1>11, <1>13 DEF SetUp
  <2> QED
    BY <1>9, <1>10, <1>13, <2>1, SetUpKeeps
<1>14. CASE /\ m = Static /\ CanFetch(r, Implicit)
            /\ store' = store \cup {Implicit}
            /\ UseMethod(c, Fetched(StoreFetch(r, Implicit), c, Implicit), Implicit)
  <2>1. PICK more : more = [y \in Mds |-> client[y] + (IF y \in store \cup {Implicit} THEN 1 ELSE 0)]
    OBVIOUS
  <2>2. Implicit \in Mds
    BY EvpDigestAssumption
  <2>3. Mid(r, Others) /\ Untouched(evp, r, c) /\ r.ctx[c] # None
    BY <1>1, <1>9 DEF Ready
  <2>4. /\ more \in [Mds -> Nat]
        /\ Mid(StoreFetch(r, Implicit), Plus(more, Implicit))
        /\ StoreFetch(r, Implicit).ctx = r.ctx
        /\ Untouched(r, StoreFetch(r, Implicit), c)
    BY <1>9, <1>10, <1>14, <2>1, <2>2, <2>3, StoreFetchStep
  <2>5. PICK q \in Lib : q = StoreFetch(r, Implicit)
    BY <2>4 DEF Mid
  <2>6. Mid(q, Plus(more, Implicit)) /\ q.ctx = r.ctx /\ Untouched(r, q, c)
    BY <2>4, <2>5
  <2>7. /\ Fetched(q, c, Implicit) \in Lib /\ Ready(Fetched(q, c, Implicit), more, c)
        /\ Fetched(q, c, Implicit).ctx[c].fetched = Implicit
    BY <1>9, <2>2, <2>3, <2>4, <2>6, FetchedReady
  <2>8. PICK u \in Lib : u = Fetched(q, c, Implicit)
    BY <2>7
  <2>9. UseMethod(c, u, Implicit)
    BY <1>14, <2>5, <2>8
  <2>10. client' = client
    BY <2>9 DEF UseMethod, SetUp
  <2>11. more = Others'
    BY <1>14, <2>1, <2>10 DEF Others
  <2>12. store' \in SUBSET Mds
    BY <1>10, <1>14, <2>2
  <2>13. Ready(u, more, c) /\ u.ctx[c].fetched = Implicit
    BY <2>7, <2>8
  <2> QED
    BY <2>2, <2>4, <2>9, <2>11, <2>12, <2>13, UseMethodKeeps
<1>15. CASE m \in Mds /\ UseMethod(c, Attach(r, c, m), m) /\ UNCHANGED store
  <2>1. PICK n \in Mds : n = m
    BY <1>15
  <2>2. PICK u : u = Attach(r, c, n)
    OBVIOUS
  <2>3. u \in Lib /\ Ready(u, others, c) /\ u.ctx[c].fetched = n
    BY <1>9, <2>2, AttachReady
  <2>4. UseMethod(c, u, n)
    BY <1>15, <2>1, <2>2
  <2>5. client' = client
    BY <2>4 DEF UseMethod, SetUp
  <2>6. others = Others' /\ store' \in SUBSET Mds
    BY <1>10, <1>11, <1>15, <2>5
  <2> QED
    BY <2>3, <2>4, <2>6, UseMethodKeeps
<1> QED
  BY <1>a, <1>5, <1>8, <1>12, <1>13, <1>14, <1>15 DEF InitInternal

\* EVP_DigestInit_ex, and EVP_DigestInit after a reset.
LEMMA InitSteps ==
  ASSUME EInv, NEW c \in Ctxs, NEW type \in Types, DigestInit(c, type) \/ DigestInitEx(c, type)
  PROVE  EInv'
<1>1. CASE DigestInitEx(c, type)
  <2>1. Live(c) /\ InitInternal(c, evp, type)
    BY <1>1 DEF DigestInitEx
  <2>2. evp \in Lib /\ Ready(evp, Others, c) /\ PairedAt(evp, c)
    BY <2>1, Start DEF Live
  <2> QED
    BY <2>1, <2>2, InitKeeps
<1>2. CASE DigestInit(c, type)
  <2>1. Live(c) /\ InitInternal(c, Reset(evp, c), type)
    BY <1>2 DEF DigestInit
  <2>2. PICK s \in Lib : s = Reset(evp, c)
    BY <2>1, ResetReady
  <2>3. Ready(s, Others, c) /\ PairedAt(s, c)
    BY <2>1, <2>2, ResetReady
  <2>4. InitInternal(c, s, type)
    BY <2>1, <2>2
  <2> QED
    BY <2>3, <2>4, InitKeeps
<1> QED
  BY <1>1, <1>2

-----------------------------------------------------------------------------
(* Using a context *)

\* A context that a client may use and that has a method has everything else:
\* the method is alive, and the provider's context has the data.
LEMMA Usable ==
  ASSUME EInv, NEW c \in Ctxs, MayUse(c), evp.ctx[c].digest # None
  PROVE  /\ evp.ctx[c] # None /\ evp.ctx[c].algctx \in Algs /\ evp.ctx[c].algctx # None
         /\ AlgOf(c) \in AlgRecords /\ AlgOf(c) # Freed /\ Runs(AlgOf(c), fed[c])
         /\ fed[c] \in FedRecords /\ fed[c] # None /\ ~Dead(evp, c)
<1>1. evp.ctx[c] # None /\ fed[c] # None
  BY DEF MayUse, Live
<1>2. /\ evp.ctx[c].algctx # None /\ Runs(AlgOf(c), fed[c])
      /\ fed[c] \in FedRecords
  BY <1>1 DEF EInv, FedRight, AlgOf
<1>3. evp \in Lib /\ Mid(evp, Others) /\ Others \in [Mds -> Nat] /\ PairedAt(evp, c)
  BY Start
<1>4. evp.ctx[c].algctx \in Algs /\ evp.ctx[c].digest \in Mds /\ evp.alg \in [Algs -> AlgRecords]
  BY <1>1, <1>2, <1>3, LibFields
<1>5. AlgOf(c) \in AlgRecords /\ AlgOf(c) # Freed
  BY <1>1, <1>3, <1>4 DEF AlgOf, Mid, Owned
<1>6. evp.ctx[c].fetched = evp.ctx[c].digest
  BY <1>1, <1>3 DEF PairedAt
<1>7. evp.ref[evp.ctx[c].digest] > 0
  BY <1>1, <1>3, <1>4, <1>6, HolderKeepsAlive DEF Mid
<1>8. ~Dead(evp, c)
  BY <1>7 DEF Dead
<1> QED
  BY <1>1, <1>2, <1>4, <1>5, <1>8

\* A function of the method of c is called and writes the record x.
Touch(s, a, x, c) == [s EXCEPT !.alg[a] = x, !.fault = @ \/ Dead(s, c)]

\* A call on the running digest keeps to the context it is made on.
LEMMA TouchKeeps ==
  ASSUME EInv, NEW c \in Ctxs, MayUse(c), evp.ctx[c].digest # None,
         NEW x \in AlgRecords, x # Freed, evp' = Touch(evp, evp.ctx[c].algctx, x, c),
         NEW f \in FedRecords, Runs(x, f), fed' = [fed EXCEPT ![c] = f], UNCHANGED <<store, client>>
  PROVE  EInv'
<1> DEFINE a == evp.ctx[c].algctx
           t == Touch(evp, a, x, c)
<1>1. /\ evp.ctx[c] # None /\ a \in Algs /\ a # None /\ ~Dead(evp, c)
  BY Usable
<1>2. evp \in Lib /\ Mid(evp, Others) /\ PairedAt(evp, c)
  BY Start
<1>3. /\ t.ctx = evp.ctx /\ t.ref = evp.ref /\ t.fault = (evp.fault \/ Dead(evp, c))
      /\ t.alg = [evp.alg EXCEPT ![a] = x]
  BY <1>2 DEF Lib, Touch
<1>4. t.alg \in [Algs -> AlgRecords] /\ t.alg[a] = x /\ \A b \in Algs \ {a} : t.alg[b] = evp.alg[b]
  BY <1>1, <1>2, <1>3 DEF Lib
<1>5. t \in Lib
  BY <1>2, <1>4 DEF Lib, Touch, Dead
<1>6. ~t.fault
  BY <1>1, <1>2, <1>3 DEF Mid
<1> HIDE DEF t
<1>7. Mid(t, Others) /\ Untouched(evp, t, c)
  <2>1. \A d \in Ctxs \ {c} : t.ctx[d] = evp.ctx[d]
    BY <1>3
  <2>2. /\ t.ctx[c] # None /\ t.ctx[c].algctx = a /\ t.ctx[c].fetched = evp.ctx[c].fetched
        /\ t.ref = evp.ref /\ t.alg[a] # Freed
    BY <1>1, <1>3, <1>4
  <2> QED
    BY <1>1, <1>2, <1>4, <1>5, <1>6, <2>1, <2>2, OwnAlgStep
<1>8. PairedAt(t, c)
  BY <1>2, <1>3 DEF PairedAt
<1>9. Others' = Others /\ client' \in [Mds -> Nat] /\ store' \in SUBSET Mds
  BY DEF Others, EInv
<1>10. t.ctx[c] # None /\ t.ctx[c].algctx # None /\ Runs(t.alg[t.ctx[c].algctx], f)
  BY <1>1, <1>3, <1>4
<1>11. evp' = t /\ Mid(t, Others')
  BY <1>7, <1>9 DEF t
<1> QED
  BY <1>5, <1>7, <1>8, <1>9, <1>10, <1>11, Finish

\* A call that refuses changes what it returns only.
LEMMA Refused ==
  ASSUME EInv, UNCHANGED <<evp, store, client, fed>>
  PROVE  EInv'
<1>1. Others' = Others
  BY DEF Others
<1> QED
  BY <1>1 DEF EInv, Refs, Owned, Paired, FedRight, Holders

\* dupdate appends the data, or drops it once output was taken.
LEMMA DupdateRuns ==
  ASSUME NEW x \in AlgRecords, x # Freed, NEW f \in FedRecords, Runs(x, f), NEW d \in Chunks,
         NEW y \in Dupdate(x, d)
  PROVE  LET g == [data |-> Append(f.data, d), late |-> f.late \/ x.state # "open"]
         IN  y \in AlgRecords /\ y # Freed /\ g \in FedRecords /\ Runs(y, g)
<1> DEFINE g == [data |-> Append(f.data, d), late |-> f.late \/ x.state # "open"]
<1>1. f.data \in Seq(Chunks) /\ f.late \in BOOLEAN /\ x.state \in {"freed", "open", "squeeze", "final"}
      /\ x.data \in Seq(Chunks) \cup {Garbled}
  BY DEF FedRecords, AlgRecords
<1>2. Append(f.data, d) \in Seq(Chunks)
  BY <1>1
<1>3. g \in FedRecords /\ g.data = Append(f.data, d) /\ g.late = (f.late \/ x.state # "open")
  BY <1>1, <1>2 DEF FedRecords
<1> HIDE DEF g
<1>4. CASE x.state = "open"
  <2>1. x.data = f.data /\ ~f.late
    BY <1>1, <1>4 DEF Runs
  <2>2. PICK w \in Seq(Chunks) : w = Append(f.data, d)
    BY <1>2
  <2>3. y = [x EXCEPT !.data = w]
    BY <1>4, <2>1, <2>2 DEF Dupdate
  <2>4. y \in AlgRecords /\ y.state = "open" /\ y.data = w
    BY <1>4, <2>3 DEF AlgRecords
  <2>5. y # Freed
    BY <2>4 DEF Freed
  <2>6. Runs(y, g)
    BY <1>3, <1>4, <2>1, <2>2, <2>4 DEF Runs
  <2> QED
    BY <1>3, <2>4, <2>5, <2>6 DEF g
<1>5. CASE x.state # "open"
  <2>1. y = x \/ y = [x EXCEPT !.data = Garbled]
    BY <1>5 DEF Dupdate
  <2>2. y \in AlgRecords /\ y.state = x.state /\ (y = x \/ y.data = Garbled)
    BY <2>1 DEF AlgRecords
  <2>3. Runs(y, g)
    BY <1>3, <1>5, <2>2 DEF Runs
  <2>4. y # Freed
    BY <2>2, EvpDigestAssumption DEF Freed
  <2> QED
    BY <1>3, <2>2, <2>3, <2>4 DEF g
<1> QED
  BY <1>4, <1>5

\* EVP_DigestUpdate and EVP_DigestSqueeze.
LEMMA UpdateSteps ==
  ASSUME EInv, NEW c \in Ctxs,
         (\E d \in Chunks \cup {None} : DigestUpdate(c, d)) \/ DigestSqueeze(c)
  PROVE  EInv'
<1> DEFINE a == evp.ctx[c].algctx
<1>1. ASSUME NEW d \in Chunks \cup {None}, DigestUpdate(c, d) PROVE EInv'
  <2>1. CASE UNCHANGED <<evp, fed>>
    BY <1>1, <2>1, Refused DEF DigestUpdate
  <2>2. CASE ~UNCHANGED <<evp, fed>>
    <3> DEFINE g == [data |-> Append(fed[c].data, d),
                     late |-> fed[c].late \/ AlgOf(c).state # "open"]
    <3>1. /\ MayUse(c) /\ d # None /\ evp.ctx[c].digest # None /\ UNCHANGED <<store, client>>
          /\ \E x \in Dupdate(AlgOf(c), d) :
               evp' = [evp EXCEPT !.alg[a] = x, !.fault = @ \/ Dead(evp, c)]
          /\ fed' = [fed EXCEPT ![c] = g]
      BY <1>1, <2>2, Zenon DEF DigestUpdate
    <3>2. PICK x \in Dupdate(AlgOf(c), d) : evp' = Touch(evp, a, x, c)
      BY <3>1 DEF Touch
    <3>3. PICK y : y = AlgOf(c)
      OBVIOUS
    <3>4. PICK f : f = fed[c]
      OBVIOUS
    <3>5. y \in AlgRecords /\ y # Freed /\ f \in FedRecords /\ Runs(y, f) /\ d \in Chunks
      BY <3>1, <3>3, <3>4, Usable
    <3>6. PICK h : h = [data |-> Append(f.data, d), late |-> f.late \/ y.state # "open"]
      OBVIOUS
    <3>7. x \in AlgRecords /\ x # Freed /\ h \in FedRecords /\ Runs(x, h)
      BY <3>2, <3>3, <3>5, <3>6, DupdateRuns
    <3>8. fed' = [fed EXCEPT ![c] = h]
      BY <3>1, <3>3, <3>4, <3>6
    <3> HIDE DEF g
    <3> QED
      BY <3>1, <3>2, <3>7, <3>8, TouchKeeps
  <2> QED
    BY <2>1, <2>2
<1>2. CASE DigestSqueeze(c)
  <2>1. CASE UNCHANGED evp
    BY <1>2, <2>1, Refused DEF DigestSqueeze
  <2>2. CASE ~UNCHANGED evp
    <3>1. MayUse(c) /\ evp.ctx[c].digest # None
          /\ evp' = [evp EXCEPT !.alg[a].state = "squeeze", !.fault = @ \/ Dead(evp, c)]
          /\ fed' = fed /\ UNCHANGED <<store, client>>
      BY <1>2, <2>2 DEF DigestSqueeze
    <3> DEFINE x == [AlgOf(c) EXCEPT !.state = "squeeze"]
    <3>2. AlgOf(c) \in AlgRecords /\ Runs(AlgOf(c), fed[c]) /\ fed[c] \in FedRecords
      BY <3>1, Usable
    <3>3. x \in AlgRecords /\ x.state = "squeeze" /\ x.data = AlgOf(c).data
      BY <3>1, <3>2 DEF AlgRecords
    <3>4. evp' = Touch(evp, a, x, c)
      BY <3>1 DEF Touch, AlgOf
    <3> HIDE DEF x
    <3>5. x # Freed /\ Runs(x, fed[c])
      BY <3>2, <3>3 DEF Freed, Runs
    <3>6. fed' = [fed EXCEPT ![c] = fed[c]]
      BY <3>1 DEF EInv
    <3> QED
      BY <3>1, <3>2, <3>3, <3>4, <3>5, <3>6, TouchKeeps
  <2> QED
    BY <2>1, <2>2
<1> QED
  BY <1>1, <1>2

\* dfinal was called on c and left its provider context in the state x.
Finalised(c, x) ==
  [evp EXCEPT !.ctx[c].finalised = TRUE, !.alg[evp.ctx[c].algctx] = x, !.fault = @ \/ Dead(evp, c)]

\* A context keeps what it holds when dfinal was called.
LEMMA FinalisedReady ==
  ASSUME EInv, NEW c \in Ctxs, MayUse(c), evp.ctx[c].digest # None,
         NEW x \in AlgRecords, x # Freed
  PROVE  LET t == Finalised(c, x)
         IN  /\ t \in Lib /\ Ready(t, Others, c) /\ PairedAt(t, c)
             /\ t.ctx[c].algctx = evp.ctx[c].algctx /\ t.alg[t.ctx[c].algctx] = x
<1> DEFINE a == evp.ctx[c].algctx
           t == Finalised(c, x)
           y == [evp.ctx[c] EXCEPT !.finalised = TRUE]
<1>1. evp \in Lib /\ Mid(evp, Others) /\ PairedAt(evp, c) /\ Ready(evp, Others, c) /\ evp.ctx[c] # None
  BY Start DEF MayUse, Live
<1>2. a \in Algs /\ a # None /\ ~Dead(evp, c)
  BY Usable
<1>3. /\ t.ctx = [evp.ctx EXCEPT ![c] = y] /\ t.ref = evp.ref
      /\ t.fault = (evp.fault \/ Dead(evp, c)) /\ t.alg = [evp.alg EXCEPT ![a] = x]
  BY <1>1 DEF Lib, Finalised
<1>4. /\ y \in CtxRecords /\ y.algctx = a /\ y.fetched = evp.ctx[c].fetched
      /\ y.digest = evp.ctx[c].digest
  BY <1>1, LibFields DEF CtxRecords
<1>5. y # None
  BY <1>4, EvpDigestAssumption
<1>6. DOMAIN t = {"ctx", "ref", "alg", "fault"} /\ t = [f \in DOMAIN t |-> t[f]]
  BY <1>1 DEF Lib, Finalised
<1> HIDE DEF t, y
<1>7. evp.ctx \in [Ctxs -> CtxRecords \cup {None}] /\ evp.alg \in [Algs -> AlgRecords]
      /\ evp.ref \in [Mds -> Int] /\ evp.fault \in BOOLEAN
  BY <1>1, LibFields
<1>8. t.ctx \in [Ctxs -> CtxRecords \cup {None}] /\ t.ctx[c] = y
      /\ \A d \in Ctxs \ {c} : t.ctx[d] = evp.ctx[d]
  BY <1>3, <1>4, <1>7
<1>9. t.alg \in [Algs -> AlgRecords] /\ t.alg[a] = x
      /\ \A b \in Algs \ {a} : t.alg[b] = evp.alg[b]
  BY <1>2, <1>3, <1>7
<1>10. ~t.fault /\ t.fault \in BOOLEAN
  BY <1>1, <1>2, <1>3 DEF Mid
<1>11. t \in Lib
  BY <1>3, <1>6, <1>7, <1>8, <1>9, <1>10 DEF Lib
<1>12. Mid(t, Others) /\ Untouched(evp, t, c)
  <2>1. /\ t.ctx[c] # None /\ t.ctx[c].algctx = evp.ctx[c].algctx
        /\ t.ctx[c].fetched = evp.ctx[c].fetched
        /\ t.ref = evp.ref /\ t.alg[a] # Freed
    BY <1>3, <1>4, <1>5, <1>8, <1>9
  <2> QED
    BY <1>1, <1>2, <1>8, <1>9, <1>10, <1>11, <2>1, OwnAlgStep
<1>13. PairedAt(t, c)
  BY <1>1, <1>4, <1>8 DEF PairedAt
<1>14. Ready(t, Others, c)
  BY <1>5, <1>8, <1>12 DEF Ready
<1>15. t.ctx[c].algctx = evp.ctx[c].algctx /\ t.alg[t.ctx[c].algctx] = x
  BY <1>4, <1>8, <1>9
<1> QED
  BY <1>11, <1>13, <1>14, <1>15 DEF t

\* EVP_DigestFinal_ex keeps what the context holds and its data, whether or not
\* it succeeds.
LEMMA FinalReady ==
  ASSUME EInv, NEW c \in Ctxs, MayUse(c), NEW r \in FinalEx(c)
  PROVE  LET t == r.lib
         IN  /\ t \in Lib /\ Ready(t, Others, c) /\ PairedAt(t, c)
             /\ t.ctx[c].algctx = evp.ctx[c].algctx
             /\ fed[c] # None => Runs(t.alg[t.ctx[c].algctx], fed[c])
<1> DEFINE a == evp.ctx[c].algctx
           called == [evp EXCEPT !.ctx[c].finalised = TRUE, !.fault = @ \/ Dead(evp, c)]
           x == [AlgOf(c) EXCEPT !.state = "final"]
<1>1. evp \in Lib /\ Mid(evp, Others) /\ PairedAt(evp, c) /\ Ready(evp, Others, c) /\ evp.ctx[c] # None
  BY Start DEF MayUse, Live
<1>2. CASE r.lib = evp
  <2>1. fed[c] # None => Runs(evp.alg[evp.ctx[c].algctx], fed[c])
    BY DEF EInv, FedRight
  <2> QED
    BY <1>1, <1>2, <2>1
<1>3. CASE r.lib # evp
  <2>1. evp.ctx[c].digest # None
    BY <1>3 DEF FinalEx
  <2>2. \/ r.lib = called
        \/ r.lib = [called EXCEPT !.alg[a].state = "final"] /\ AlgOf(c).state = "open"
    BY <1>3 DEF FinalEx
  <2>3. /\ a \in Algs /\ AlgOf(c) \in AlgRecords /\ AlgOf(c) # Freed /\ Runs(AlgOf(c), fed[c])
    BY <2>1, Usable
  <2>4. x \in AlgRecords /\ x.state = "final" /\ x.data = AlgOf(c).data
    BY <2>3 DEF AlgRecords
  <2>5. called = Finalised(c, AlgOf(c))
    <3>1. [evp.alg EXCEPT ![a] = AlgOf(c)] = evp.alg
      BY <1>1, <2>3, LibFields DEF AlgOf
    <3> QED
      BY <1>1, <3>1 DEF Finalised, Lib
  <2>6. [called EXCEPT !.alg[a].state = "final"] = Finalised(c, x)
    BY <1>1 DEF Finalised, Lib, AlgOf
  <2> HIDE DEF called, x
  <2>7. x # Freed /\ (AlgOf(c).state = "open" => Runs(x, fed[c]))
    BY <2>3, <2>4 DEF Freed, Runs
  <2>8. PICK z \in AlgRecords : z # Freed /\ Runs(z, fed[c]) /\ r.lib = Finalised(c, z)
    BY <2>2, <2>3, <2>4, <2>5, <2>6, <2>7
  <2>9. PICK t : t = Finalised(c, z)
    OBVIOUS
  <2>10. /\ t \in Lib /\ Ready(t, Others, c) /\ PairedAt(t, c)
         /\ t.ctx[c].algctx = evp.ctx[c].algctx /\ t.alg[t.ctx[c].algctx] = z
    BY <2>1, <2>8, <2>9, FinalisedReady
  <2> QED
    BY <2>8, <2>9, <2>10
<1> QED
  BY <1>2, <1>3

\* EVP_DigestFinal_ex, and EVP_DigestFinal, which also clears the context.
LEMMA FinalSteps ==
  ASSUME EInv, NEW c \in Ctxs, DigestFinal(c) \/ DigestFinalEx(c)
  PROVE  EInv'
<1>1. MayUse(c) /\ UNCHANGED <<store, client>>
  BY DEF DigestFinal, DigestFinalEx
<1>2. PICK r \in FinalEx(c) :
        \/ DigestFinalEx(c) /\ evp' = r.lib
        \/ DigestFinal(c) /\ evp' = Reset(r.lib, c)
  BY DEF DigestFinal, DigestFinalEx
<1>3. PICK t : t = r.lib
  OBVIOUS
<1>4. /\ t \in Lib /\ Ready(t, Others, c) /\ PairedAt(t, c) /\ t.ctx[c].algctx = evp.ctx[c].algctx
      /\ fed[c] # None => Runs(t.alg[t.ctx[c].algctx], fed[c])
  BY <1>1, <1>3, FinalReady
<1>5. PICK others \in [Mds -> Nat] : others = Others
  BY Start
<1>6. Others' = others /\ client' \in [Mds -> Nat] /\ store' \in SUBSET Mds
      /\ fed \in [Ctxs -> FedRecords \cup {None}]
  BY <1>1, <1>5 DEF Others, EInv
<1>7. Mid(t, others) /\ Untouched(evp, t, c) /\ t.ctx[c] # None
  BY <1>4, <1>5 DEF Ready
<1>8. CASE DigestFinalEx(c) /\ evp' = t
  <2>1. fed' = fed
    BY <1>8 DEF DigestFinalEx
  <2>2. fed' = [fed EXCEPT ![c] = fed[c]] /\ fed[c] \in FedRecords \cup {None}
    BY <1>6, <2>1
  <2>3. fed[c] # None => t.ctx[c] # None /\ t.ctx[c].algctx # None
                         /\ Runs(t.alg[t.ctx[c].algctx], fed[c])
    BY <1>4, <1>7 DEF EInv, FedRight
  <2>4. Mid(t, Others')
    BY <1>6, <1>7
  <2> QED
    BY <1>4, <1>6, <1>7, <1>8, <2>2, <2>3, <2>4, Finish
<1>9. CASE DigestFinal(c) /\ evp' = Reset(t, c)
  <2>1. fed' = [fed EXCEPT ![c] = None]
    BY <1>9 DEF DigestFinal
  <2>2. /\ Mid(Reset(t, c), others) /\ Untouched(t, Reset(t, c), c)
        /\ Reset(t, c).ctx = [t.ctx EXCEPT ![c] = Unused]
    BY <1>4, <1>7, ResetStep
  <2>3. PICK u \in Lib : u = Reset(t, c)
    BY <2>2 DEF Mid
  <2>4. Mid(u, Others') /\ Untouched(evp, u, c) /\ u.ctx = [t.ctx EXCEPT ![c] = Unused]
    BY <1>6, <1>7, <2>2, <2>3, UntouchedTwice
  <2>5. u.ctx[c] = Unused
    BY <1>4, <2>4, LibFields
  <2>6. PairedAt(u, c)
    BY <2>5, UnusedRecord DEF PairedAt
  <2>7. evp' = u
    BY <1>9, <2>3
  <2> QED
    BY <1>6, <2>1, <2>4, <2>6, <2>7, Finish
<1> QED
  BY <1>2, <1>3, <1>8, <1>9

-----------------------------------------------------------------------------
(* Copying a context *)

\* dupctx of the provider for the copy out of in.
Dup(u, out, in, a) ==
  [u EXCEPT !.ctx[out].algctx = a, !.alg[a] = u.alg[u.ctx[in].algctx], !.fault = @ \/ Dead(u, in)]

\* The fields that changes.
LEMMA DupFields ==
  ASSUME NEW u \in Lib, NEW out \in Ctxs, NEW in \in Ctxs, u.ctx[out] # None,
         NEW a \in Algs, u.ctx[in].algctx \in Algs
  PROVE  LET t == Dup(u, out, in, a)
         IN  /\ t \in Lib /\ t.ref = u.ref /\ t.fault = (u.fault \/ Dead(u, in))
             /\ t.alg[a] = u.alg[u.ctx[in].algctx] /\ \A b \in Algs \ {a} : t.alg[b] = u.alg[b]
             /\ \A d \in Ctxs \ {out} : t.ctx[d] = u.ctx[d]
             /\ t.ctx[out] # None /\ t.ctx[out].algctx = a
             /\ t.ctx[out].fetched = u.ctx[out].fetched
             /\ t.ctx[out].digest = u.ctx[out].digest
<1> DEFINE t == Dup(u, out, in, a)
           y == [u.ctx[out] EXCEPT !.algctx = a]
           x == u.alg[u.ctx[in].algctx]
<1>1. /\ t.ref = u.ref /\ t.fault = (u.fault \/ Dead(u, in))
      /\ t.ctx = [u.ctx EXCEPT ![out] = y] /\ t.alg = [u.alg EXCEPT ![a] = x]
  BY DEF Lib, Dup
<1>2. /\ y \in CtxRecords /\ y.algctx = a /\ y.fetched = u.ctx[out].fetched
      /\ y.digest = u.ctx[out].digest
  BY LibFields DEF CtxRecords
<1>3. y # None
  BY <1>2, EvpDigestAssumption
<1>4. x \in AlgRecords
  BY LibFields
<1>5. t.ctx[out] = y /\ \A d \in Ctxs \ {out} : t.ctx[d] = u.ctx[d]
  BY <1>1, LibFields
<1>6. t.alg[a] = x /\ \A b \in Algs \ {a} : t.alg[b] = u.alg[b]
  BY <1>1, LibFields
<1>7. t.ctx \in [Ctxs -> CtxRecords \cup {None}] /\ t.alg \in [Algs -> AlgRecords]
  BY <1>1, <1>2, <1>4, LibFields
<1>8. t.fault \in BOOLEAN
  BY <1>1, LibFields DEF Dead
<1>9. t \in Lib
  BY <1>1, <1>7, <1>8 DEF Lib, Dup
<1> HIDE DEF t, y, x
<1>10. /\ t \in Lib /\ t.ref = u.ref /\ t.fault = (u.fault \/ Dead(u, in))
       /\ t.alg[a] = x /\ (\A b \in Algs \ {a} : t.alg[b] = u.alg[b])
       /\ (\A d \in Ctxs \ {out} : t.ctx[d] = u.ctx[d])
       /\ t.ctx[out] # None /\ t.ctx[out].algctx = a
       /\ t.ctx[out].fetched = u.ctx[out].fetched
       /\ t.ctx[out].digest = u.ctx[out].digest
  BY <1>1, <1>2, <1>3, <1>5, <1>6, <1>9
<1> QED
  BY <1>10 DEF t, x

\* The copy before dupctx: out has the method of in and a reference to it.
LEMMA Emptied ==
  ASSUME EInv, NEW out \in Ctxs, NEW in \in Ctxs, in # out, Live(out), Live(in),
         evp.ctx[in].digest # None, NEW others \in [Mds -> Nat], others = Others
  PROVE  LET x == evp.ctx[in]
             s == FreeAlgctx(evp, out)
             t == IF s.ctx[out].fetched = x.fetched THEN s
                  ELSE UpRef(FreeFetched(s, out), x.fetched)
             u == [t EXCEPT !.ctx[out] = [x EXCEPT !.algctx = None]]
         IN  /\ u \in Lib /\ Ready(u, others, out) /\ PairedAt(u, out)
             /\ u.ctx[out].algctx = None /\ u.ctx[out].fetched = x.fetched
             /\ u.ctx[out].digest = x.digest
<1>1. PICK x : x = evp.ctx[in]
  OBVIOUS
<1>2. evp \in Lib /\ Mid(evp, others) /\ PairedAt(evp, out) /\ PairedAt(evp, in) /\ evp.ctx[out] # None
      /\ evp.ctx[in] # None
  BY Start DEF Live
<1>3. x \in CtxRecords /\ x.digest \in Mds /\ x.fetched = x.digest
  BY <1>1, <1>2, LibFields DEF PairedAt
<1>4. PICK m \in Mds : m = x.fetched
  BY <1>3
<1> DEFINE z == [x EXCEPT !.algctx = None]
           y == [evp.ctx[out] EXCEPT !.algctx = None]
<1>5. z \in CtxRecords /\ z.algctx = None /\ z.fetched = m /\ z.digest = m
  BY <1>3, <1>4 DEF CtxRecords
<1>6. z # None
  BY <1>5, EvpDigestAssumption
<1>7. PICK s : s = FreeAlgctx(evp, out)
  OBVIOUS
<1>8. s \in Lib /\ Mid(s, others) /\ Untouched(evp, s, out)
      /\ s.ctx = [evp.ctx EXCEPT ![out].algctx = None]
  BY <1>2, <1>7, FreeAlgctxStep DEF Mid
<1>9. y \in CtxRecords /\ y.algctx = None
  BY <1>2, LibFields DEF CtxRecords
<1>10. y # None
  BY <1>9, EvpDigestAssumption
<1>11. s.ctx[out] # None /\ s.ctx[out].algctx = None
  BY <1>2, <1>8, <1>9, <1>10, LibFields
<1> HIDE DEF y, z
<1>12. PICK t : t = IF s.ctx[out].fetched = m THEN s ELSE UpRef(FreeFetched(s, out), m)
  OBVIOUS
<1>13. PICK u : u = [t EXCEPT !.ctx[out] = z]
  OBVIOUS
<1>14. ASSUME t \in Lib
       PROVE  /\ u \in Lib /\ u.ref = t.ref /\ u.alg = t.alg /\ u.fault = t.fault
              /\ u.ctx[out] = z /\ (\A d \in Ctxs \ {out} : u.ctx[d] = t.ctx[d])
              /\ Untouched(t, u, out)
  BY <1>5, <1>13, <1>14, CtxUpdate
<1>15. u \in Lib /\ Mid(u, others) /\ Untouched(evp, u, out) /\ u.ctx[out] = z
  <2>1. CASE s.ctx[out].fetched = m
    <3>1. t = s
      BY <1>12, <2>1
    <3>2. /\ u \in Lib /\ u.ref = s.ref /\ u.alg = s.alg /\ u.fault = s.fault
          /\ u.ctx[out] = z /\ (\A d \in Ctxs \ {out} : u.ctx[d] = s.ctx[d])
          /\ Untouched(s, u, out)
      BY <1>8, <1>14, <3>1
    <3>3. ~u.fault
      BY <1>8, <3>2 DEF Mid
    <3>4. \A d \in Ctxs : /\ u.ctx[d] = None <=> s.ctx[d] = None
                          /\ s.ctx[d] # None => /\ u.ctx[d].algctx = s.ctx[d].algctx
                                               /\ u.ctx[d].fetched = s.ctx[d].fetched
      BY <1>5, <1>6, <1>11, <2>1, <3>2
    <3>5. Mid(u, others)
      <4>1. s \in Lib /\ u \in Lib /\ Mid(s, others) /\ u.ref = s.ref
            /\ \A a \in Algs : u.alg[a] = Freed <=> s.alg[a] = Freed
        BY <1>8, <3>2
      <4> QED
        BY <3>3, <3>4, <4>1, SameHold
    <3> QED
      BY <1>8, <3>2, <3>5, UntouchedTwice
  <2>2. CASE s.ctx[out].fetched # m
    <3>1. /\ Mid(FreeFetched(s, out), others) /\ Untouched(s, FreeFetched(s, out), out)
          /\ FreeFetched(s, out).ctx = [s.ctx EXCEPT ![out].fetched = None]
      BY <1>8, <1>11, FreeFetchedStep
    <3>2. PICK f \in Lib : f = FreeFetched(s, out)
      BY <3>1 DEF Mid
    <3>3. Mid(f, others) /\ Untouched(s, f, out) /\ f.ctx = [s.ctx EXCEPT ![out].fetched = None]
      BY <3>1, <3>2
    <3>4. t = UpRef(f, m)
      BY <1>12, <2>2, <3>2
    <3>5. Mid(t, Plus(others, m)) /\ t.ctx = f.ctx /\ Untouched(f, t, out)
      BY <3>3, <3>4, UpRefStep
    <3>6. t \in Lib
      BY <3>5 DEF Mid
    <3>7. f.ctx[out] = [s.ctx[out] EXCEPT !.fetched = None]
      BY <1>8, <3>3, LibFields
    <3>8. t.ctx[out] # None /\ t.ctx[out].fetched = None /\ t.ctx[out].algctx = None
      <4>1. None \in Mds \cup {None} /\ s \in Lib /\ s.ctx[out] # None
        BY <1>8, <1>11
      <4>2. LET w == [s.ctx[out] EXCEPT !.fetched = None]
            IN  /\ w \in CtxRecords /\ w # None /\ w.fetched = None
                /\ w.algctx = s.ctx[out].algctx /\ w.digest = s.ctx[out].digest
        BY <4>1, RecordFetched
      <4> QED
        BY <1>11, <3>5, <3>7, <4>2
    <3>9. /\ u \in Lib /\ u.ref = t.ref /\ u.alg = t.alg /\ u.fault = t.fault
          /\ u.ctx[out] = z /\ Untouched(t, u, out)
      BY <1>14, <3>6
    <3>10. /\ ~u.fault /\ u.ctx[out] # None /\ u.ctx[out].fetched = m
           /\ u.ctx[out].algctx = t.ctx[out].algctx
      BY <1>5, <1>6, <3>5, <3>8, <3>9 DEF Mid
    <3>11. Mid(u, others)
      BY <3>5, <3>6, <3>8, <3>9, <3>10, HoldStep
    <3>12. Untouched(evp, u, out)
      BY <1>8, <3>3, <3>5, <3>9, UntouchedTrans
    <3> QED
      BY <3>9, <3>11, <3>12
  <2> QED
    BY <2>1, <2>2
<1>16. Ready(u, others, out)
  BY <1>6, <1>15 DEF Ready
<1>17. PairedAt(u, out)
  BY <1>5, <1>15 DEF PairedAt
<1> QED
  BY <1>1, <1>3, <1>4, <1>5, <1>7, <1>12, <1>13, <1>15, <1>16, <1>17 DEF z

\* EVP_MD_CTX_copy_ex: the copy has its own reference and its own provider
\* context, or none after a failure.
LEMMA CopyStep ==
  ASSUME EInv, NEW out \in Ctxs, NEW in \in Ctxs, CtxCopyEx(out, in)
  PROVE  EInv'
<1>1. Live(out) /\ Live(in) /\ UNCHANGED <<store, client>>
  BY Zenon DEF CtxCopyEx, SetUp
<1>2. PICK x : x = evp.ctx[in]
  OBVIOUS
<1>3. PICK others \in [Mds -> Nat] : others = Others
  BY Start
<1>4. Others' = others /\ store' \in SUBSET Mds
  BY <1>1, <1>3 DEF Others, EInv
<1>5. evp \in Lib /\ Mid(evp, others) /\ PairedAt(evp, in) /\ evp.ctx[in] # None
  BY <1>1, <1>3, Start DEF Live
<1>6. /\ x \in CtxRecords /\ x.fetched = x.digest /\ x.digest \in Mds \cup {None}
      /\ (x.digest = None => x.algctx = None) /\ x.algctx \in Algs \cup {None}
  BY <1>2, <1>5, LibFields DEF PairedAt
<1>7. CASE LET r == Reset(evp, out) IN SetUp(out, [r EXCEPT !.ctx[out] = r.ctx[in]], 1, None)
           /\ x.digest = None
  <2>1. PICK s \in Lib : s = Reset(evp, out)
    BY <1>1, ResetReady
  <2>2. Mid(s, others) /\ Untouched(evp, s, out) /\ s.ctx[out] = Unused
    BY <1>1, <1>3, <2>1, ResetReady DEF Ready
  <2>3. PICK y : y = s.ctx[in]
    OBVIOUS
  <2>4. y = x \/ y = Unused
    BY <1>2, <2>2, <2>3 DEF Untouched
  <2>5. /\ y \in CtxRecords \cup {None} /\ y # None /\ Empty(y) /\ y.fetched = y.digest
        /\ y.algctx = None
    BY <1>2, <1>5, <1>6, <1>7, <2>4, UnusedRecord DEF Empty
  <2>6. Empty(s.ctx[out])
    BY <2>2, UnusedRecord
  <2>7. PICK t \in Lib : t = [s EXCEPT !.ctx[out] = y]
    BY <2>2, <2>5, <2>6, EmptyStep
  <2>8. Mid(t, others) /\ Untouched(s, t, out) /\ t.ctx[out] = y
    BY <2>2, <2>5, <2>6, <2>7, EmptyStep
  <2>9. Untouched(evp, t, out)
    BY <2>2, <2>8, UntouchedTwice
  <2>10. Ready(t, Others', out) /\ PairedAt(t, out)
    BY <1>4, <2>5, <2>8, <2>9 DEF Ready, PairedAt
  <2>11. SetUp(out, t, 1, None)
    BY <1>7, <2>1, <2>3, <2>7
  <2> QED
    BY <1>4, <2>10, <2>11, SetUpKeeps
<1>a. CASE SetUp(out, evp, 0, fed[out])
  <2>1. UNCHANGED <<evp, store, client, fed>>
    BY <1>1, <1>a DEF SetUp, EInv
  <2> QED
    BY <2>1, Refused
<1>b. CASE SetUp(out, FreeAlgctx(evp, out), 1, None)
  <2>1. PICK s : s = FreeAlgctx(evp, out)
    OBVIOUS
  <2>2. PairedAt(evp, out) /\ evp.ctx[out] # None
    BY <1>1, Start DEF Live
  <2>3. Mid(s, others) /\ Untouched(evp, s, out) /\ s.ctx = [evp.ctx EXCEPT ![out].algctx = None]
    BY <1>5, <2>1, <2>2, FreeAlgctxStep
  <2> DEFINE y == [evp.ctx[out] EXCEPT !.algctx = None]
  <2>4. y \in CtxRecords /\ y.algctx = None /\ y.fetched = evp.ctx[out].fetched
        /\ y.digest = evp.ctx[out].digest
    BY <1>5, <2>2, LibFields DEF CtxRecords
  <2>5. y # None
    BY <2>4, EvpDigestAssumption
  <2>6. s.ctx[out] = y
    BY <1>5, <2>3, LibFields
  <2> HIDE DEF y
  <2>7. s \in Lib /\ Ready(s, Others', out) /\ PairedAt(s, out)
    BY <1>4, <2>2, <2>3, <2>4, <2>5, <2>6 DEF Ready, Mid, PairedAt
  <2> QED
    BY <1>4, <1>b, <2>1, <2>7, SetUpKeeps
<1>8. CASE x.digest # None /\ in # out
  <2>1. PICK s : s = FreeAlgctx(evp, out)
    OBVIOUS
  <2>2. PICK t : t = IF s.ctx[out].fetched = x.fetched THEN s
                     ELSE UpRef(FreeFetched(s, out), x.fetched)
    OBVIOUS
  <2>3. PICK u : u = [t EXCEPT !.ctx[out] = [x EXCEPT !.algctx = None]]
    OBVIOUS
  <2>4. /\ u \in Lib /\ Ready(u, others, out) /\ PairedAt(u, out)
        /\ u.ctx[out].algctx = None /\ u.ctx[out].fetched = x.fetched
        /\ u.ctx[out].digest = x.digest
    <3>1. evp.ctx[in].digest # None
      BY <1>2, <1>8
    <3> QED
      BY <1>1, <1>2, <1>3, <1>8, <2>1, <2>2, <2>3, <3>1, Emptied
  <2>5. Ready(u, Others', out)
    BY <1>4, <2>4
  <2>6. ASSUME SetUp(out, u, 1, None) \/ SetUp(out, u, 0, None) PROVE EInv'
    BY <1>4, <2>4, <2>5, <2>6, SetUpKeeps
  <2>7. ASSUME x.algctx # None, NEW a \in FreeAlgs(u), SetUp(out, Dup(u, out, in, a), 1, fed[in])
        PROVE  EInv'
    <3>1. Mid(u, others) /\ Untouched(evp, u, out) /\ u.ctx[out] # None
      BY <2>4 DEF Ready
    <3>2. a \in Algs /\ x.algctx \in Algs /\ u.ctx[in] = x /\ u.alg[x.algctx] = evp.alg[x.algctx]
      BY <1>1, <1>2, <1>5, <1>6, <1>8, <2>7, <3>1 DEF FreeAlgs, Untouched
    <3>3. PICK v \in Lib : v = Dup(u, out, in, a)
      BY <2>4, <3>1, <3>2, DupFields
    <3>4. /\ v.ref = u.ref /\ v.fault = (u.fault \/ Dead(u, in))
          /\ v.alg[a] = u.alg[u.ctx[in].algctx] /\ (\A b \in Algs \ {a} : v.alg[b] = u.alg[b])
          /\ (\A d \in Ctxs \ {out} : v.ctx[d] = u.ctx[d])
          /\ v.ctx[out] # None /\ v.ctx[out].algctx = a
          /\ v.ctx[out].fetched = u.ctx[out].fetched
          /\ v.ctx[out].digest = u.ctx[out].digest
      BY <2>4, <3>1, <3>2, <3>3, DupFields
    <3>5. ~v.fault
      <4>1. u.ctx[in] # None /\ u.ctx[in].fetched \in Mds /\ u.ctx[in].fetched = u.ctx[in].digest
        BY <1>2, <1>5, <1>6, <1>8, <3>2
      <4>2. u.ref[u.ctx[in].fetched] > 0
        BY <2>4, <3>1, <4>1, HolderKeepsAlive DEF Mid
      <4>3. ~Dead(u, in)
        BY <4>1, <4>2 DEF Dead
      <4> QED
        BY <3>1, <3>4, <4>3 DEF Mid
    <3>6. v.alg[a] # Freed
      BY <1>2, <1>5, <3>1, <3>2, <3>4 DEF Mid, Owned
    <3>7. Mid(v, others) /\ Untouched(u, v, out)
      BY <2>4, <3>1, <3>4, <3>5, <3>6, TakeAlg
    <3>8. Untouched(evp, v, out)
      BY <3>1, <3>7, UntouchedTwice
    <3>9. Ready(v, Others', out)
      BY <1>4, <3>4, <3>7, <3>8 DEF Ready
    <3>10. PairedAt(v, out)
      BY <1>6, <1>8, <2>4, <3>4 DEF PairedAt
    <3>11. fed[in] \in FedRecords \cup {None}
      BY DEF EInv
    <3>12. fed[in] # None => v.ctx[out].algctx # None /\ Runs(v.alg[v.ctx[out].algctx], fed[in])
      <4>1. fed[in] # None => Runs(evp.alg[x.algctx], fed[in])
        BY <1>2 DEF EInv, FedRight
      <4> QED
        BY <3>2, <3>4, <4>1, EvpDigestAssumption
    <3>13. SetUp(out, v, 1, fed[in])
      BY <2>7, <3>3, SMTT(40)
    <3> QED
      BY <1>4, <3>9, <3>10, <3>11, <3>12, <3>13, SetUpKeeps
  <2>8. \/ SetUp(out, u, 1, None) \/ SetUp(out, u, 0, None)
        \/ SetUp(out, evp, 0, fed[out])
        \/ /\ x.algctx # None
           /\ \E a \in FreeAlgs(u) :
                SetUp(out, [u EXCEPT !.ctx[out].algctx = a, !.alg[a] = u.alg[x.algctx],
                                     !.fault = @ \/ Dead(u, in)], 1, fed[in])
    BY <1>2, <1>8, <2>1, <2>2, <2>3, Zenon DEF CtxCopyEx, Dupctx
  <2>9. u.ctx[in] = x
    BY <1>1, <1>2, <1>8, <2>4 DEF Ready, Untouched
  <2> QED
    BY <1>a, <2>6, <2>7, <2>8, <2>9 DEF Dup
<1> QED
  <2>1. x.digest = None =>
          LET r == Reset(evp, out) IN SetUp(out, [r EXCEPT !.ctx[out] = r.ctx[in]], 1, None)
    BY <1>2, <1>6, ZenonT(60) DEF CtxCopyEx
  <2>2. x.digest # None /\ in = out =>
          SetUp(out, evp, 0, fed[out]) \/ SetUp(out, FreeAlgctx(evp, out), 1, None)
    BY <1>2, ZenonT(60) DEF CtxCopyEx
  <2> QED
    BY <1>7, <1>8, <1>a, <1>b, <2>1, <2>2

-----------------------------------------------------------------------------
(* The theorems *)

\* Nothing is allocated at first.
LEMMA StartEmpty ==
  ASSUME Init
  PROVE  EInv
<1> USE DEF Init
<1>1. Freed \in AlgRecords
  BY DEF Freed, AlgRecords
<1>2. evp \in Lib
  BY <1>1 DEF Lib
<1>3. \A m \in Mds : Holders(evp, m) = {}
  BY DEF Holders
<1>4. \A m \in Mds : evp.ref[m] = 0 /\ Others[m] = 0
  BY DEF Others
<1>5. Refs(evp, Others)
  <2>1. \A m \in Mds : Cardinality(Holders(evp, m)) = 0
    BY <1>3, FS_EmptySet
  <2>2. \A m \in Mds : evp.ref[m] = Others[m] + Cardinality(Holders(evp, m))
    <3> HIDE DEF Init
    <3> QED
      BY <1>4, <2>1
  <2> QED
    BY <2>2 DEF Refs
<1>6. Owned(evp)
  BY DEF Owned
<1>7. Paired(evp) /\ FedRight(evp, fed)
  BY DEF Paired, FedRight
<1>8. client \in [Mds -> Nat] /\ store \in SUBSET Mds /\ fed \in [Ctxs -> FedRecords \cup {None}]
  OBVIOUS
<1>9. ~evp.fault
  OBVIOUS
<1> QED
  BY <1>2, <1>5, <1>6, <1>7, <1>8, <1>9 DEF EInv

\* Every call of the client keeps the invariant, whichever allocation fails.
LEMMA StepKeepsEInv ==
  ASSUME EInv, [Next]_vars
  PROVE  EInv'
<1>1. CASE UNCHANGED vars
  BY <1>1, Refused DEF vars
<1>2. ASSUME NEW m \in Mds, Fetch(m) \/ MdUpRef(m) \/ MdFree(m) \/ Flush(m)
      PROVE  EInv'
  BY <1>2, FetchKeeps, CountSteps
<1>3. ASSUME NEW c \in Ctxs, CtxNew(c) \/ CtxFree(c) \/ CtxReset(c)
      PROVE  EInv'
  BY <1>3, CtxSteps
<1>4. ASSUME NEW c \in Ctxs, NEW type \in Types, DigestInit(c, type) \/ DigestInitEx(c, type)
      PROVE  EInv'
  BY <1>4, InitSteps
<1>5. ASSUME NEW c \in Ctxs, (\E d \in Chunks \cup {None} : DigestUpdate(c, d)) \/ DigestSqueeze(c)
      PROVE  EInv'
  BY <1>5, UpdateSteps
<1>6. ASSUME NEW c \in Ctxs, DigestFinal(c) \/ DigestFinalEx(c)
      PROVE  EInv'
  BY <1>6, FinalSteps
<1>7. ASSUME NEW c \in Ctxs, NEW in \in Ctxs, CtxCopyEx(c, in)
      PROVE  EInv'
  BY <1>7, CopyStep
<1> QED
  BY <1>1, <1>2, <1>3, <1>4, <1>5, <1>6, <1>7 DEF Next

\* The inductive invariant of digest.c: counts, owners, and a context's method,
\* reference and provider context fit together after every call.
THEOREM EvpInvariance == Spec => []EInv
<1>1. Init => EInv
  BY StartEmpty
<1>2. EInv /\ [Next]_vars => EInv'
  BY StepKeepsEInv
<1> QED
  BY <1>1, <1>2, PTL DEF Spec

\* The count of a method is the number of its holders: nothing leaks and
\* nothing is freed early, for any number of contexts and methods.
THEOREM RefsCorrect == Spec => []RefsExact
<1>1. EInv => RefsExact
  BY DEF EInv, Refs, Others, Holders, RefsExact, Live
<1> QED
  BY <1>1, EvpInvariance, PTL

\* A provider context in use has exactly one context, also after copies and
\* after failures.
THEOREM OwnersCorrect == Spec => []AlgctxOwned
<1>1. ASSUME EInv PROVE AlgctxOwned
  <2>1. Owned(evp) /\ evp \in Lib
    BY <1>1 DEF EInv
  <2>2. \A c \in Ctxs : evp.ctx[c] # None => evp.ctx[c].algctx \in Algs \cup {None}
    BY <2>1, LibFields
  <2>3. Algs \ FreeAlgs(evp) = {evp.ctx[c].algctx : c \in {d \in Ctxs : Live(d)}} \ {None}
    BY <2>1, <2>2, EvpDigestAssumption DEF Owned, FreeAlgs, Live
  <2>4. \A c, d \in Ctxs :
          c # d /\ Live(c) /\ Live(d) /\ evp.ctx[c].algctx # None
            => evp.ctx[c].algctx # evp.ctx[d].algctx
    BY <2>1 DEF Owned, Live
  <2> QED
    BY <2>3, <2>4 DEF AlgctxOwned
<1> QED
  BY <1>1, EvpInvariance, PTL

\* No function of a freed method is called, on no path of digest.c.
THEOREM MethodsAlive == Spec => []NoUseAfterFree
<1>1. EInv => NoUseAfterFree
  BY DEF EInv, NoUseAfterFree
<1> QED
  BY <1>1, EvpInvariance, PTL

\* A final digest that is returned is the one of exactly the data its context
\* accepted since it was set up, and so is squeezed output unless the context
\* accepted data after output was taken, for all contexts and all data.
THEOREM DigestsRight == Spec => DigestsWhatWasFed
<1>1. ASSUME EInv, NEW c \in Ctxs, DigestFinal(c) \/ DigestFinalEx(c), ret' = 1
      PROVE  md' = fed[c].data
  <2>1. MayUse(c)
    BY <1>1 DEF DigestFinal, DigestFinalEx
  <2>2. PICK r \in FinalEx(c) : Result(c, r.ok)
    BY <1>1 DEF DigestFinal, DigestFinalEx
  <2>3. r.ok /\ md' = AlgOf(c).data
    BY <1>1, <2>2 DEF Result
  <2>4. evp.ctx[c].digest # None /\ AlgOf(c).state = "open"
    BY <2>3 DEF FinalEx
  <2>5. Runs(AlgOf(c), fed[c]) /\ fed[c] \in FedRecords
    BY <1>1, <2>1, <2>4, Usable
  <2> QED
    BY <2>3, <2>4, <2>5 DEF Runs, FedRecords
<1>2. ASSUME EInv, NEW c \in Ctxs, DigestSqueeze(c), ret' = 1, ~fed[c].late
      PROVE  md' = fed[c].data
  <2>1. MayUse(c) /\ evp.ctx[c].digest # None /\ md' = AlgOf(c).data
    BY <1>2 DEF DigestSqueeze, Result
  <2>2. Runs(AlgOf(c), fed[c])
    BY <1>2, <2>1, Usable
  <2> QED
    BY <1>2, <2>1, <2>2 DEF Runs
<1> DEFINE A == \A c \in Ctxs :
                  /\ (DigestFinal(c) \/ DigestFinalEx(c)) /\ ret' = 1 => md' = fed[c].data
                  /\ DigestSqueeze(c) /\ ret' = 1 /\ ~fed[c].late => md' = fed[c].data
<1>3. EInv => A
  BY <1>1, <1>2
<1> HIDE DEF A
<1>4. []EInv => [][A]_vars
  BY <1>3, PTL
<1> QED
  BY <1>4, EvpInvariance DEF DigestsWhatWasFed, A
=============================================================================
