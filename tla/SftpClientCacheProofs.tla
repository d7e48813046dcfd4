------------------------ MODULE SftpClientCacheProofs ------------------------
(***************************************************************************)
(* Proofs about SftpClientCache for any number of sessions and operations. *)
(* The inductive invariant follows a client's life: it is cached for its   *)
(* session until somebody detaches it, a detached client is closed as soon *)
(* as nobody holds it, and the reference count says how many do.           *)
(***************************************************************************)
EXTENDS SftpClientCache, FiniteSetTheorems, TLAPS

UsePC == {"using", "erred", "done"}

\* The client has been put into the cache.
Inserted(c) == c \in made /\ pc[c] \in UsePC

\* What an operation works with is not closed.
HeldSound ==
    \A o \in Ops : held[o] # None =>
        /\ sessionOf[held[o]] = sessionOf[o]
        /\ closes[held[o]] = 0
        /\ Inserted(held[o])

\* What the cache has for a session is its own, open and not detached.
CachedSound ==
    \A s \in Sessions : cached[s] # None =>
        /\ sessionOf[cached[s]] = s
        /\ ~closing[cached[s]] /\ closes[cached[s]] = 0
        /\ Inserted(cached[s])

\* A client is detached after it was inserted, and closed after it was
\* detached.
LifeCycle ==
    \A c \in Ops :
        /\ closing[c] => Inserted(c)
        /\ closes[c] > 0 => closing[c]
        /\ closes[c] <= 1

\* A client that was opened is about to be inserted, in the cache, or detached.
MadeSound ==
    \A c \in Ops :
        /\ pc[c] = "opened" => c \in made
        /\ c \in made => /\ pc[c] \in UsePC \union {"opened"}
                         /\ pc[c] = "opened" \/ closing[c] \/ cached[sessionOf[c]] = c

\* A detached client is held by somebody or closed.
DetachedClosed ==
    \A c \in Ops : closing[c] /\ Holders(c) = {} => closes[c] > 0

IInv ==
    /\ TypeOK
    /\ RefsExact
    /\ HeldSound
    /\ CachedSound
    /\ LifeCycle
    /\ MadeSound
    /\ DetachedClosed
-----------------------------------------------------------------------------
(* Type correctness *)

\* Detaching clients keeps the cache typed.
LEMMA DetachType ==
    ASSUME TypeOK, NEW S \in SUBSET Sessions, Detach(S)
    PROVE  /\ cached' \in [Sessions -> Ops \union {None}]
           /\ closing' \in [Ops -> BOOLEAN]
           /\ closes' \in [Ops -> Nat]
BY DEF TypeOK, Detach, Idle

\* Dropping a reference keeps the types.
LEMMA ReleaseType ==
    ASSUME TypeOK, NEW o \in Ops, NEW to \in {"miss", "done"},
           pc[o] \in {"probing", "using", "erred"}, pc' = [pc EXCEPT ![o] = to],
           NEW detach \in BOOLEAN, Release(o, detach)
    PROVE  TypeOK'
<1>1. held[o] \in Ops /\ sessionOf[o] \in Sessions
  BY DEF TypeOK
<1>2. refs' \in [Ops -> Nat] /\ closing' \in [Ops -> BOOLEAN]
  BY <1>1 DEF Release, TypeOK
<1>3. cached' \in [Sessions -> Ops \union {None}] /\ closes' \in [Ops -> Nat]
  BY <1>1, <1>2 DEF Release, TypeOK
<1>4. /\ held' \in [Ops -> Ops \union {None}]
      /\ \A p \in Ops : held'[p] # None <=> pc'[p] \in {"probing", "using", "erred"}
  BY DEF Release, TypeOK
<1> QED BY <1>2, <1>3, <1>4 DEF Release, TypeOK, lockVars

\* Every step of an operation keeps the types.
LEMMA OpStepType ==
    ASSUME TypeOK, NoneAssumption, NEW o \in Ops, OpStep(o)
    PROVE  TypeOK'
<1> USE DEF Goto, cacheVars, lockVars
<1>0. sessionOf[o] \in Sessions
  BY DEF TypeOK
<1>1. CASE Acquire(o)
  <2>1. CASE cached[sessionOf[o]] # None /\ Hit(o)
    BY <1>0, <1>1, <2>1, NoneAssumption DEF Acquire, Hit, TypeOK
  <2>2. CASE cached[sessionOf[o]] = None /\ UNCHANGED <<held, refs>>
    BY <1>1, <2>2 DEF Acquire, TypeOK
  <2> QED BY <1>1, <2>1, <2>2 DEF Acquire
<1>2. CASE ProbeSucceeds(o)
  BY <1>2 DEF ProbeSucceeds, TypeOK
<1>3. CASE ProbeFails(o)
  BY <1>3, ReleaseType DEF ProbeFails
<1>4. CASE GetLock(o)
  BY <1>0, <1>4 DEF GetLock, TypeOK
<1>5. CASE Lock(o)
  BY <1>5 DEF Lock, TypeOK
<1>6. CASE Recheck(o)
  <2>1. CASE cached[sessionOf[o]] # None /\ Hit(o)
    BY <1>0, <1>6, <2>1, NoneAssumption DEF Recheck, Hit, TypeOK
  <2>2. CASE cached[sessionOf[o]] = None
    <3>1. /\ pc[o] = "locked"
          /\ pc' = [pc EXCEPT ![o] = "creating"]
          /\ UNCHANGED <<held, refs, sessionOf, ssh, made, createMu, lock>>
      BY <1>6, <2>2 DEF Recheck
    <3>2. /\ cached' \in [Sessions -> Ops \union {None}]
          /\ closing' \in [Ops -> BOOLEAN]
          /\ closes' \in [Ops -> Nat]
      <4>1. CASE UNCHANGED <<cached, closing, closes>>
        BY <4>1 DEF TypeOK
      <4>2. CASE \E oldest \in CachedSessions : Detach({oldest})
        BY <4>2, DetachType DEF CachedSessions
      <4> QED BY <1>6, <2>2, <4>1, <4>2 DEF Recheck
    <3> QED BY <3>1, <3>2 DEF TypeOK
  <2> QED BY <1>6, <2>1, <2>2 DEF Recheck
<1>7. CASE Open(o)
  BY <1>7 DEF Open, TypeOK
<1>8. CASE Insert(o)
  BY <1>0, <1>8, NoneAssumption DEF Insert, TypeOK, Idle
<1>9. CASE ConnectionError(o)
  <2>1. Detach({sessionOf[o]}) /\ createMu' = [createMu EXCEPT ![sessionOf[o]] = None]
    BY <1>9 DEF ConnectionError, Invalidate
  <2>2. /\ pc[o] \in {"using", "erred"} /\ pc' = [pc EXCEPT ![o] = "erred"]
        /\ UNCHANGED <<sessionOf, ssh, held, refs, made, lock>>
    BY <1>9 DEF ConnectionError
  <2> QED BY <1>0, <2>1, <2>2, DetachType DEF TypeOK
<1>10. CASE Finish(o)
  BY <1>10, ReleaseType DEF Finish
<1> QED
  BY <1>1, <1>2, <1>3, <1>4, <1>5, <1>6, <1>7, <1>8, <1>9, <1>10 DEF OpStep

\* The steps that are no operation's.
Background ==
    \/ \E s \in Sessions : Disconnect(s) \/ OnClosed(s)
    \/ EvictTick

LEMMA BackgroundType == TypeOK /\ Background => TypeOK'
<1> SUFFICES ASSUME TypeOK, Background PROVE TypeOK'
  OBVIOUS
<1> USE DEF cacheVars, lockVars
<1>1. ASSUME NEW s \in Sessions, Disconnect(s) PROVE TypeOK'
  BY <1>1 DEF Disconnect, TypeOK
<1>2. ASSUME NEW s \in Sessions, OnClosed(s) PROVE TypeOK'
  BY <1>2, DetachType DEF OnClosed, Invalidate, TypeOK
<1>3. CASE EvictTick
  <2>1. PICK stale \in SUBSET CachedSessions : Detach(stale)
    BY <1>3 DEF EvictTick
  <2>2. stale \in SUBSET Sessions
    BY DEF CachedSessions
  <2> QED BY <1>3, <2>1, <2>2, DetachType DEF EvictTick, TypeOK
<1> QED BY <1>1, <1>2, <1>3 DEF Background
-----------------------------------------------------------------------------
(* The reference counts *)

\* A count is zero exactly when nobody holds the client.
LEMMA CountIsZero ==
    ASSUME RefsExact, OpsAssumption, NEW c \in Ops
    PROVE  IsFiniteSet(Holders(c)) /\ (refs[c] = 0 <=> Holders(c) = {})
<1>1. IsFiniteSet(Holders(c))
  BY FS_Subset DEF Holders, OpsAssumption
<1> QED BY <1>1, FS_EmptySet DEF RefsExact

\* The counts stay exact while nobody takes or drops a reference.
LEMMA CountKept ==
    ASSUME RefsExact, UNCHANGED <<held, refs>>
    PROVE  RefsExact' /\ \A c \in Ops : Holders(c)' = Holders(c)
BY DEF RefsExact, Holders

\* A hit adds the operation to the client's holders and counts it.
LEMMA CountHit ==
    ASSUME TypeOK, RefsExact, OpsAssumption, NEW o \in Ops, held[o] = None,
           cached[sessionOf[o]] # None, Hit(o), NoneAssumption
    PROVE  RefsExact'
<1> DEFINE d == cached[sessionOf[o]]
<1>1. d \in Ops
  BY DEF TypeOK
<1>2. SUFFICES ASSUME NEW c \in Ops PROVE refs'[c] = Cardinality(Holders(c)')
  BY DEF RefsExact
<1>3. CASE c = d
  <2>1. Holders(c)' = Holders(c) \union {o} /\ o \notin Holders(c)
    BY <1>1, <1>3 DEF Holders, Hit, TypeOK
  <2>2. Cardinality(Holders(c) \union {o}) = Cardinality(Holders(c)) + 1
    BY <2>1, CountIsZero, FS_AddElement
  <2> QED BY <1>1, <1>3, <2>1, <2>2 DEF Hit, TypeOK, RefsExact
<1>4. CASE c # d
  <2>1. \A p \in Ops : held'[p] = c <=> held[p] = c
    BY <1>1, <1>4, NoneAssumption DEF Hit, TypeOK, NoneAssumption
  <2>2. Holders(c)' = Holders(c)
    BY <2>1 DEF Holders
  <2> QED BY <1>1, <1>4, <2>2 DEF Hit, TypeOK, RefsExact
<1> QED BY <1>3, <1>4

\* A release takes the operation from the client's holders and off the count.
LEMMA CountRelease ==
    ASSUME TypeOK, RefsExact, OpsAssumption, NoneAssumption, NEW o \in Ops, held[o] # None,
           NEW detach \in BOOLEAN, Release(o, detach)
    PROVE  RefsExact'
<1> DEFINE d == held[o]
<1>1. d \in Ops /\ o \in Holders(d)
  BY DEF TypeOK, Holders
<1>2. /\ held' = [held EXCEPT ![o] = None]
      /\ refs' = [refs EXCEPT ![d] = IF @ > 0 THEN @ - 1 ELSE @]
  BY DEF Release
<1>3. SUFFICES ASSUME NEW c \in Ops PROVE refs'[c] = Cardinality(Holders(c)')
  BY DEF RefsExact
<1>4. CASE c = d
  <2>1. Holders(c)' = Holders(c) \ {o}
    BY <1>1, <1>2, <1>4, NoneAssumption DEF Holders, TypeOK, NoneAssumption
  <2>2. Cardinality(Holders(c) \ {o}) = Cardinality(Holders(c)) - 1
    BY <1>1, <1>4, CountIsZero, FS_RemoveElement
  <2>3. refs[c] > 0
    BY <1>1, <1>4, CountIsZero DEF TypeOK
  <2>4. refs'[c] = refs[c] - 1
    BY <1>2, <1>4, <2>3 DEF TypeOK
  <2> QED BY <2>1, <2>2, <2>4 DEF RefsExact
<1>5. CASE c # d
  <2>1. Holders(c)' = Holders(c)
    BY <1>1, <1>2, <1>5, NoneAssumption DEF Holders, TypeOK, NoneAssumption
  <2>2. refs'[c] = refs[c]
    BY <1>1, <1>2, <1>5 DEF TypeOK
  <2> QED BY <2>1, <2>2 DEF RefsExact
<1> QED BY <1>4, <1>5

-----------------------------------------------------------------------------
(* The kinds of steps *)

\* The creators get no further back, and nobody becomes one.
ClientsAdvance ==
    /\ UNCHANGED <<sessionOf, made>>
    /\ \A c \in made : pc[c] \in UsePC => pc'[c] \in UsePC
    /\ \A c \in Ops : pc[c] = "opened" <=> pc'[c] = "opened"

\* An operation that has not reached "opened", or is past it, moves no client
\* back.
LEMMA StepAdvances ==
    ASSUME IInv, NEW o \in Ops, NEW to, pc' = [pc EXCEPT ![o] = to],
           UNCHANGED <<sessionOf, made>>, pc[o] # "opened", to # "opened",
           pc[o] \in UsePC => to \in UsePC
    PROVE  ClientsAdvance
BY DEF IInv, MadeSound, TypeOK, ClientsAdvance, UsePC

\* A step that leaves clients and references alone.
LEMMA QuietStep ==
    ASSUME IInv, TypeOK', ClientsAdvance, UNCHANGED <<held, cached, closing, refs, closes>>
    PROVE  IInv'
<1>1. RefsExact' /\ \A c \in Ops : Holders(c)' = Holders(c)
  BY CountKept DEF IInv
<1>2. \A c \in Ops : Inserted(c) => Inserted(c)'
  BY DEF ClientsAdvance, Inserted
<1>3. HeldSound' /\ CachedSound' /\ LifeCycle'
  BY <1>2 DEF IInv, TypeOK, ClientsAdvance, HeldSound, CachedSound, LifeCycle
<1>4. MadeSound' /\ DetachedClosed'
  BY <1>1 DEF IInv, TypeOK, ClientsAdvance, MadeSound, DetachedClosed, UsePC
<1> QED BY <1>1, <1>3, <1>4 DEF IInv

\* Detaching the clients of some sessions closes those nobody holds.
LEMMA DetachStep ==
    ASSUME IInv, TypeOK', OpsAssumption, ClientsAdvance, UNCHANGED <<held, refs>>,
           NEW S \in SUBSET Sessions, Detach(S)
    PROVE  IInv'
<1>1. RefsExact' /\ \A c \in Ops : Holders(c)' = Holders(c)
  BY CountKept DEF IInv
<1>2. \A c \in Ops : Inserted(c) => Inserted(c)'
  BY DEF ClientsAdvance, Inserted
<1>3. \A c \in Ops : Idle(c) <=> Holders(c) = {}
  BY CountIsZero DEF IInv, Idle
<1>4. \A c \in Cached(S) : c \in Ops /\ closes[c] = 0 /\ Inserted(c) /\ sessionOf[c] \in S
  BY DEF Cached, IInv, TypeOK, CachedSound
<1>5. ASSUME NEW c \in Ops
      PROVE  /\ closing'[c] = (closing[c] \/ c \in Cached(S))
             /\ closes'[c] = IF c \in Cached(S) /\ Holders(c) = {} THEN closes[c] + 1
                                                                 ELSE closes[c]
  BY <1>3 DEF Detach, IInv, TypeOK
<1>6. \A s \in Sessions : cached'[s] = IF s \in S THEN None ELSE cached[s]
  BY DEF Detach
<1>7. HeldSound'
  <2> SUFFICES ASSUME NEW o \in Ops, held[o] # None
               PROVE  /\ sessionOf[held[o]] = sessionOf[o]
                      /\ closes'[held[o]] = 0
                      /\ Inserted(held[o])'
    BY DEF HeldSound, ClientsAdvance
  <2>1. held[o] \in Ops /\ o \in Holders(held[o])
    BY DEF IInv, TypeOK, Holders
  <2> QED BY <1>2, <1>5, <2>1 DEF IInv, HeldSound
<1>8. CachedSound'
  <2> SUFFICES ASSUME NEW s \in Sessions, cached'[s] # None
               PROVE  /\ sessionOf[cached'[s]] = s
                      /\ ~closing'[cached'[s]] /\ closes'[cached'[s]] = 0
                      /\ Inserted(cached[s])'
    BY DEF CachedSound, ClientsAdvance
  <2>1. cached'[s] = cached[s] /\ s \notin S /\ cached[s] \in Ops
    BY <1>6 DEF IInv, TypeOK
  <2>2. sessionOf[cached[s]] = s /\ ~closing[cached[s]] /\ closes[cached[s]] = 0
        /\ Inserted(cached[s])
    BY <2>1 DEF IInv, CachedSound
  <2>3. cached[s] \notin Cached(S)
    BY <1>4, <2>1, <2>2
  <2>4. Inserted(cached[s])'
    BY <2>1, <2>2 DEF Inserted, ClientsAdvance
  <2>5. ~closing'[cached[s]] /\ closes'[cached[s]] = 0
    BY <1>5, <2>1, <2>2, <2>3
  <2> QED BY <2>1, <2>2, <2>4, <2>5
<1>9. LifeCycle'
  BY <1>2, <1>4, <1>5 DEF IInv, TypeOK, LifeCycle
<1>10. MadeSound'
  <2> SUFFICES ASSUME NEW c \in made
               PROVE  /\ pc'[c] \in UsePC \union {"opened"}
                      /\ pc'[c] = "opened" \/ closing'[c] \/ cached'[sessionOf[c]] = c
    BY DEF MadeSound, ClientsAdvance, IInv
  <2>1. c \in Ops /\ sessionOf[c] \in Sessions
    BY DEF IInv, TypeOK
  <2>2. pc'[c] \in UsePC \union {"opened"} /\ (pc[c] = "opened" => pc'[c] = "opened")
    BY <2>1 DEF IInv, MadeSound, ClientsAdvance
  <2>3. CASE cached[sessionOf[c]] = c /\ sessionOf[c] \in S
    <3>1. c # None
      BY <2>1, NoneAssumption DEF NoneAssumption
    <3> QED BY <1>5, <2>1, <2>2, <2>3, <3>1 DEF Cached
  <2>4. CASE ~(cached[sessionOf[c]] = c /\ sessionOf[c] \in S)
    BY <1>5, <1>6, <2>1, <2>2, <2>4 DEF IInv, MadeSound
  <2> QED BY <2>2, <2>3, <2>4
<1>11. DetachedClosed'
  BY <1>1, <1>5 DEF IInv, TypeOK, DetachedClosed
<1> QED BY <1>1, <1>7, <1>8, <1>9, <1>10, <1>11 DEF IInv

\* A hit hands out a client that is neither detached nor closed.
LEMMA HitStep ==
    ASSUME IInv, TypeOK', OpsAssumption, ClientsAdvance, NEW o \in Ops,
           held[o] = None, cached[sessionOf[o]] # None, Hit(o),
           UNCHANGED <<cached, closing, closes>>, NoneAssumption
    PROVE  IInv'
<1>0. cached[sessionOf[o]] \in Ops /\ sessionOf[o] \in Sessions
  BY DEF IInv, TypeOK
<1>1. RefsExact'
  BY CountHit DEF IInv
<1>2. \A c \in Ops : Inserted(c) => Inserted(c)'
  BY DEF ClientsAdvance, Inserted
<1>3. held' = [held EXCEPT ![o] = cached[sessionOf[o]]]
  BY DEF Hit
<1>4. HeldSound'
  BY <1>0, <1>2, <1>3 DEF IInv, TypeOK, ClientsAdvance, HeldSound, CachedSound
<1>5. CachedSound' /\ LifeCycle'
  BY <1>2 DEF IInv, TypeOK, ClientsAdvance, CachedSound, LifeCycle
<1>6. ASSUME NEW c \in Ops, Holders(c) # {} PROVE Holders(c)' # {}
  <2>1. PICK p \in Ops : held[p] = c
    BY <1>6 DEF Holders
  <2>2. p # o
    BY <2>1, NoneAssumption DEF NoneAssumption
  <2>3. held'[p] = c
    BY <1>3, <2>1, <2>2 DEF IInv, TypeOK
  <2> QED BY <2>3 DEF Holders
<1>7. MadeSound' /\ DetachedClosed'
  BY <1>6 DEF IInv, TypeOK, ClientsAdvance, MadeSound, DetachedClosed, UsePC
<1> QED BY <1>1, <1>4, <1>5, <1>7 DEF IInv
\* The last holder of a detached client closes it, and only the last one.
LEMMA ReleaseStep ==
    ASSUME IInv, TypeOK', OpsAssumption, NoneAssumption, ClientsAdvance, NEW o \in Ops,
           held[o] # None, NEW detach \in BOOLEAN, Release(o, detach)
    PROVE  IInv'
<1> DEFINE d == held[o]
           gone == closing[d] \/ detach
<1>0. /\ d \in Ops /\ sessionOf[o] \in Sessions
      /\ sessionOf[d] = sessionOf[o] /\ closes[d] = 0 /\ Inserted(d)
  BY DEF IInv, TypeOK, HeldSound
<1>1. RefsExact'
  BY CountRelease DEF IInv
<1>2. \A c \in Ops : Inserted(c) => Inserted(c)'
  BY DEF ClientsAdvance, Inserted
<1>3. /\ held' = [held EXCEPT ![o] = None]
      /\ closing' = [closing EXCEPT ![d] = gone]
      /\ closes' = [closes EXCEPT ![d] = IF gone /\ refs'[d] = 0 THEN @ + 1 ELSE @]
      /\ cached' = [cached EXCEPT ![sessionOf[o]] =
             IF detach /\ ~closing[d] /\ @ = d THEN None ELSE @]
  BY DEF Release
<1>4. ASSUME NEW c \in Ops, refs'[c] = 0 PROVE \A p \in Ops : held'[p] # c
  <2>1. IsFiniteSet(Holders(c)')
    BY OpsAssumption, FS_Subset DEF Holders, OpsAssumption
  <2>2. Holders(c)' = {}
    BY <1>1, <1>4, <2>1, FS_EmptySet DEF RefsExact
  <2> QED BY <2>2 DEF Holders
<1>5. HeldSound'
  <2> SUFFICES ASSUME NEW p \in Ops, held'[p] # None
               PROVE  /\ sessionOf[held'[p]] = sessionOf[p]
                      /\ closes'[held'[p]] = 0
                      /\ Inserted(held[p])'
    BY DEF HeldSound, ClientsAdvance
  <2>1. held'[p] = held[p] /\ held[p] \in Ops
    BY <1>3 DEF IInv, TypeOK
  <2>2. sessionOf[held[p]] = sessionOf[p] /\ closes[held[p]] = 0 /\ Inserted(held[p])
    BY <2>1 DEF IInv, HeldSound
  <2>3. Inserted(held[p])'
    BY <2>1, <2>2 DEF Inserted, ClientsAdvance
  <2>4. closes'[held[p]] = 0
    <3>1. CASE held[p] = d
      BY <1>0, <1>3, <1>4, <2>1, <3>1 DEF IInv, TypeOK
    <3>2. CASE held[p] # d
      BY <1>0, <1>3, <2>1, <2>2, <3>2 DEF IInv, TypeOK
    <3> QED BY <3>1, <3>2
  <2> QED BY <2>1, <2>2, <2>3, <2>4
<1>6. CachedSound'
  <2> SUFFICES ASSUME NEW s \in Sessions, cached'[s] # None
               PROVE  /\ sessionOf[cached'[s]] = s
                      /\ ~closing'[cached'[s]] /\ closes'[cached'[s]] = 0
                      /\ Inserted(cached[s])'
    BY DEF CachedSound, ClientsAdvance
  <2>1. cached'[s] = cached[s] /\ cached[s] \in Ops
    BY <1>3 DEF IInv, TypeOK
  <2>2. sessionOf[cached[s]] = s /\ ~closing[cached[s]] /\ closes[cached[s]] = 0
        /\ Inserted(cached[s])
    BY <2>1 DEF IInv, CachedSound
  <2>3. Inserted(cached[s])'
    BY <2>1, <2>2 DEF Inserted, ClientsAdvance
  <2>4. cached[s] = d => ~gone
    BY <1>0, <1>3, <2>1, <2>2 DEF IInv, TypeOK
  <2>5. ~closing'[cached[s]] /\ closes'[cached[s]] = 0
    BY <1>0, <1>3, <2>1, <2>2, <2>4 DEF IInv, TypeOK
  <2> QED BY <2>1, <2>2, <2>3, <2>5
<1>7. LifeCycle'
  BY <1>0, <1>2, <1>3 DEF IInv, TypeOK, LifeCycle
<1>8. MadeSound'
  <2> SUFFICES ASSUME NEW c \in made
               PROVE  /\ pc'[c] \in UsePC \union {"opened"}
                      /\ pc'[c] = "opened" \/ closing'[c] \/ cached'[sessionOf[c]] = c
    BY DEF MadeSound, ClientsAdvance, IInv
  <2>1. c \in Ops /\ sessionOf[c] \in Sessions
    BY DEF IInv, TypeOK
  <2>2. pc'[c] \in UsePC \union {"opened"} /\ (pc[c] = "opened" => pc'[c] = "opened")
    BY <2>1 DEF IInv, MadeSound, ClientsAdvance
  <2>3. closing[c] => closing'[c]
    BY <1>0, <1>3, <2>1 DEF IInv, TypeOK
  <2>4. cached[sessionOf[c]] = c => closing'[c] \/ cached'[sessionOf[c]] = c
    BY <1>0, <1>3, <2>1 DEF IInv, TypeOK
  <2> QED BY <2>1, <2>2, <2>3, <2>4 DEF IInv, MadeSound
<1>9. DetachedClosed'
  <2> SUFFICES ASSUME NEW c \in Ops, closing'[c], Holders(c)' = {}
               PROVE  closes'[c] > 0
    BY DEF DetachedClosed
  <2>1. CASE c = d
    <3>1. refs'[d] = 0
      BY <1>1, <2>1, FS_EmptySet DEF RefsExact
    <3> QED BY <1>0, <1>3, <2>1, <3>1 DEF IInv, TypeOK
  <2>2. CASE c # d
    <3>1. Holders(c) = {}
      <4> SUFFICES ASSUME NEW p \in Ops, held[p] = c PROVE FALSE
        BY DEF Holders
      <4>1. held'[p] = c
        BY <1>3, <2>2 DEF IInv, TypeOK
      <4> QED BY <4>1 DEF Holders
    <3> QED BY <1>0, <1>3, <2>2, <3>1 DEF IInv, TypeOK, DetachedClosed
  <2> QED BY <2>1, <2>2
<1> QED BY <1>1, <1>5, <1>6, <1>7, <1>8, <1>9 DEF IInv

\* A client being opened is nobody's yet.
LEMMA OpenStep ==
    ASSUME IInv, TypeOK', NEW o \in Ops, Open(o)
    PROVE  IInv'
<1>1. UNCHANGED <<sessionOf, held, cached, closing, refs, closes>>
  BY DEF Open
<1>2. CASE pc' = [pc EXCEPT ![o] = "done"] /\ made' = made
  BY <1>1, <1>2, StepAdvances, QuietStep DEF Open, Goto, UsePC
<1>3. CASE pc' = [pc EXCEPT ![o] = "opened"] /\ made' = made \union {o}
  <2>1. RefsExact' /\ \A c \in Ops : Holders(c)' = Holders(c)
    BY <1>1, CountKept DEF IInv
  <2>2. pc[o] = "creating"
    BY <1>3 DEF Open, Goto, IInv, TypeOK
  <2>3. \A c \in Ops : Inserted(c) => Inserted(c)'
    BY <1>3, <2>2 DEF Inserted, UsePC, IInv, TypeOK
  <2>4. HeldSound' /\ CachedSound' /\ LifeCycle'
    BY <1>1, <2>3 DEF IInv, TypeOK, HeldSound, CachedSound, LifeCycle
  <2>5. MadeSound'
    BY <1>1, <1>3 DEF IInv, TypeOK, MadeSound
  <2>6. DetachedClosed'
    BY <1>1, <2>1 DEF IInv, DetachedClosed
  <2> QED BY <2>1, <2>4, <2>5, <2>6 DEF IInv
<1> QED BY <1>2, <1>3 DEF Open, Goto
\* Inserting a client detaches the one it displaces.
LEMMA InsertStep ==
    ASSUME IInv, TypeOK', OpsAssumption, NoneAssumption, NEW o \in Ops, Insert(o)
    PROVE  IInv'
<1> DEFINE s == sessionOf[o]
           displaced == Cached({s})
<1>0. /\ s \in Sessions /\ o # None
      /\ pc[o] = "opened" /\ pc' = [pc EXCEPT ![o] = "using"]
      /\ held' = [held EXCEPT ![o] = o]
      /\ refs' = [refs EXCEPT ![o] = 1]
      /\ cached' = [cached EXCEPT ![s] = o]
      /\ UNCHANGED <<sessionOf, made>>
  BY NoneAssumption DEF Insert, Goto, IInv, TypeOK, NoneAssumption
<1>1. o \in made /\ ~closing[o] /\ closes[o] = 0 /\ \A p \in Ops : held[p] # o
  <2>1. ~Inserted(o)
    BY <1>0 DEF Inserted, UsePC
  <2>2. ~closing[o] /\ closes[o] = 0
    BY <2>1 DEF IInv, TypeOK, LifeCycle
  <2>3. \A p \in Ops : held[p] # o
    BY <1>0, <2>1 DEF IInv, HeldSound
  <2> QED BY <1>0, <2>2, <2>3 DEF IInv, MadeSound
<1>2. \A c \in displaced : /\ c \in Ops /\ c # o /\ c = cached[s]
                           /\ closes[c] = 0 /\ Inserted(c) /\ sessionOf[c] = s
  BY <1>0 DEF Cached, IInv, CachedSound, TypeOK, Inserted, UsePC
<1>3. ASSUME NEW c \in Ops
      PROVE  /\ closing'[c] = (closing[c] \/ c \in displaced)
             /\ closes'[c] = IF c \in displaced /\ Holders(c) = {} THEN closes[c] + 1
                                                                 ELSE closes[c]
  <2>1. Idle(c) <=> Holders(c) = {}
    BY CountIsZero DEF IInv, Idle
  <2> QED BY <2>1 DEF Insert, IInv, TypeOK
<1> HIDE DEF displaced
<1>4. \A c \in Ops : Inserted(c) => Inserted(c)'
  BY <1>0 DEF Inserted, IInv, TypeOK, UsePC
<1>5. Inserted(o)'
  BY <1>0, <1>1 DEF Inserted, IInv, TypeOK, UsePC
<1>6. Holders(o)' = {o} /\ \A c \in Ops \ {o} : Holders(c)' = Holders(c)
  <2>1. \A p \in Ops : held'[p] = IF p = o THEN o ELSE held[p]
    BY <1>0 DEF IInv, TypeOK
  <2>2. held[o] = None
    BY <1>0 DEF IInv, TypeOK
  <2>3. Holders(o)' = {o}
    BY <1>1, <2>1 DEF Holders
  <2>4. ASSUME NEW c \in Ops \ {o} PROVE Holders(c)' = Holders(c)
    <3>1. \A p \in Ops : held'[p] = c <=> held[p] = c
      BY <2>1, <2>2, NoneAssumption DEF NoneAssumption
    <3> QED BY <3>1 DEF Holders
  <2> QED BY <2>3, <2>4
<1>7. RefsExact'
  <2> SUFFICES ASSUME NEW c \in Ops PROVE refs'[c] = Cardinality(Holders(c)')
    BY DEF RefsExact
  <2>1. CASE c = o
    <3>1. Cardinality({o}) = 1
      BY FS_Singleton
    <3>2. Holders(c)' = {o}
      BY <1>6, <2>1 DEF Holders
    <3> QED BY <1>0, <2>1, <3>1, <3>2 DEF IInv, TypeOK
  <2>2. CASE c # o
    BY <1>0, <1>6, <2>2 DEF RefsExact, IInv, TypeOK
  <2> QED BY <2>1, <2>2
<1>8. HeldSound'
  <2> SUFFICES ASSUME NEW p \in Ops, held'[p] # None
               PROVE  /\ sessionOf[held'[p]] = sessionOf[p]
                      /\ closes'[held'[p]] = 0
                      /\ Inserted(held[p])'
    BY <1>0 DEF HeldSound
  <2>1. CASE p = o
    <3>1. held'[p] = o /\ closes'[o] = 0
      BY <1>0, <1>1, <1>2, <1>3, <2>1 DEF IInv, TypeOK
    <3>2. o \in made' /\ pc'[o] \in UsePC
      BY <1>5 DEF Inserted
    <3> QED BY <2>1, <3>1, <3>2 DEF Inserted
  <2>2. CASE p # o
    <3>1. held'[p] = held[p] /\ held[p] \in Ops /\ p \in Holders(held[p])
      BY <1>0, <2>2 DEF IInv, TypeOK, Holders
    <3>2. sessionOf[held[p]] = sessionOf[p] /\ closes[held[p]] = 0 /\ Inserted(held[p])
      BY <3>1 DEF IInv, HeldSound
    <3>3. held[p] \in made' /\ pc'[held[p]] \in UsePC
      BY <1>0, <3>1, <3>2 DEF Inserted, UsePC, IInv, TypeOK
    <3> QED BY <1>3, <3>1, <3>2, <3>3 DEF Inserted
  <2> QED BY <2>1, <2>2
<1>9. CachedSound'
  <2> SUFFICES ASSUME NEW t \in Sessions, cached'[t] # None
               PROVE  /\ sessionOf[cached'[t]] = t
                      /\ ~closing'[cached'[t]] /\ closes'[cached'[t]] = 0
                      /\ Inserted(cached[t])'
    BY <1>0 DEF CachedSound
  <2>1. CASE t = s
    <3>1. cached'[t] = o /\ o \in made' /\ pc'[o] \in UsePC
      BY <1>0, <1>5, <2>1 DEF IInv, TypeOK, Inserted
    <3> QED BY <1>1, <1>2, <1>3, <2>1, <3>1 DEF Inserted
  <2>2. CASE t # s
    <3>1. cached'[t] = cached[t] /\ cached[t] \in Ops
      BY <1>0, <2>2 DEF IInv, TypeOK
    <3>2. /\ sessionOf[cached[t]] = t /\ ~closing[cached[t]]
          /\ closes[cached[t]] = 0 /\ Inserted(cached[t])
      BY <3>1 DEF IInv, CachedSound
    <3>3. cached[t] \notin displaced
      BY <1>2, <2>2, <3>2
    <3>4. cached[t] \in made' /\ pc'[cached[t]] \in UsePC
      BY <1>0, <3>1, <3>2 DEF Inserted, UsePC, IInv, TypeOK
    <3>5. ~closing'[cached[t]] /\ closes'[cached[t]] = 0
      BY <1>3, <3>1, <3>2, <3>3
    <3> QED BY <3>1, <3>2, <3>4, <3>5 DEF Inserted
  <2> QED BY <2>1, <2>2
<1>10. LifeCycle'
  BY <1>2, <1>3, <1>4 DEF IInv, TypeOK, LifeCycle
<1>11. MadeSound'
  <2> SUFFICES ASSUME NEW c \in Ops
               PROVE  /\ pc'[c] = "opened" => c \in made
                      /\ c \in made =>
                             /\ pc'[c] \in UsePC \union {"opened"}
                             /\ pc'[c] = "opened" \/ closing'[c] \/ cached'[sessionOf[c]] = c
    BY <1>0 DEF MadeSound
  <2>1. CASE c = o
    BY <1>0, <1>1, <2>1 DEF IInv, TypeOK, UsePC
  <2>2. CASE c # o
    <3>1. pc'[c] = pc[c] /\ sessionOf[c] \in Sessions /\ c # None
      BY <1>0, <2>2, NoneAssumption DEF IInv, TypeOK, NoneAssumption
    <3>2. cached[sessionOf[c]] = c => c \in displaced \/ cached'[sessionOf[c]] = c
      BY <1>0, <3>1 DEF displaced, Cached, IInv, TypeOK
    <3> QED BY <1>3, <3>1, <3>2 DEF IInv, MadeSound
  <2> QED BY <2>1, <2>2
<1>12. DetachedClosed'
  <2> SUFFICES ASSUME NEW c \in Ops, closing'[c], Holders(c)' = {}
               PROVE  closes'[c] > 0
    BY DEF DetachedClosed
  <2>1. c # o
    BY <1>6 DEF Holders
  <2>2. Holders(c) = {}
    BY <1>6, <2>1
  <2> QED BY <1>3, <2>2 DEF IInv, TypeOK, DetachedClosed
<1> QED BY <1>7, <1>8, <1>9, <1>10, <1>11, <1>12 DEF IInv
\* Every step of an operation keeps the inductive invariant.
LEMMA OpStepInductive ==
    ASSUME IInv, OpsAssumption, NoneAssumption, NEW o \in Ops, OpStep(o)
    PROVE  IInv'
<1>0. TypeOK' /\ sessionOf[o] \in Sessions
  BY OpStepType DEF IInv, TypeOK
<1>1. CASE Acquire(o)
  <2>1. ClientsAdvance
    BY <1>1, StepAdvances DEF Acquire, Goto, UsePC
  <2>2. CASE cached[sessionOf[o]] # None /\ Hit(o)
    <3>1. held[o] = None
      BY <1>1 DEF Acquire, Goto, IInv, TypeOK
    <3> QED BY <1>0, <1>1, <2>1, <2>2, <3>1, HitStep DEF Acquire
  <2>3. CASE UNCHANGED <<held, refs>>
    BY <1>0, <1>1, <2>1, <2>3, QuietStep DEF Acquire
  <2> QED BY <1>1, <2>2, <2>3 DEF Acquire
<1>2. CASE ProbeSucceeds(o)
  BY <1>0, <1>2, StepAdvances, QuietStep DEF ProbeSucceeds, Goto, cacheVars, UsePC
<1>3. CASE ProbeFails(o)
  <2>1. ClientsAdvance
    BY <1>3, StepAdvances DEF ProbeFails, Release, Goto, UsePC
  <2>2. held[o] # None /\ Release(o, TRUE)
    BY <1>3 DEF ProbeFails, Goto, IInv, TypeOK
  <2> QED BY <1>0, <2>1, <2>2, ReleaseStep
<1>4. CASE GetLock(o)
  BY <1>0, <1>4, StepAdvances, QuietStep DEF GetLock, Goto, cacheVars, UsePC
<1>5. CASE Lock(o)
  BY <1>0, <1>5, StepAdvances, QuietStep DEF Lock, Goto, cacheVars, UsePC
<1>6. CASE Recheck(o)
  <2>1. ClientsAdvance
    BY <1>6, StepAdvances DEF Recheck, Goto, UsePC
  <2>2. CASE cached[sessionOf[o]] # None /\ Hit(o) /\ UNCHANGED <<cached, closing, closes>>
    <3>1. held[o] = None
      BY <1>6 DEF Recheck, Goto, IInv, TypeOK
    <3> QED BY <1>0, <2>1, <2>2, <3>1, HitStep
  <2>3. CASE UNCHANGED <<held, refs, cached, closing, closes>>
    BY <1>0, <2>1, <2>3, QuietStep
  <2>4. ASSUME UNCHANGED <<held, refs>>, NEW oldest \in CachedSessions, Detach({oldest})
        PROVE  IInv'
    BY <1>0, <2>1, <2>4, DetachStep DEF CachedSessions
  <2> QED BY <1>6, <2>2, <2>3, <2>4 DEF Recheck
<1>7. CASE Open(o)
  BY <1>0, <1>7, OpenStep
<1>8. CASE Insert(o)
  BY <1>0, <1>8, InsertStep
<1>9. CASE ConnectionError(o)
  <2>1. ClientsAdvance
    BY <1>9, StepAdvances DEF ConnectionError, Goto, UsePC
  <2>2. Detach({sessionOf[o]}) /\ UNCHANGED <<held, refs>>
    BY <1>9 DEF ConnectionError, Invalidate
  <2> QED BY <1>0, <2>1, <2>2, DetachStep
<1>10. CASE Finish(o)
  <2>1. ClientsAdvance
    BY <1>10, StepAdvances DEF Finish, Release, Goto, UsePC
  <2>2. held[o] # None /\ Release(o, FALSE)
    BY <1>10 DEF Finish, Goto, IInv, TypeOK
  <2> QED BY <1>0, <2>1, <2>2, ReleaseStep
<1> QED
  BY <1>1, <1>2, <1>3, <1>4, <1>5, <1>6, <1>7, <1>8, <1>9, <1>10 DEF OpStep

\* The end of a session and eviction keep it too.
LEMMA BackgroundInductive ==
    ASSUME IInv, OpsAssumption, Background
    PROVE  IInv'
<1>0. TypeOK'
  BY BackgroundType DEF IInv
<1>1. ClientsAdvance
  BY DEF Background, Disconnect, OnClosed, EvictTick, cacheVars, ClientsAdvance
<1>2. ASSUME NEW s \in Sessions, Disconnect(s) PROVE IInv'
  BY <1>0, <1>1, <1>2, QuietStep DEF Disconnect, cacheVars
<1>3. ASSUME NEW s \in Sessions, OnClosed(s) PROVE IInv'
  BY <1>0, <1>1, <1>3, DetachStep DEF OnClosed, Invalidate
<1>4. CASE EvictTick
  <2>1. PICK stale \in SUBSET CachedSessions : Detach(stale)
    BY <1>4 DEF EvictTick
  <2> QED BY <1>0, <1>1, <1>4, <2>1, DetachStep DEF EvictTick, CachedSessions
<1> QED BY <1>2, <1>3, <1>4 DEF Background

\* The inductive invariant holds: a client is cached, or detached and still
\* held, or closed, and its count is exact.
THEOREM Inductive == Spec => []IInv
<1>1. Init => IInv
  <2> SUFFICES ASSUME Init PROVE IInv
    OBVIOUS
  <2>1. TypeOK
    BY DEF Init, TypeOK
  <2>2. ASSUME NEW c \in Ops PROVE Holders(c) = {}
    BY NoneAssumption DEF Init, Holders, NoneAssumption
  <2>3. RefsExact
    BY <2>2, FS_EmptySet DEF Init, RefsExact
  <2>4. HeldSound /\ CachedSound /\ LifeCycle /\ MadeSound /\ DetachedClosed
    BY DEF Init, HeldSound, CachedSound, LifeCycle, MadeSound, DetachedClosed
  <2> QED BY <2>1, <2>3, <2>4 DEF IInv
<1>2. IInv /\ [Next]_vars => IInv'
  <2> SUFFICES ASSUME IInv, [Next]_vars PROVE IInv'
    OBVIOUS
  <2>1. CASE UNCHANGED vars
    <3>1. TypeOK' /\ ClientsAdvance
      BY <2>1 DEF vars, cacheVars, lockVars, IInv, TypeOK, ClientsAdvance
    <3> QED BY <2>1, <3>1, QuietStep DEF vars, cacheVars
  <2>2. ASSUME NEW o \in Ops, OpStep(o) PROVE IInv'
    BY <2>2, OpsAssumption, NoneAssumption, OpStepInductive
  <2>3. CASE Background
    BY <2>3, OpsAssumption, BackgroundInductive
  <2> QED BY <2>1, <2>2, <2>3 DEF Next, Background
<1> QED BY <1>1, <1>2, PTL DEF Spec

-----------------------------------------------------------------------------
(* The safety properties *)

\* Every variable keeps its type (Manager and cachedClient fields).
THEOREM TypeCorrect == Spec => []TypeOK
<1>1. IInv => TypeOK
  BY DEF IInv
<1> QED BY <1>1, Inductive, PTL

\* Nothing closes a client somebody is mid-transfer on (release, evictLRULocked,
\* InvalidateClient, the insertion at the end of acquireSlow).
THEOREM InUseStaysOpen == Spec => []NeverClosedInUse
<1>1. IInv => NeverClosedInUse
  <2> SUFFICES ASSUME IInv, NEW c \in Ops, NEW o \in Holders(c) PROVE closes[c] = 0
    BY DEF NeverClosedInUse
  <2>1. o \in Ops /\ held[o] = c /\ c # None
    BY NoneAssumption DEF Holders, NoneAssumption
  <2> QED BY <2>1 DEF IInv, HeldSound
<1> QED BY <1>1, Inductive, PTL

\* Of all the paths that can close a client, one does (cachedClient.closing).
THEOREM OneClose == Spec => []ClosedOnce
<1>1. IInv => ClosedOnce
  BY DEF IInv, LifeCycle, ClosedOnce
<1> QED BY <1>1, Inductive, PTL

\* The reference count is the number of operations in flight (cachedClient.refs).
THEOREM CountExact == Spec => []RefsExact
<1>1. IInv => RefsExact
  BY DEF IInv
<1> QED BY <1>1, Inductive, PTL

\* A client that nobody holds and the cache does not have is closed: no path of
\* acquireSlow, release or an invalidation loses one.
THEOREM NothingLost == Spec => []NoOrphan
<1>1. IInv => NoOrphan
  BY DEF IInv, TypeOK, MadeSound, DetachedClosed, NoOrphan
<1> QED BY <1>1, Inductive, PTL

\* The cache's bookkeeping: types, exact counts, and no second close.
THEOREM WellFormed == Spec => []Consistent
<1>1. TypeOK /\ RefsExact /\ ClosedOnce => Consistent
  BY DEF Consistent
<1> QED BY <1>1, TypeCorrect, CountExact, OneClose, PTL
=============================================================================
