--------------------------- MODULE SftpClientCache ---------------------------
(***************************************************************************)
(* The SFTP manager's client cache (backend/sftp/manager.go): one client   *)
(* per session, shared by the operations that use it at the same time,     *)
(* created under a per-session lock, and detached by eviction, by a failed *)
(* probe, by an operation's connection error and by the session's end.     *)
(* A detached client is closed by whoever drops its last reference.        *)
(* An operation acquires once, so the client it may create is named after  *)
(* it, and so is the creation lock it may allocate.                        *)
(***************************************************************************)
EXTENDS Naturals, FiniteSets

CONSTANTS
    Sessions,
    Ops,         \* operations; clients and creation locks carry their names
    None,
    MaxCache     \* maxSFTPCache

ASSUME NoneAssumption  == None \notin Ops
ASSUME CacheAssumption == MaxCache \in Nat \ {0}
ASSUME OpsAssumption   == IsFiniteSet(Ops)

VARIABLES
    sessionOf,   \* the session an operation is for
    ssh,         \* a session's SSH connection: "up", "down", or "closed" once
                 \* onClosed has run too
    pc,
    held,        \* the client an operation works with
    cached,      \* Manager.cache
    closing,     \* cachedClient.closing
    refs,        \* cachedClient.refs
    made,        \* clients that have been opened
    closes,      \* how often a client's Close was called
    createMu,    \* Manager.createMu: a session's creation lock
    lock         \* the creation lock an operation got hold of

cacheVars == <<cached, closing, refs, made, closes>>
lockVars  == <<createMu, lock>>
vars      == <<sessionOf, ssh, pc, held, cacheVars, lockVars>>

TypeOK ==
    /\ sessionOf \in [Ops -> Sessions]
    /\ ssh \in [Sessions -> {"up", "down", "closed"}]
    /\ pc \in [Ops -> {"idle", "probing", "miss", "waiting", "locked", "creating",
                       "opened", "using", "erred", "done"}]
    /\ held \in [Ops -> Ops \union {None}]
    /\ \A o \in Ops : held[o] # None <=> pc[o] \in {"probing", "using", "erred"}
    /\ cached \in [Sessions -> Ops \union {None}]
    /\ closing \in [Ops -> BOOLEAN]
    /\ refs \in [Ops -> Nat]
    /\ made \in SUBSET Ops
    /\ closes \in [Ops -> Nat]
    /\ createMu \in [Sessions -> Ops \union {None}]
    /\ lock \in [Ops -> Ops \union {None}]

Init ==
    /\ sessionOf \in [Ops -> Sessions]
    /\ ssh = [s \in Sessions |-> "up"]
    /\ pc = [o \in Ops |-> "idle"]
    /\ held = [o \in Ops |-> None]
    /\ cached = [s \in Sessions |-> None]
    /\ closing = [c \in Ops |-> FALSE]
    /\ refs = [c \in Ops |-> 0]
    /\ made = {}
    /\ closes = [c \in Ops |-> 0]
    /\ createMu = [s \in Sessions |-> None]
    /\ lock = [o \in Ops |-> None]

-----------------------------------------------------------------------------
(* Detaching clients *)

Goto(o, from, to) == pc[o] = from /\ pc' = [pc EXCEPT ![o] = to]

CachedSessions == {s \in Sessions : cached[s] # None}
Cached(S) == {cached[s] : s \in S} \ {None}

\* Mutant: a detached client is closed whoever holds it.
AlwaysIdle(c) == TRUE

Idle(c) == refs[c] = 0

\* Mutant: eviction leaves the closing to the next release.
DetachLazily(S) ==
    /\ closing' = [c \in Ops |-> closing[c] \/ c \in Cached(S)]
    /\ cached' = [s \in Sessions |-> IF s \in S THEN None ELSE cached[s]]
    /\ closes' = closes

\* Take the clients of these sessions out of the cache; close the idle ones.
Detach(S) ==
    /\ closing' = [c \in Ops |-> closing[c] \/ c \in Cached(S)]
    /\ cached' = [s \in Sessions |-> IF s \in S THEN None ELSE cached[s]]
    /\ closes' = [c \in Ops |-> IF c \in Cached(S) /\ Idle(c) THEN closes[c] + 1
                                                             ELSE closes[c]]

\* InvalidateClient drops the session's creation lock as well.
Invalidate(s) ==
    /\ Detach({s})
    /\ createMu' = [createMu EXCEPT ![s] = None]

-----------------------------------------------------------------------------
(* acquire and acquireSlow *)

\* Mutant: the client is handed out before it is counted.
HitUncounted(o) ==
    /\ held' = [held EXCEPT ![o] = cached[sessionOf[o]]]
    /\ refs' = refs

\* Take a reference to the cached client.
Hit(o) ==
    /\ held' = [held EXCEPT ![o] = cached[sessionOf[o]]]
    /\ refs' = [refs EXCEPT ![cached[sessionOf[o]]] = @ + 1]

\* The fast path; a client not probed for 30s is probed first.
Acquire(o) ==
    /\ \/ /\ cached[sessionOf[o]] # None
          /\ Hit(o)
          /\ Goto(o, "idle", "using") \/ Goto(o, "idle", "probing")
       \/ /\ cached[sessionOf[o]] = None
          /\ Goto(o, "idle", "miss")
          /\ UNCHANGED <<held, refs>>
    /\ UNCHANGED <<sessionOf, ssh, cached, closing, made, closes, lockVars>>

ProbeSucceeds(o) ==
    /\ Goto(o, "probing", "using")
    /\ UNCHANGED <<sessionOf, ssh, held, cacheVars, lockVars>>

\* release(sessionID, cc, detach): the last holder of a detached client closes
\* it.
Release(o, detach) ==
    LET c == held[o]
        s == sessionOf[o]
        gone == closing[c] \/ detach
    IN  /\ closing' = [closing EXCEPT ![c] = gone]
        /\ cached' = [cached EXCEPT ![s] =
               IF detach /\ ~closing[c] /\ @ = c THEN None ELSE @]
        /\ refs' = [refs EXCEPT ![c] = IF @ > 0 THEN @ - 1 ELSE @]
        /\ closes' = [closes EXCEPT ![c] = IF gone /\ refs'[c] = 0 THEN @ + 1 ELSE @]
        /\ held' = [held EXCEPT ![o] = None]
        /\ UNCHANGED <<sessionOf, ssh, made, lockVars>>

ProbeFails(o) ==
    /\ Goto(o, "probing", "miss")
    /\ Release(o, TRUE)

\* sessionCreateLock
GetLock(o) ==
    LET s == sessionOf[o] IN
    /\ Goto(o, "miss", "waiting")
    /\ createMu' = [createMu EXCEPT ![s] = IF @ = None THEN o ELSE @]
    /\ lock' = [lock EXCEPT ![o] = createMu'[s]]
    /\ UNCHANGED <<sessionOf, ssh, held, cacheVars>>

Locked(l) == \E o \in Ops : lock[o] = l /\ pc[o] \in {"locked", "creating", "opened"}

Lock(o) ==
    /\ Goto(o, "waiting", "locked")
    /\ ~Locked(lock[o])
    /\ UNCHANGED <<sessionOf, ssh, held, cacheVars, lockVars>>

\* Somebody may have created the client meanwhile; else make room for one.
Recheck(o) ==
    /\ \/ /\ cached[sessionOf[o]] # None
          /\ Hit(o)
          /\ Goto(o, "locked", "using")
          /\ UNCHANGED <<cached, closing, closes>>
       \/ /\ cached[sessionOf[o]] = None
          /\ Goto(o, "locked", "creating")
          /\ IF Cardinality(CachedSessions) < MaxCache
             THEN UNCHANGED <<cached, closing, closes>>
             ELSE \E oldest \in CachedSessions : Detach({oldest})
          /\ UNCHANGED <<held, refs>>
    /\ UNCHANGED <<sessionOf, ssh, made, lockVars>>

\* sessions.Client and sftp.NewClient
Open(o) ==
    /\ \/ /\ Goto(o, "creating", "opened")
          /\ ssh[sessionOf[o]] = "up"
          /\ made' = made \union {o}
       \/ /\ Goto(o, "creating", "done")
          /\ UNCHANGED made
    /\ UNCHANGED <<sessionOf, ssh, held, cached, closing, refs, closes, lockVars>>

\* Mutant: the displaced client is forgotten.
InsertOver(o) ==
    /\ Goto(o, "opened", "using")
    /\ held' = [held EXCEPT ![o] = o]
    /\ refs' = [refs EXCEPT ![o] = 1]
    /\ cached' = [cached EXCEPT ![sessionOf[o]] = o]
    /\ UNCHANGED <<sessionOf, ssh, closing, closes, made, lockVars>>

\* A creator that raced InvalidateClient may find another client in place.
Insert(o) ==
    LET s == sessionOf[o]
        displaced == Cached({s})
    IN  /\ Goto(o, "opened", "using")
        /\ held' = [held EXCEPT ![o] = o]
        /\ refs' = [refs EXCEPT ![o] = 1]
        /\ cached' = [cached EXCEPT ![s] = o]
        /\ closing' = [c \in Ops |-> closing[c] \/ c \in displaced]
        /\ closes' = [c \in Ops |->
               IF c \in displaced /\ Idle(c) THEN closes[c] + 1 ELSE closes[c]]
        /\ UNCHANGED <<sessionOf, ssh, made, lockVars>>

-----------------------------------------------------------------------------
(* The operation's end, the session's end, and eviction *)

\* invalidateOnConnErr: it is the session's current client that is detached, the
\* failed one or its successor; a read handle may report many errors.
ConnectionError(o) ==
    /\ Goto(o, "using", "erred") \/ Goto(o, "erred", "erred")
    /\ Invalidate(sessionOf[o])
    /\ UNCHANGED <<sessionOf, ssh, held, refs, made, lock>>

Finish(o) ==
    /\ Goto(o, "using", "done") \/ Goto(o, "erred", "done")
    /\ Release(o, FALSE)

Disconnect(s) ==
    /\ ssh[s] = "up"
    /\ ssh' = [ssh EXCEPT ![s] = "down"]
    /\ UNCHANGED <<sessionOf, pc, held, cacheVars, lockVars>>

\* onClosed, once the session's teardown is complete.
OnClosed(s) ==
    /\ ssh[s] = "down"
    /\ ssh' = [ssh EXCEPT ![s] = "closed"]
    /\ Invalidate(s)
    /\ UNCHANGED <<sessionOf, pc, held, refs, made, lock>>

\* A tick of evictLoop: what was not acquired for five minutes goes.
EvictTick ==
    /\ \E stale \in SUBSET CachedSessions : stale # {} /\ Detach(stale)
    /\ UNCHANGED <<sessionOf, ssh, pc, held, refs, made, lockVars>>

-----------------------------------------------------------------------------

OpStep(o) ==
    \/ Acquire(o) \/ ProbeSucceeds(o) \/ ProbeFails(o)
    \/ GetLock(o) \/ Lock(o) \/ Recheck(o) \/ Open(o) \/ Insert(o)
    \/ ConnectionError(o) \/ Finish(o)

Next ==
    \/ \E o \in Ops : OpStep(o)
    \/ \E s \in Sessions : Disconnect(s) \/ OnClosed(s)
    \/ EvictTick

\* The ticker ticks, and a client that was opened is inserted.  No operation is
\* relied on to end: a transfer the user has paused keeps its client.
Fairness ==
    /\ WF_vars(EvictTick)
    /\ \A o \in Ops : WF_vars(Insert(o))

Spec == Init /\ [][Next]_vars
FairSpec == Spec /\ Fairness

-----------------------------------------------------------------------------
(* Properties *)

Holders(c) == {o \in Ops : held[o] = c}

\* "we never close a client another goroutine is mid-transfer on": eviction,
\* invalidation and displacement only detach a client that is in use.
NeverClosedInUse == \A c \in Ops : closes[c] > 0 => Holders(c) = {}

\* Whichever of the paths that can close a client get to it, one does.
ClosedOnce == \A c \in Ops : closes[c] <= 1

\* A client nobody holds and the cache does not have is closed: no interleaving
\* leaves one with no path left to close it.
NoOrphan ==
    \A c \in made :
        \/ pc[c] = "opened"
        \/ Holders(c) # {}
        \/ cached[sessionOf[c]] = c
        \/ closes[c] > 0

\* The reference count is the number of operations in flight.
RefsExact == \A c \in Ops : refs[c] = Cardinality(Holders(c))

\* A client nobody holds, of a session that has ended, is closed in the end,
\* also one that was created while onClosed was running and is cached for a
\* session nobody can connect again, unless another operation picks it up.
DeadSessionsClientsClosed ==
    \A c \in Ops :
        (c \in made /\ ssh[sessionOf[c]] = "closed")
            ~> (closes[c] > 0 \/ Holders(c) # {})

\* The cache is well formed: reference counts are exact and no client is closed
\* twice, by whichever of the paths that can close it.
Consistent == TypeOK /\ RefsExact /\ ClosedOnce

-----------------------------------------------------------------------------
(* For TLC. *)

\* All ways to assign three operations to two sessions, up to renaming.
Alone == CHOOSE o \in Ops : TRUE
First == CHOOSE s \in Sessions : TRUE
Other == CHOOSE s \in Sessions : s # First

MCInit ==
    /\ Init
    /\ sessionOf[Alone] \in {First, Other}
    /\ \A o \in Ops \ {Alone} : sessionOf[o] = Other

MCSpec == MCInit /\ [][Next]_vars /\ Fairness
=============================================================================
