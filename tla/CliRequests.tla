----------------------------- MODULE CliRequests -----------------------------
(***************************************************************************)
(* Protected retries of the local CLI API: deduplicateCliExec              *)
(* (internal/app/app_cli_requests.go) in front of the exec handler, of     *)
(* which only the contract is used here (ExecContract, which CliExec       *)
(* implements).  A record of the registry is named after the request that  *)
(* created it.  Every request carries an id; one without goes straight to  *)
(* the handler.                                                            *)
(***************************************************************************)
EXTENDS ExecContract, FiniteSets

CONSTANTS
    Ids,
    Payloads,     \* digests of request bodies
    NoCall,
    MaxEntries    \* request ids the registry keeps

ASSUME NoCallAssumption == NoCall \notin Calls
ASSUME EntriesAssumption == MaxEntries \in Nat \ {0}

VARIABLES
    idOf,         \* X-GxShell-Request-ID
    payloadOf,
    pc,
    waitsFor,     \* the record a duplicate waits on
    entries,      \* cliRequestRegistry.entries
    finished,     \* records with a finish time, their done channel closed
    retained,     \* records with a result
    answer,       \* what the middleware answered
    expired       \* records dropped from the registry

registryVars == <<entries, finished, retained, expired>>
retryVars == <<contractVars, idOf, payloadOf, pc, waitsFor, registryVars, answer>>

RetriesTypeOK ==
    /\ idOf \in [Calls -> Ids] /\ payloadOf \in [Calls -> Payloads]
    /\ pc \in [Calls -> {"idle", "waiting", "working", "returned", "panicked", "done"}]
    /\ waitsFor \in [Calls -> Calls \union {NoCall}]
    /\ \A c \in Calls : pc[c] = "waiting" => waitsFor[c] # NoCall
    /\ entries \in [Ids -> Calls \union {NoCall}]
    /\ finished \in SUBSET begun /\ expired \in SUBSET finished
    /\ retained \in SUBSET finished
    /\ begun \in SUBSET Calls
    /\ answer \in [Calls -> {"none", "own", "aborted", "replay", "conflict",
                             "unavailable", "capacity", "gone"}]
    /\ \A i \in Ids : entries[i] # NoCall =>
          idOf[entries[i]] = i /\ entries[i] \in begun \ expired

RetriesInit ==
    /\ CInit
    /\ idOf \in [Calls -> Ids] /\ payloadOf \in [Calls -> Payloads]
    /\ pc = [c \in Calls |-> "idle"]
    /\ waitsFor = [c \in Calls |-> NoCall]
    /\ entries = [i \in Ids |-> NoCall]
    /\ finished = {} /\ retained = {} /\ expired = {}
    /\ answer = [c \in Calls |-> "none"]

-----------------------------------------------------------------------------
(* deduplicateCliExec *)

Live(recs) == {i \in Ids : recs[i] # NoCall}

\* Mutant: a full registry makes room by dropping any record.
ExpirableFull ==
    {D \in SUBSET Live(entries) :
        \A i \in D : entries[i] \in finished \/ Cardinality(Live(entries)) >= MaxEntries}

\* What a request finds expired: any set of finished records.
Expirable == {D \in SUBSET Live(entries) : \A i \in D : entries[i] \in finished}

Without(D) == [i \in Ids |-> IF i \in D THEN NoCall ELSE entries[i]]

Done(c, a) ==
    /\ pc' = [pc EXCEPT ![c] = "done"]
    /\ answer' = [answer EXCEPT ![c] = a]

\* Mutant: the digest is not looked at.
SamePayloadUnchecked(c, rec) == TRUE

SamePayload(c, rec) == payloadOf[rec] = payloadOf[c]

\* A request looks its id up in what expiry leaves of the registry.
Enter(c) ==
    LET i == idOf[c] IN
    /\ pc[c] = "idle"
    /\ \E D \in Expirable :
          LET kept == Without(D)
          IN  /\ expired' = expired \union {entries[j] : j \in D}
              /\ \/ /\ kept[i] # NoCall /\ ~SamePayload(c, kept[i])
                    /\ Done(c, "conflict")
                    /\ entries' = kept
                    /\ UNCHANGED <<contractVars, waitsFor>>
                 \/ /\ kept[i] # NoCall /\ SamePayload(c, kept[i])
                    /\ pc' = [pc EXCEPT ![c] = "waiting"]
                    /\ waitsFor' = [waitsFor EXCEPT ![c] = kept[i]]
                    /\ entries' = kept
                    /\ UNCHANGED <<contractVars, answer>>
                 \/ /\ kept[i] = NoCall /\ Cardinality(Live(kept)) >= MaxEntries
                    /\ Done(c, "capacity")
                    /\ entries' = kept
                    /\ UNCHANGED <<contractVars, waitsFor>>
                 \/ /\ kept[i] = NoCall /\ Cardinality(Live(kept)) < MaxEntries
                    /\ pc' = [pc EXCEPT ![c] = "working"]
                    /\ entries' = [kept EXCEPT ![i] = c]
                    /\ Begin(c)
                    /\ UNCHANGED <<waitsFor, answer>>
    /\ UNCHANGED <<idOf, payloadOf, finished, retained>>

\* The original is done: its result, or word that there is none.
Replay(c) ==
    /\ pc[c] = "waiting"
    /\ waitsFor[c] \in finished
    /\ Done(c, IF waitsFor[c] \in retained THEN "replay" ELSE "unavailable")
    /\ UNCHANGED <<contractVars, idOf, payloadOf, waitsFor, registryVars>>

\* The duplicate's client hangs up.
StopWaiting(c) ==
    /\ pc[c] = "waiting"
    /\ Done(c, "gone")
    /\ UNCHANGED <<contractVars, idOf, payloadOf, waitsFor, registryVars>>

\* The handler returns: it has written its response (nothing for a caller who
\* left before anything ran), or accepted a job that has still to report.
Return(c) ==
    /\ pc[c] = "working"
    /\ pc' = [pc EXCEPT ![c] = "returned"]
    /\ answer' = [answer EXCEPT ![c] = "own"]
    /\ UNCHANGED <<contractVars, idOf, payloadOf, waitsFor, registryVars>>

\* The handler panics: net/http drops the connection, the process lives on.
Panic(c) ==
    /\ pc[c] = "working"
    /\ pc' = [pc EXCEPT ![c] = "panicked"]
    /\ answer' = [answer EXCEPT ![c] = "aborted"]
    /\ UNCHANGED <<contractVars, idOf, payloadOf, waitsFor, registryVars>>

\* A response can be too large to keep, and a handler that panicked or was
\* abandoned by its caller has none.
Keepable(c) == pc[c] = "returned" /\ verdict[c] # "abandoned"

\* Mutant: done is only closed for a handler that returned.
FinishReturned(c) ==
    /\ pc[c] \in {"returned", "panicked"}
    /\ pc' = [pc EXCEPT ![c] = "done"]
    /\ finished' = IF pc[c] = "returned" THEN finished \union {c} ELSE finished
    /\ \/ retained' = retained
       \/ Keepable(c) /\ retained' = retained \union {c}
    /\ UNCHANGED <<contractVars, idOf, payloadOf, waitsFor, entries, expired, answer>>

\* The deferred function of the middleware, however the handler ended.
FinishRecord(c) ==
    /\ pc[c] \in {"returned", "panicked"}
    /\ pc' = [pc EXCEPT ![c] = "done"]
    /\ finished' = finished \union {c}
    /\ \/ retained' = retained
       \/ Keepable(c) /\ retained' = retained \union {c}
    /\ UNCHANGED <<contractVars, idOf, payloadOf, waitsFor, entries, expired, answer>>

-----------------------------------------------------------------------------

\* The handler, or the job it left behind.  Only a job works on after the
\* handler, and what it reports is about a command, not about the request.
HandlerStep(c) ==
    /\ Start(c) \/ Report(c)
    /\ pc[c] # "working" => verdict'[c] \notin {"refused", "abandoned", "unconnected", "failed_start"}
    /\ UNCHANGED <<idOf, payloadOf, pc, waitsFor, registryVars, answer>>

RetriesNext == \E c \in Calls :
    \/ Enter(c) \/ Replay(c) \/ StopWaiting(c)
    \/ Return(c) \/ Panic(c) \/ FinishRecord(c) \/ HandlerStep(c)

RetriesSpec == RetriesInit /\ [][RetriesNext]_retryVars

\* A handler's goroutine runs its deferred function, and a duplicate's finds the
\* channel closed.  Nothing is assumed of a handler: it may work for ever.
RetriesFairness == \A c \in Calls : WF_retryVars(FinishRecord(c)) /\ WF_retryVars(Replay(c))

RetriesFairSpec == RetriesSpec /\ RetriesFairness

-----------------------------------------------------------------------------
(* Properties *)

\* "this ID belongs to ..., no command was executed", "it was not executed
\* again": of the requests with one id, one is executed until its record, then
\* finished, expires, however often and with whatever payload they are sent and
\* however full the registry is.
AtMostOnce ==
    \A c, d \in Calls :
        c # d /\ idOf[c] = idOf[d] /\ starts[c] > 0 /\ starts[d] > 0
            => {c, d} \intersect (finished \intersect expired) # {}

\* A replayed result is that of the same request: the id, the payload, and a
\* handler that came to its end, if need be while this one was waiting.
ReplayIsOriginal ==
    \A c \in Calls : answer[c] = "replay" =>
        /\ idOf[waitsFor[c]] = idOf[c]
        /\ payloadOf[waitsFor[c]] = payloadOf[c]
        /\ answer[waitsFor[c]] = "own" /\ verdict[waitsFor[c]] # "abandoned"

\* No request is left without an answer: unless some handler works for ever,
\* each one, however its original ended and whatever became of the record it
\* waits on (expired, not kept, of a handler that panicked), gets its own.
EveryRequestServed ==
    (\A d \in Calls : []<>(pc[d] # "working")) =>
        \A c \in Calls : pc[c] # "idle" ~> pc[c] = "done"

\* The registry is well formed, and what it replays is the original's result.
RetriesConsistent == RetriesTypeOK /\ ReplayIsOriginal

-----------------------------------------------------------------------------
(* For TLC. *)

\* Two ids for three requests, so two of them, Pair, share one.  Up to renaming
\* the pair's payloads are equal when the third shares the id too; with another
\* id its payload is compared with nothing.
Pair == CHOOSE P \in SUBSET Calls : Cardinality(P) = 2
First == CHOOSE c \in Pair : TRUE
Id == CHOOSE i \in Ids : TRUE
Payload == CHOOSE p \in Payloads : TRUE

MCRetriesInit ==
    /\ RetriesInit
    /\ \A c \in Pair : idOf[c] = Id
    /\ payloadOf[First] = Payload
    /\ IF \A c \in Calls : idOf[c] = Id
       THEN \A c \in Pair : payloadOf[c] = Payload
       ELSE \A c \in Calls \ Pair : payloadOf[c] = Payload

MCRetriesSpec == MCRetriesInit /\ [][RetriesNext]_retryVars /\ RetriesFairness
=============================================================================
