----------------------------- MODULE SshRuntime -----------------------------
(***************************************************************************)
(* The SSH manager's registries: who may open a connection to a runtime,   *)
(* which session owns it, and under which generation                       *)
(* (backend/ssh/runtime.go and the lifecycle half of session.go).          *)
(*                                                                         *)
(* A runtime is a saved connection (or one terminal instance of it).  Each *)
(* call of ConnectInstanceViaJumpWithStatus is a member of Calls; an owner *)
(* creates exactly one session, so the session is named after its call.    *)
(* Steps are the critical sections of Manager.mu and Session.mu; the       *)
(* handshake between them is one interval (refined in SshSession) that     *)
(* ends in any of its outcomes: "asking" up to its last question, if it    *)
(* has one (a host key, keyboard-interactive, a key of the SSH agent), and *)
(* "dialing" from there on.                                                *)
(***************************************************************************)
EXTENDS Naturals, FiniteSets

CONSTANTS
    Runtimes,      \* stable runtime identities
    Calls,         \* connect calls, and the sessions they create
    NoCall,
    MaxSessions,   \* maxSessions
    MaxRecords     \* maxRuntimeRecords

ASSUME CallsAssumption == NoCall \notin Calls
ASSUME LimitsAssumption == MaxSessions \in Nat /\ MaxRecords \in Nat

VARIABLES
    target,        \* the runtime a call connects to
    pc,            \* where the call is
    joined,        \* the owner whose connectCall a follower waits on
    outcome,       \* what the call returned, or is about to
    got,           \* the session it returned
    connecting,    \* Manager.connecting: the owner of the runtime's handshake
    registered,    \* Manager.sessions
    state,         \* Session.info.State
    sgen,          \* Session.info.Generation
    teardown,      \* progress of the Disconnect that removed the session, with
                   \* the final state it read once that is known
    gen,           \* runtimeRecord.generation, 0 when there is no record
    current,       \* runtimeRecord.currentSession
    rstate         \* runtimeRecord.state

callVars    == <<target, pc, joined, outcome, got, connecting>>
sessionVars == <<registered, state, sgen, teardown>>
recordVars  == <<gen, current, rstate>>
vars        == <<callVars, sessionVars, recordVars>>

Down == {"disconnected", "error"}

\* session.done has been closed.
Done(s) == teardown[s] \in Down \union {"reported"}

CallPC == {"idle", "waiting", "owner", "asking", "dialing", "published", "lookup",
           "marking", "erring", "removing", "settled", "returned"}

TypeOK ==
    /\ target \in [Calls -> Runtimes]
    /\ pc \in [Calls -> CallPC]
    /\ joined \in [Calls -> Calls \union {NoCall}]
    /\ \A c \in Calls : pc[c] = "waiting" => joined[c] \in Calls
    /\ outcome \in [Calls -> {"none", "ok", "error"}]
    /\ got \in [Calls -> Calls \union {NoCall}]
    /\ connecting \in [Runtimes -> Calls \union {NoCall}]
    /\ registered \in SUBSET Calls
    /\ state \in [Calls -> {"none", "connecting", "connected"} \union Down]
    /\ sgen \in [Calls -> Nat]
    /\ teardown \in [Calls -> {"none", "removed", "reported"} \union Down]
    /\ gen \in [Runtimes -> Nat]
    /\ current \in [Runtimes -> Calls \union {NoCall}]
    /\ rstate \in [Runtimes -> {"none", "connecting", "active"} \union Down]

Init ==
    /\ target \in [Calls -> Runtimes]
    /\ pc = [c \in Calls |-> "idle"]
    /\ joined = [c \in Calls |-> NoCall]
    /\ outcome = [c \in Calls |-> "none"]
    /\ got = [c \in Calls |-> NoCall]
    /\ connecting = [r \in Runtimes |-> NoCall]
    /\ registered = {}
    /\ state = [c \in Calls |-> "none"]
    /\ sgen = [c \in Calls |-> 0]
    /\ teardown = [c \in Calls |-> "none"]
    /\ gen = [r \in Runtimes |-> 0]
    /\ current = [r \in Runtimes |-> NoCall]
    /\ rstate = [r \in Runtimes |-> "none"]

-----------------------------------------------------------------------------
(* The record of a runtime *)

Goto(c, from, to) == pc[c] = from /\ pc' = [pc EXCEPT ![c] = to]

Records == {r \in Runtimes : gen[r] > 0}

\* Mutant: pruning does not look at currentSession.
PrunableOwned(keep) ==
    LET others == Records \ {keep}
    IN {dropped \in SUBSET others :
            Cardinality(Records \ dropped) < MaxRecords \/ dropped = others}

\* pruneRuntimeRecordsLocked: records no session owns go once they are a day
\* old (any of them may be), and as many as needed to get below the cap.
Prunable(keep) ==
    LET idle == {r \in Records \ {keep} : current[r] = NoCall}
    IN {dropped \in SUBSET idle :
            Cardinality(Records \ dropped) < MaxRecords \/ dropped = idle}

GenWithout(dropped)     == [r \in Runtimes |-> IF r \in dropped THEN 0 ELSE gen[r]]
RstateWithout(dropped) == [r \in Runtimes |-> IF r \in dropped THEN "none" ELSE rstate[r]]

\* updateRuntimeState: only the current generation may change the record.
UpdateRuntimeState(s, new) ==
    LET r == target[s] IN
    /\ gen' = gen
    /\ IF gen[r] = sgen[s]
       THEN /\ rstate' = [rstate EXCEPT ![r] = new]
            /\ current' = [current EXCEPT ![r] =
                  IF new \notin Down THEN s ELSE IF @ = s THEN NoCall ELSE @]
       ELSE UNCHANGED <<current, rstate>>

-----------------------------------------------------------------------------
(* ConnectInstanceViaJumpWithStatus *)

\* Mutant: every caller starts its own handshake.
NeverInFlight(r) == FALSE

\* Mutant: a session is never reused.
NeverReusable(r) == FALSE

\* Mutant: whether a connect is in flight is read off the record's owner.
InFlightByRecord(r) == connecting[r] # NoCall \/ current[r] # NoCall

InFlight(r) == connecting[r] # NoCall

Reusable(r) ==
    /\ current[r] \in registered
    /\ state[current[r]] = "connected"

\* beginRuntimeConnect: join the call in flight, else reuse a healthy session,
\* else become the owner.
Begin(c) ==
    LET r == target[c] IN
    /\ pc[c] = "idle"
    /\ \E dropped \in Prunable(r) :
          /\ gen' = GenWithout(dropped)
          /\ rstate' = RstateWithout(dropped)
    /\ \/ /\ InFlight(r)
          /\ joined' = [joined EXCEPT ![c] = connecting[r]]
          /\ pc' = [pc EXCEPT ![c] = "waiting"]
          /\ UNCHANGED <<outcome, got, connecting>>
       \/ /\ ~InFlight(r)
          /\ Reusable(r)
          /\ got' = [got EXCEPT ![c] = current[r]]
          /\ outcome' = [outcome EXCEPT ![c] = "ok"]
          /\ pc' = [pc EXCEPT ![c] = "returned"]
          /\ UNCHANGED <<joined, connecting>>
       \/ /\ ~InFlight(r)
          /\ ~Reusable(r)
          /\ connecting' = [connecting EXCEPT ![r] = c]
          /\ pc' = [pc EXCEPT ![c] = "owner"]
          /\ UNCHANGED <<joined, outcome, got>>
    /\ UNCHANGED <<target, sessionVars, current>>

AtLimit == Cardinality(registered) >= MaxSessions

\* The session limit, reserveRuntimeLocked and the insert share one critical
\* section of Manager.mu.
Reserve(c) ==
    LET r == target[c] IN
    /\ IF AtLimit
       THEN /\ Goto(c, "owner", "settled")
            /\ outcome' = [outcome EXCEPT ![c] = "error"]
            /\ UNCHANGED <<sessionVars, recordVars>>
       ELSE /\ \E handshake \in {"asking", "dialing"} : Goto(c, "owner", handshake)
            /\ \E dropped \in Prunable(r) :
                  /\ gen' = [GenWithout(dropped) EXCEPT ![r] = @ + 1]
                  /\ rstate' = [RstateWithout(dropped) EXCEPT ![r] = "connecting"]
            /\ current' = [current EXCEPT ![r] = c]
            /\ sgen' = [sgen EXCEPT ![c] = gen[r] + 1]
            /\ state' = [state EXCEPT ![c] = "connecting"]
            /\ registered' = registered \union {c}
            /\ UNCHANGED <<outcome, teardown>>
    /\ UNCHANGED <<target, joined, got, connecting>>

\* The last question is answered (the host key dialogs are native, one at a
\* time and without a timeout).  Nothing that happens to the connection or the
\* session ends a question.
Answer(c) ==
    /\ Goto(c, "asking", "dialing")
    /\ UNCHANGED <<target, joined, outcome, got, connecting, sessionVars, recordVars>>

\* The final check of session.done and State = CONNECTED under Session.mu.
Publish(c) ==
    /\ Goto(c, "dialing", "published")
    /\ ~Done(c)
    /\ state' = [state EXCEPT ![c] = "connected"]
    /\ UNCHANGED <<target, joined, outcome, got, connecting,
                   registered, sgen, teardown, recordVars>>

\* Every check that finds session.done closed gives up: Disconnect has already
\* removed the session.
Cancel(c) ==
    /\ \E handshake \in {"asking", "dialing"} : Goto(c, handshake, "settled")
    /\ Done(c)
    /\ outcome' = [outcome EXCEPT ![c] = "error"]
    /\ UNCHANGED <<target, joined, got, connecting, sessionVars, recordVars>>

CancelDialing(c) == pc[c] = "dialing" /\ Cancel(c)

\* updateRuntimeState(session, RuntimeActive), after Session.mu was released.
Activate(c) ==
    /\ Goto(c, "published", "settled")
    /\ outcome' = [outcome EXCEPT ![c] = "ok"]
    /\ UpdateRuntimeState(c, "active")
    /\ UNCHANGED <<target, joined, got, connecting, sessionVars>>

\* finishRuntimeConnect, and the owner's own return.
Finish(c) ==
    /\ Goto(c, "settled", "returned")
    /\ connecting' = [connecting EXCEPT ![target[c]] = IF @ = c THEN NoCall ELSE @]
    /\ got' = [got EXCEPT ![c] = IF outcome[c] = "ok" THEN c ELSE NoCall]
    /\ UNCHANGED <<target, joined, outcome, sessionVars, recordVars>>

\* Mutant: only a successful handshake closes connectCall.done.
FollowSuccessOnly(c) ==
    /\ pc[c] = "waiting"
    /\ pc[joined[c]] = "returned"
    /\ outcome[joined[c]] = "ok"
    /\ pc' = [pc EXCEPT ![c] = "returned"]
    /\ outcome' = [outcome EXCEPT ![c] = "ok"]
    /\ got' = [got EXCEPT ![c] = got[joined[c]]]
    /\ UNCHANGED <<target, joined, connecting, sessionVars, recordVars>>

\* A follower wakes on <-call.done with the owner's result.
Follow(c) ==
    /\ pc[c] = "waiting"
    /\ pc[joined[c]] = "returned"
    /\ pc' = [pc EXCEPT ![c] = "returned"]
    /\ outcome' = [outcome EXCEPT ![c] = outcome[joined[c]]]
    /\ got' = [got EXCEPT ![c] = got[joined[c]]]
    /\ UNCHANGED <<target, joined, connecting, sessionVars, recordVars>>

-----------------------------------------------------------------------------
(* failConnect: a step of the handshake failed *)

DialFails(c) ==
    /\ \E handshake \in {"asking", "dialing"} : Goto(c, handshake, "lookup")
    /\ UNCHANGED <<target, joined, outcome, got, connecting, sessionVars, recordVars>>

\* setError looks the session up; a session already removed keeps its state.
FailLookup(c) ==
    /\ Goto(c, "lookup", IF c \in registered THEN "marking" ELSE "removing")
    /\ UNCHANGED <<target, joined, outcome, got, connecting, sessionVars, recordVars>>

FailMark(c) ==
    /\ Goto(c, "marking", "erring")
    /\ state' = [state EXCEPT ![c] = "error"]
    /\ UNCHANGED <<target, joined, outcome, got, connecting,
                   registered, sgen, teardown, recordVars>>

FailReport(c) ==
    /\ Goto(c, "erring", "removing")
    /\ UpdateRuntimeState(c, "error")
    /\ UNCHANGED <<target, joined, outcome, got, connecting, sessionVars>>

\* remove(id)
FailRemove(c) ==
    /\ Goto(c, "removing", "settled")
    /\ registered' = registered \ {c}
    /\ outcome' = [outcome EXCEPT ![c] = "error"]
    /\ UNCHANGED <<target, joined, got, connecting, state, sgen, teardown, recordVars>>

-----------------------------------------------------------------------------
(* Disconnect: the user, Shutdown, keepalive, the shell's exit *)

DisconnectRemove(s) ==
    /\ s \in registered
    /\ registered' = registered \ {s}
    /\ teardown' = [teardown EXCEPT ![s] = "removed"]
    /\ UNCHANGED <<callVars, state, sgen, recordVars>>

\* close(done) and the final state, under Session.mu.
DisconnectMark(s) ==
    LET final == IF state[s] = "error" THEN "error" ELSE "disconnected" IN
    /\ teardown[s] = "removed"
    /\ teardown' = [teardown EXCEPT ![s] = final]
    /\ state' = [state EXCEPT ![s] = final]
    /\ UNCHANGED <<callVars, registered, sgen, recordVars>>

\* updateRuntimeState takes Manager.mu after Session.mu was released, with the
\* state copied under Session.mu.
DisconnectReport(s) ==
    /\ teardown[s] \in Down
    /\ teardown' = [teardown EXCEPT ![s] = "reported"]
    /\ UpdateRuntimeState(s, teardown[s])
    /\ UNCHANGED <<callVars, registered, state, sgen>>

-----------------------------------------------------------------------------

CallStep(c) ==
    \/ Begin(c)    \/ Reserve(c)  \/ Publish(c)    \/ Cancel(c)
    \/ Answer(c)
    \/ Activate(c) \/ Finish(c)   \/ Follow(c)     \/ DialFails(c)
    \/ FailLookup(c) \/ FailMark(c) \/ FailReport(c) \/ FailRemove(c)

DisconnectStep(s) == DisconnectRemove(s) \/ DisconnectMark(s) \/ DisconnectReport(s)

Next == \E c \in Calls : CallStep(c) \/ DisconnectStep(c)

\* Each goroutine keeps running.  Nothing makes a silent server answer: the dial
\* of a session nobody disconnects may stay open for ever, for the shell and pty
\* requests that follow the handshake carry no deadline.  Nothing makes a user
\* answer either: a connector finds its session closed once it has no question
\* left to ask.
Fairness ==
    \A c \in Calls :
        /\ WF_vars(Reserve(c)) /\ WF_vars(CancelDialing(c)) /\ WF_vars(Activate(c))
        /\ WF_vars(Finish(c))  /\ WF_vars(Follow(c)) /\ WF_vars(FailLookup(c))
        /\ WF_vars(FailMark(c))   /\ WF_vars(FailReport(c)) /\ WF_vars(FailRemove(c))
        /\ WF_vars(DisconnectMark(c)) /\ WF_vars(DisconnectReport(c))

Spec == Init /\ [][Next]_vars
FairSpec == Spec /\ Fairness

-----------------------------------------------------------------------------
(* Properties *)

\* The phases in which a call owns the runtime's connectCall.
OwnerPC == {"owner", "asking", "dialing", "published", "lookup", "marking", "erring",
            "removing", "settled"}

\* "connecting gives each stable runtime one connection owner": two handshakes
\* for one runtime never overlap, whatever fails or is cancelled in between.
OneHandshakePerRuntime ==
    \A c, d \in Calls :
        pc[c] \in OwnerPC /\ pc[d] \in OwnerPC /\ target[c] = target[d] => c = d

\* Duplicate entry points never give a runtime two physical connections: the
\* manager holds at most one session of it, in any state.
OneSessionPerRuntime ==
    \A s, t \in registered : target[s] = target[t] => s = t

\* While a session is registered its runtime's record has the session's own
\* generation and names it as the owner, until the session itself reports its
\* failure: no pruning, no later connect and no late cleanup of an older
\* session takes the record away, so IsCurrent agrees with HasSession.
RegisteredOwnsRecord ==
    \A s \in registered :
        pc[s] # "removing" =>
            gen[target[s]] = sgen[s] /\ current[target[s]] = s

\* The check of maxSessions and the insert cannot be raced past.
SessionLimit == Cardinality(registered) <= MaxSessions

\* The registries are well formed: their type, the session limit, which concurrent
\* connects cannot race past, and one session to a runtime.
Consistent == TypeOK /\ SessionLimit /\ OneSessionPerRuntime

\* The lease of a runtime is with its registered session.
Holder == [r \in Runtimes |->
    IF \E s \in registered : target[s] = r
    THEN CHOOSE s \in registered : target[s] = r
    ELSE NoCall]

Lease == INSTANCE SessionLease
             WITH holder <- Holder, spent <- {s \in Calls : sgen[s] > 0}

\* Every behaviour of the manager leases a runtime's connection to one session
\* at a time, however connects, failures and disconnects interleave.
ImplementsLease == Lease!Spec

\* Disconnecting a session in the middle of its handshake lets the call that is
\* connecting it return, and everybody who is waiting for that handshake,
\* provided the user leaves no question open for ever (the native dialogs wait
\* for one another).
CancelReleases ==
    (\A o \in Calls : []<>(pc[o] # "asking")) =>
        \A c \in Calls :
            (\/ teardown[c] # "none"
             \/ pc[c] = "waiting" /\ teardown[joined[c]] # "none") ~> pc[c] = "returned"

-----------------------------------------------------------------------------
(* For TLC. *)

\* The ways to assign three calls to two runtimes, up to renaming: all to one,
\* or two to one and the third to the other.
Alone == CHOOSE c \in Calls : TRUE
Home == CHOOSE r \in Runtimes : TRUE

MCInit == Init /\ \A c \in Calls \ {Alone} : target[c] = Home

MCSpec == MCInit /\ [][Next]_vars /\ Fairness
=============================================================================
