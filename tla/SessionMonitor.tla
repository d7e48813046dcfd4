--------------------------- MODULE SessionMonitor ---------------------------
(***************************************************************************)
(* The monitoring pollers (backend/monitor/monitor.go) and everybody who   *)
(* starts and stops them: ConnectTerminal, the onClosed callback, the      *)
(* monitor panel's StartMonitor and StopMonitor, and UpdateSettings.       *)
(* None of these callers holds a lock across what it reads and what it     *)
(* does.  Pollers are numbered in the order they are made; 0 is none.      *)
(***************************************************************************)
EXTENDS Naturals, FiniteSets

CONSTANTS
    Sessions,
    Updates,       \* calls of UpdateSettings
    Clicks,        \* calls of StartMonitor
    Intervals,     \* monitorIntervalSec as it may be saved, 0 included
    Default,       \* the interval used instead of 0
    MaxPollers     \* bound: pollers ever made

ASSUME DefaultAssumption == Default \in Intervals \ {0} /\ Intervals \subseteq Nat
ASSUME PollersAssumption == MaxPollers \in Nat
ASSUME SessionsAssumption == Sessions # {} /\ IsFiniteSet(Sessions)

VARIABLES
    saved,      \* the settings file: the switch and the interval
    sess,       \* "absent", "up", "gone" from the SSH manager, "closed" once
                \* onClosed has run
    opc,        \* a session's ConnectTerminal
    oseen,      \* the settings it read
    upc,        \* UpdateSettings: its new settings, what it read before, and the
    unew,       \* connected sessions it has still to start
    uwas,
    utodo,
    kpc,        \* StartMonitor: its session and the settings it read
    kfor,
    kseen,
    made,       \* pollers made so far
    watches,    \* a poller's session
    every,      \* poller.intervalSec
    stops,      \* how often poller.stop was closed
    loop,       \* where a poller's goroutine is
    running,    \* Manager.running
    latest      \* the poller whose sample is Manager.latest

openVars   == <<opc, oseen>>
updateVars == <<upc, unew, uwas, utodo>>
clickVars  == <<kpc, kfor, kseen>>
pollerVars == <<made, watches, every, stops, loop, running, latest>>
vars == <<saved, sess, openVars, updateVars, clickVars, pollerVars>>

Pollers  == 1..MaxPollers
Settings == [on : BOOLEAN, every : Intervals]
Known    == {s \in Sessions : sess[s] # "absent"}

CallersTyped ==
    /\ saved \in Settings
    /\ sess \in [Sessions -> {"absent", "up", "gone", "closed"}]
    /\ opc \in [Sessions -> {"idle", "connecting", "connected", "done"}]
    /\ oseen \in [Sessions -> Settings]
    /\ upc \in [Updates -> {"idle", "read", "saved", "listing", "seeding", "done"}]
    /\ unew \in [Updates -> Settings] /\ uwas \in [Updates -> BOOLEAN]
    /\ utodo \in [Updates -> SUBSET Known]
    /\ kpc \in [Clicks -> {"idle", "read", "done"}]
    /\ kfor \in [Clicks -> Sessions] /\ kseen \in [Clicks -> Settings]

PollersTyped ==
    /\ made \in 0..MaxPollers
    /\ watches \in [Pollers -> Sessions]
    /\ every \in [1..made -> Nat \ {0}]
    /\ stops \in [Pollers -> Nat]
    /\ loop \in [Pollers -> {"none", "check", "alive", "retire", "exec", "select", "over"}]
    /\ running \in [Sessions -> 0..made]
    /\ latest \in [Sessions -> 0..made]
    /\ \A s \in Sessions : running[s] # 0 => watches[running[s]] = s

TypeOK == CallersTyped /\ PollersTyped

Init ==
    /\ saved \in Settings
    /\ sess = [s \in Sessions |-> "absent"]
    /\ opc = [s \in Sessions |-> "idle"]
    /\ oseen = [s \in Sessions |-> saved]
    /\ upc = [u \in Updates |-> "idle"]
    /\ unew = [u \in Updates |-> saved]
    /\ uwas = [u \in Updates |-> FALSE]
    /\ utodo = [u \in Updates |-> {}]
    /\ kpc = [k \in Clicks |-> "idle"]
    /\ kfor = [k \in Clicks |-> CHOOSE s \in Sessions : TRUE]
    /\ kseen = [k \in Clicks |-> saved]
    /\ made = 0
    /\ watches = [p \in Pollers |-> CHOOSE s \in Sessions : TRUE]
    /\ every = <<>>
    /\ stops = [p \in Pollers |-> 0]
    /\ loop = [p \in Pollers |-> "none"]
    /\ running = [s \in Sessions |-> 0]
    /\ latest = [s \in Sessions |-> 0]

-----------------------------------------------------------------------------
(* The monitor's operations, each one critical section of Manager.mu *)

Registered(S) == {running[s] : s \in S} \ {0}

Interval(n) == IF n = 0 THEN Default ELSE n

\* Close the pollers of S, drop them and their samples: Stop and StopAll.
StopPollers(S) ==
    /\ stops' = [p \in Pollers |-> IF p \in Registered(S) THEN stops[p] + 1 ELSE stops[p]]
    /\ running' = [s \in Sessions |-> IF s \in S THEN 0 ELSE running[s]]
    /\ latest' = [s \in Sessions |-> IF s \in S THEN 0 ELSE latest[s]]
    /\ UNCHANGED <<made, watches, every, loop>>

\* Give each session of S a new poller instead of the one it may have.
Replace(S, n) ==
    \E num \in [S -> (made + 1)..(made + Cardinality(S))] :
        /\ made + Cardinality(S) <= MaxPollers
        /\ \A s, t \in S : num[s] = num[t] => s = t
        /\ made' = made + Cardinality(S)
        /\ stops' = [p \in Pollers |->
               IF p \in Registered(S) THEN stops[p] + 1 ELSE stops[p]]
        /\ running' = [s \in Sessions |-> IF s \in S THEN num[s] ELSE running[s]]
        /\ watches' = [p \in Pollers |->
               IF \E s \in S : num[s] = p THEN CHOOSE s \in S : num[s] = p
                                          ELSE watches[p]]
        /\ every' = [p \in 1..made' |-> IF p > made THEN Interval(n) ELSE every[p]]
        /\ loop' = [p \in Pollers |-> IF p \in (made + 1)..made' THEN "check" ELSE loop[p]]
        /\ latest' = latest

\* A session whose poller already has the interval keeps it.
Outdated(S, n) == {s \in S : running[s] = 0 \/ every[running[s]] # Interval(n)}

Start(s, n) == Replace(Outdated({s}, n), n)

RestartAll(n) == Replace(Outdated({s \in Sessions : running[s] # 0}, n), n)

-----------------------------------------------------------------------------
(* A poller's goroutine *)

Goto(p, from, to) == loop[p] = from /\ loop' = [loop EXCEPT ![p] = to]
Current(p) == running[watches[p]] = p

Unmoved == UNCHANGED <<saved, sess, openVars, updateVars, clickVars>>

\* The first look at running.
Check(p) ==
    /\ Goto(p, "check", IF Current(p) THEN "alive" ELSE "select")
    /\ UNCHANGED <<made, watches, every, stops, running, latest>> /\ Unmoved

\* Mutant: the session is not looked for.
AliveUnasked(p) ==
    /\ Goto(p, "alive", "exec")
    /\ UNCHANGED <<made, watches, every, stops, running, latest>> /\ Unmoved

\* HasSession
Alive(p) ==
    /\ Goto(p, "alive", IF sess[watches[p]] = "up" THEN "exec" ELSE "retire")
    /\ UNCHANGED <<made, watches, every, stops, running, latest>> /\ Unmoved

\* Mutant: retire by session instead of by poller.
RetireSession(p) ==
    LET s == watches[p] IN
    /\ Goto(p, "retire", "select")
    /\ IF running[s] # 0
       THEN /\ stops' = [stops EXCEPT ![p] = @ + 1]
            /\ running' = [running EXCEPT ![s] = 0]
            /\ latest' = [latest EXCEPT ![s] = 0]
       ELSE UNCHANGED <<stops, running, latest>>
    /\ UNCHANGED <<made, watches, every>> /\ Unmoved

\* retire: only the registered poller is stopped.
Retire(p) ==
    LET s == watches[p] IN
    /\ Goto(p, "retire", "select")
    /\ IF Current(p)
       THEN /\ stops' = [stops EXCEPT ![p] = @ + 1]
            /\ running' = [running EXCEPT ![s] = 0]
            /\ latest' = [latest EXCEPT ![s] = 0]
       ELSE UNCHANGED <<stops, running, latest>>
    /\ UNCHANGED <<made, watches, every>> /\ Unmoved

\* Mutant: the sample is published whoever is registered by now.
PublishUnchecked(p) ==
    /\ Goto(p, "exec", "select")
    /\ latest' = [latest EXCEPT ![watches[p]] = p]
    /\ UNCHANGED <<made, watches, every, stops, running>> /\ Unmoved

\* Exec has returned, with an error after five seconds at the latest; a poller
\* replaced meanwhile discards its sample.
Publish(p) ==
    /\ Goto(p, "exec", "select")
    /\ latest' = [latest EXCEPT ![watches[p]] = IF Current(p) THEN p ELSE @]
    /\ UNCHANGED <<made, watches, every, stops, running>> /\ Unmoved

Tick(p) ==
    /\ Goto(p, "select", "check")
    /\ UNCHANGED <<made, watches, every, stops, running, latest>> /\ Unmoved

LeaveLoop(p) ==
    /\ Goto(p, "select", "over")
    /\ stops[p] > 0
    /\ UNCHANGED <<made, watches, every, stops, running, latest>> /\ Unmoved

-----------------------------------------------------------------------------
(* ConnectTerminal, and the end of a session *)

\* The settings are read before the connect, which may wait for the user.
OpenRead(s) ==
    /\ opc[s] = "idle"
    /\ opc' = [opc EXCEPT ![s] = "connecting"]
    /\ oseen' = [oseen EXCEPT ![s] = saved]
    /\ UNCHANGED <<saved, sess, updateVars, clickVars, pollerVars>>

OpenConnect(s) ==
    /\ opc[s] = "connecting"
    /\ \/ /\ opc' = [opc EXCEPT ![s] = "connected"]
          /\ sess' = [sess EXCEPT ![s] = "up"]
       \/ /\ opc' = [opc EXCEPT ![s] = "done"]
          /\ sess' = sess
    /\ UNCHANGED <<saved, oseen, updateVars, clickVars, pollerVars>>

OpenMonitor(s) ==
    /\ opc[s] = "connected"
    /\ opc' = [opc EXCEPT ![s] = "done"]
    /\ IF oseen[s].on THEN Start(s, oseen[s].every) ELSE UNCHANGED pollerVars
    /\ UNCHANGED <<saved, sess, oseen, updateVars, clickVars>>

\* The session leaves the SSH manager ...
Disconnect(s) ==
    /\ sess[s] = "up"
    /\ sess' = [sess EXCEPT ![s] = "gone"]
    /\ UNCHANGED <<saved, openVars, updateVars, clickVars, pollerVars>>

\* ... and when its teardown is complete onClosed stops its poller.
OnClosed(s) ==
    /\ sess[s] = "gone"
    /\ sess' = [sess EXCEPT ![s] = "closed"]
    /\ StopPollers({s})
    /\ UNCHANGED <<saved, openVars, updateVars, clickVars>>

-----------------------------------------------------------------------------
(* The monitor panel *)

ClickRead(k) ==
    /\ kpc[k] = "idle"
    /\ kpc' = [kpc EXCEPT ![k] = "read"]
    /\ \E s \in Known : kfor' = [kfor EXCEPT ![k] = s]
    /\ kseen' = [kseen EXCEPT ![k] = saved]
    /\ UNCHANGED <<saved, sess, openVars, updateVars, pollerVars>>

ClickApply(k) ==
    /\ kpc[k] = "read"
    /\ kpc' = [kpc EXCEPT ![k] = "done"]
    /\ IF kseen[k].on THEN Start(kfor[k], kseen[k].every) ELSE StopPollers({kfor[k]})
    /\ UNCHANGED <<saved, sess, openVars, updateVars, kfor, kseen>>

\* StopMonitor, when the tab is closed or replaced.
StopMonitor(s) ==
    /\ s \in Known
    /\ StopPollers({s})
    /\ UNCHANGED <<saved, sess, openVars, updateVars, clickVars>>

-----------------------------------------------------------------------------
(* UpdateSettings *)

UpdateRead(u) ==
    /\ upc[u] = "idle"
    /\ upc' = [upc EXCEPT ![u] = "read"]
    /\ \E new \in Settings : unew' = [unew EXCEPT ![u] = [new EXCEPT !.every = Interval(@)]]
    /\ uwas' = [uwas EXCEPT ![u] = saved.on]
    /\ UNCHANGED <<saved, sess, openVars, utodo, clickVars, pollerVars>>

UpdateSave(u) ==
    /\ upc[u] = "read"
    /\ upc' = [upc EXCEPT ![u] = "saved"]
    /\ saved' = unew[u]
    /\ UNCHANGED <<sess, openVars, unew, uwas, utodo, clickVars, pollerVars>>

\* StopAll, or RestartAll and then, if the switch was off, the sessions that
\* are connected.
UpdateApply(u) ==
    /\ upc[u] = "saved"
    /\ \/ /\ ~unew[u].on
          /\ StopPollers(Sessions)
          /\ upc' = [upc EXCEPT ![u] = "done"]
       \/ /\ unew[u].on
          /\ RestartAll(unew[u].every)
          /\ upc' = [upc EXCEPT ![u] = IF uwas[u] THEN "done" ELSE "listing"]
    /\ UNCHANGED <<saved, sess, openVars, unew, uwas, utodo, clickVars>>

UpdateList(u) ==
    /\ upc[u] = "listing"
    /\ upc' = [upc EXCEPT ![u] = "seeding"]
    /\ utodo' = [utodo EXCEPT ![u] = {s \in Sessions : sess[s] = "up"}]
    /\ UNCHANGED <<saved, sess, openVars, unew, uwas, clickVars, pollerVars>>

UpdateSeed(u) ==
    /\ upc[u] = "seeding"
    /\ \/ \E s \in utodo[u] :
             /\ Start(s, unew[u].every)
             /\ utodo' = [utodo EXCEPT ![u] = @ \ {s}]
             /\ upc' = upc
       \/ /\ utodo[u] = {}
          /\ upc' = [upc EXCEPT ![u] = "done"]
          /\ UNCHANGED <<utodo, pollerVars>>
    /\ UNCHANGED <<saved, sess, openVars, unew, uwas, clickVars>>

-----------------------------------------------------------------------------

PollerStep(p) ==
    Check(p) \/ Alive(p) \/ Retire(p) \/ Publish(p) \/ Tick(p) \/ LeaveLoop(p)

Next ==
    \/ \E p \in Pollers : PollerStep(p)
    \/ \E s \in Sessions :
          \/ OpenRead(s) \/ OpenConnect(s) \/ OpenMonitor(s)
          \/ Disconnect(s) \/ OnClosed(s) \/ StopMonitor(s)
    \/ \E k \in Clicks : ClickRead(k) \/ ClickApply(k)
    \/ \E u \in Updates :
          UpdateRead(u) \/ UpdateSave(u) \/ UpdateApply(u) \/ UpdateList(u) \/ UpdateSeed(u)

\* The ticker ticks and an Exec times out; between a tick and a closed stop,
\* select chooses at random.
Fairness ==
    \A p \in Pollers :
        /\ WF_vars(Check(p)) /\ WF_vars(Alive(p)) /\ WF_vars(Retire(p))
        /\ WF_vars(Publish(p)) /\ WF_vars(Tick(p)) /\ SF_vars(LeaveLoop(p))

Spec == Init /\ [][Next]_vars
FairSpec == Spec /\ Fairness

-----------------------------------------------------------------------------
(* Properties *)

\* Whoever replaces, stops or retires a poller, its stop channel is closed once
\* (a second close panics), and a poller that is not registered has been told
\* to stop, so none is left polling a server behind the manager's back.
StoppedExactlyOnce ==
    \A p \in 1..made : stops[p] = IF Current(p) THEN 0 ELSE 1

\* "Discard that stale sample rather than publishing it under the new cadence":
\* the sample shown is the registered poller's or one it took over, and a
\* session without a poller keeps none.
SamplesCurrent ==
    \A s \in Sessions : latest[s] # 0 => running[s] # 0 /\ latest[s] <= running[s]

\* A poller started for a session that is gone, by a connect that onClosed has
\* overtaken, by the panel or by the settings, retires and its goroutine ends.
DeadSessionsRetired ==
    \A s \in Sessions :
        sess[s] = "closed" ~>
            [](/\ running[s] = 0
               /\ \A p \in 1..made : watches[p] = s => loop[p] = "over")

\* The manager is well formed, and shows no sample of a poller that is gone.
Consistent == TypeOK /\ SamplesCurrent
=============================================================================
