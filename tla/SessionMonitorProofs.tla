------------------------ MODULE SessionMonitorProofs ------------------------
(***************************************************************************)
(* Proofs about SessionMonitor for any number of sessions, settings calls, *)
(* clicks and pollers.  Of the invariant, CallersTyped is about what those who  *)
(* start and stop pollers remember, PollersSound about the manager: every  *)
(* operation of Manager.mu keeps the second whoever calls it and whenever, *)
(* which is why it does not matter that no caller holds a lock.            *)
(***************************************************************************)
EXTENDS SessionMonitor, FiniteSetTheorems, FunctionTheorems, TLAPS

\* A poller that has not been made neither runs nor was stopped.
Unmade == \A p \in Pollers : p > made => stops[p] = 0 /\ loop[p] = "none"

PollersSound ==
    /\ PollersTyped
    /\ Unmade
    /\ SamplesCurrent
    /\ StoppedExactlyOnce

IInv == CallersTyped /\ PollersSound

-----------------------------------------------------------------------------
(* The monitor's operations *)

\* The pollers registered for some sessions are those that watch them.
LEMMA RegisteredIs ==
    ASSUME PollersSound, NEW S \in SUBSET Sessions, NEW p \in Pollers
    PROVE  p \in Registered(S) <=> Current(p) /\ watches[p] \in S
<1>1. p \in Nat \ {0}
  BY PollersAssumption DEF Pollers
<1>2. ASSUME p \in Registered(S) PROVE Current(p) /\ watches[p] \in S
  BY <1>1, <1>2 DEF PollersSound, PollersTyped, Registered, Current
<1>3. ASSUME Current(p), watches[p] \in S PROVE p \in Registered(S)
  BY <1>1, <1>3 DEF Registered, Current
<1> QED BY <1>2, <1>3

\* Stop and StopAll.
LEMMA StopKeeps ==
    ASSUME PollersSound, NEW S \in SUBSET Sessions, StopPollers(S)
    PROVE  PollersSound'
<1>1. PollersTyped'
  <2>1. stops' \in [Pollers -> Nat]
    BY DEF PollersSound, PollersTyped, StopPollers
  <2>2. running' \in [Sessions -> 0..made] /\ latest' \in [Sessions -> 0..made]
    BY DEF PollersSound, PollersTyped, StopPollers
  <2>3. \A s \in Sessions : running'[s] # 0 => watches[running'[s]] = s
    BY DEF PollersSound, PollersTyped, StopPollers
  <2> QED BY <2>1, <2>2, <2>3 DEF PollersSound, PollersTyped, StopPollers
<1>2. Unmade'
  <2> SUFFICES ASSUME NEW p \in Pollers, p > made PROVE stops'[p] = 0 /\ loop'[p] = "none"
    BY DEF Unmade, StopPollers
  <2>1. p \notin Registered(S)
    BY PollersAssumption DEF PollersSound, PollersTyped, Registered, Pollers
  <2> QED BY <2>1 DEF PollersSound, Unmade, StopPollers
<1>3. SamplesCurrent'
  BY DEF PollersSound, PollersTyped, SamplesCurrent, StopPollers
<1>4. StoppedExactlyOnce'
  <2> SUFFICES ASSUME NEW p \in 1..made PROVE stops'[p] = IF Current(p)' THEN 0 ELSE 1
    BY DEF StoppedExactlyOnce, StopPollers
  <2>1. p \in Pollers /\ watches[p] \in Sessions /\ stops[p] = IF Current(p) THEN 0 ELSE 1
    BY PollersAssumption DEF PollersSound, PollersTyped, StoppedExactlyOnce, Pollers
  <2>2. Current(p)' <=> Current(p) /\ watches[p] \notin S
    BY <2>1 DEF Current, StopPollers, Pollers
  <2> QED BY <2>1, <2>2, RegisteredIs DEF StopPollers
<1> QED BY <1>1, <1>2, <1>3, <1>4 DEF PollersSound

\* The numbers the new pollers get are all the next ones: none is skipped.
LEMMA AllNumbered ==
    ASSUME NEW S, IsFiniteSet(S), made \in Nat,
           NEW num \in [S -> (made + 1)..(made + Cardinality(S))],
           \A s, t \in S : num[s] = num[t] => s = t,
           NEW p \in (made + 1)..(made + Cardinality(S))
    PROVE  \E s \in S : num[s] = p
<1> DEFINE T == (made + 1)..(made + Cardinality(S))
<1>1. Cardinality(S) \in Nat
  BY FS_CardinalityType
<1>2. IsFiniteSet(T) /\ Cardinality(T) = Cardinality(S)
  BY <1>1, FS_Interval
<1>3. num \in Injection(S, T)
  BY Fun_IsInj
<1>4. num \in Surjection(S, T)
  BY <1>2, <1>3, FS_Injection
<1>5. \A t \in T : \E s \in S : num[s] = t
  BY <1>4, Fun_SurjectionProperties, Zenon
<1> QED BY <1>5

\* Start and RestartAll.
LEMMA ReplaceKeeps ==
    ASSUME PollersSound, DefaultAssumption, NEW S \in SUBSET Sessions, IsFiniteSet(S),
           NEW n \in Intervals, Replace(S, n)
    PROVE  PollersSound'
<1> USE PollersAssumption DEF Pollers
<1>0. \A s \in Sessions : running[s] \in 0..made /\ latest[s] \in 0..made
  BY DEF PollersSound, PollersTyped
<1>1. PICK num \in [S -> (made + 1)..(made + Cardinality(S))] :
        /\ made + Cardinality(S) <= MaxPollers
        /\ \A s, t \in S : num[s] = num[t] => s = t
        /\ made' = made + Cardinality(S)
        /\ stops' = [p \in Pollers |->
               IF p \in Registered(S) THEN stops[p] + 1 ELSE stops[p]]
        /\ running' = [s \in Sessions |-> IF s \in S THEN num[s] ELSE running[s]]
        /\ watches' = [p \in Pollers |->
               IF \E s \in S : num[s] = p THEN CHOOSE s \in S : num[s] = p
                                          ELSE watches[p]]
        /\ every' = [p \in 1..made' |-> IF p > made THEN Interval(n) ELSE every[p]]
        /\ loop' = [p \in Pollers |-> IF p \in (made + 1)..made' THEN "check" ELSE loop[p]]
        /\ latest' = latest
  BY DEF Replace
<1>2. made \in Nat /\ Cardinality(S) \in Nat /\ made' \in Nat /\ made <= made'
  BY <1>1, FS_CardinalityType DEF PollersSound, PollersTyped
<1>3. \A s \in S : /\ num[s] \in Pollers /\ num[s] > made /\ num[s] <= made'
                   /\ watches'[num[s]] = s
  BY <1>1, <1>2
<1>4. \A p \in 1..made : p \in Pollers /\ watches'[p] = watches[p]
  BY <1>1, <1>2
<1>5. ASSUME NEW p \in (made + 1)..made' PROVE p \in Pollers /\ \E s \in S : num[s] = p
  <2>1. p \in (made + 1)..(made + Cardinality(S))
    BY <1>1
  <2>2. \E s \in S : num[s] = p
    BY SMTT(40), <1>1, <1>2, <2>1, AllNumbered
  <2> QED BY <1>1, <1>2, <2>1, <2>2
<1>6. \A s \in Sessions : running'[s] = IF s \in S THEN num[s] ELSE running[s]
  BY <1>1
<1>7. PollersTyped'
  <2>1. watches' \in [Pollers -> Sessions]
    BY <1>1 DEF PollersSound, PollersTyped
  <2>2. every' \in [1..made' -> Nat \ {0}]
    BY SMTT(40), <1>1, <1>2, DefaultAssumption
       DEF PollersSound, PollersTyped, Interval, DefaultAssumption
  <2>3. running' \in [Sessions -> 0..made']
    <3>1. \A s \in Sessions : running'[s] \in 0..made'
      BY <1>0, <1>2, <1>3, <1>6
    <3> QED BY <1>1, <3>1
  <2>4. latest' \in [Sessions -> 0..made']
    BY <1>0, <1>1, <1>2 DEF PollersSound, PollersTyped
  <2>5. ASSUME NEW s \in Sessions, running'[s] # 0 PROVE watches'[running'[s]] = s
    <3>1. CASE s \in S
      BY <1>3, <1>6, <3>1
    <3>2. CASE s \notin S
      <4>1. running'[s] = running[s] /\ running[s] # 0
        BY <1>6, <2>5, <3>2
      <4>2. running[s] \in 1..made
        BY <1>0, <1>2, <4>1
      <4>3. watches[running[s]] = s
        BY <4>1 DEF PollersSound, PollersTyped
      <4> QED BY <1>4, <4>1, <4>2, <4>3
    <3> QED BY <3>1, <3>2
  <2>6. stops' \in [Pollers -> Nat] /\ made' \in 0..MaxPollers
    BY <1>1, <1>2 DEF PollersSound, PollersTyped
  <2>7. loop' \in [Pollers -> {"none", "check", "alive", "retire", "exec", "select", "over"}]
    BY <1>1, <1>2 DEF PollersSound, PollersTyped
  <2> QED BY <2>1, <2>2, <2>3, <2>4, <2>5, <2>6, <2>7 DEF PollersTyped
<1>8. Unmade'
  <2> SUFFICES ASSUME NEW p \in Pollers, p > made' PROVE stops'[p] = 0 /\ loop'[p] = "none"
    BY DEF Unmade
  <2>1. stops[p] = 0 /\ loop[p] = "none"
    BY <1>2 DEF PollersSound, Unmade
  <2>2. p \notin Registered(S)
    BY <1>2 DEF PollersSound, PollersTyped, Registered
  <2> QED BY <1>1, <1>2, <2>1, <2>2
<1>9. SamplesCurrent'
  BY <1>0, <1>1, <1>2, <1>3, <1>6 DEF PollersSound, SamplesCurrent
<1>10. StoppedExactlyOnce'
  <2> SUFFICES ASSUME NEW p \in 1..made' PROVE stops'[p] = IF Current(p)' THEN 0 ELSE 1
    BY DEF StoppedExactlyOnce
  <2>1. CASE p <= made
    <3>1. p \in 1..made /\ p \in Pollers /\ watches[p] \in Sessions /\ watches'[p] = watches[p]
      BY <1>2, <1>4, <2>1 DEF PollersSound, PollersTyped
    <3>2. stops[p] = IF Current(p) THEN 0 ELSE 1
      BY <3>1 DEF PollersSound, StoppedExactlyOnce
    <3>3. Current(p)' <=> Current(p) /\ watches[p] \notin S
      <4>1. running'[watches[p]] = p <=> watches[p] \notin S /\ running[watches[p]] = p
        BY <1>2, <1>3, <1>6, <2>1, <3>1
      <4> QED BY <3>1, <4>1 DEF Current
    <3>4. p \in Registered(S) <=> Current(p) /\ watches[p] \in S
      BY <3>1, RegisteredIs
    <3>5. stops'[p] = IF p \in Registered(S) THEN stops[p] + 1 ELSE stops[p]
      BY <1>1, <3>1
    <3> QED BY <3>2, <3>3, <3>4, <3>5
  <2>2. CASE p > made
    <3>1. PICK s \in S : num[s] = p
      BY <1>2, <1>5, <2>2
    <3>2. p \in Pollers /\ Current(p)'
      BY <1>1, <1>3, <3>1 DEF Current
    <3>3. stops[p] = 0 /\ p \notin Registered(S)
      BY SMTT(40), <1>2, <2>2, <3>2 DEF PollersSound, PollersTyped, Unmade, Registered
    <3> QED BY <1>1, <3>2, <3>3
  <2> QED BY <1>2, <2>1, <2>2
<1> QED BY <1>7, <1>8, <1>9, <1>10 DEF PollersSound

\* Start and RestartAll only replace pollers of sessions there are.
LEMMA StartKeeps ==
    ASSUME PollersSound, DefaultAssumption, SessionsAssumption,
           NEW S \in SUBSET Sessions, NEW n \in Intervals, Replace(Outdated(S, n), n)
    PROVE  PollersSound'
<1>1. Outdated(S, n) \in SUBSET Sessions /\ IsFiniteSet(Outdated(S, n))
  BY FS_Subset DEF Outdated, SessionsAssumption
<1> QED BY <1>1, ReplaceKeeps

\* A poller's goroutine: it stops nobody but itself, and only as the registered
\* poller.
LEMMA PollerKeeps ==
    ASSUME PollersSound, NEW p \in Pollers, PollerStep(p)
    PROVE  PollersSound'
<1>0. /\ p \in 1..made /\ watches[p] \in Sessions
      /\ UNCHANGED <<made, watches, every>>
      /\ \A q \in Pollers : q > made => loop'[q] = loop[q]
  BY SMTT(60), PollersAssumption
     DEF PollersSound, PollersTyped, Unmade, Pollers, PollerStep, Check, Alive, Retire,
         Publish, Tick, LeaveLoop, Goto
<1>1. loop' \in [Pollers -> {"none", "check", "alive", "retire", "exec", "select", "over"}]
  BY DEF PollersSound, PollersTyped, PollerStep, Check, Alive, Retire, Publish, Tick,
         LeaveLoop, Goto
<1>2. CASE UNCHANGED <<stops, running, latest>>
  BY <1>0, <1>1, <1>2
     DEF PollersSound, PollersTyped, Unmade, SamplesCurrent, StoppedExactlyOnce, Current
<1>3. CASE Retire(p) /\ Current(p)
  <2>1. /\ stops' = [stops EXCEPT ![p] = @ + 1]
        /\ running' = [running EXCEPT ![watches[p]] = 0]
        /\ latest' = [latest EXCEPT ![watches[p]] = 0]
    BY <1>3 DEF Retire
  <2>2. PollersTyped'
    <3>1. stops' \in [Pollers -> Nat]
      BY <2>1 DEF PollersSound, PollersTyped
    <3>2. running' \in [Sessions -> 0..made] /\ latest' \in [Sessions -> 0..made]
      BY <2>1 DEF PollersSound, PollersTyped
    <3>3. \A s \in Sessions : running'[s] # 0 => watches[running'[s]] = s
      BY <2>1 DEF PollersSound, PollersTyped
    <3> QED BY <1>0, <1>1, <3>1, <3>2, <3>3 DEF PollersSound, PollersTyped
  <2>3. Unmade' /\ SamplesCurrent'
    BY SMTT(40), <1>0, <2>1 DEF PollersSound, PollersTyped, Unmade, SamplesCurrent
  <2>4. StoppedExactlyOnce'
    <3> SUFFICES ASSUME NEW q \in 1..made PROVE stops'[q] = IF Current(q)' THEN 0 ELSE 1
      BY <1>0 DEF StoppedExactlyOnce
    <3>1. q \in Pollers /\ watches[q] \in Sessions /\ stops[q] = IF Current(q) THEN 0 ELSE 1
      BY SMTT(40), PollersAssumption DEF PollersSound, PollersTyped, StoppedExactlyOnce, Pollers
    <3>2. running[watches[p]] = p /\ stops[p] = 0
      BY <1>0, <1>3 DEF PollersSound, StoppedExactlyOnce, Current
    <3>3. Current(q)' <=> Current(q) /\ watches[q] # watches[p]
      BY <1>0, <2>1, <3>1 DEF Current, PollersSound, PollersTyped, Pollers
    <3>4. CASE q = p
      BY <2>1, <3>1, <3>2, <3>3, <3>4 DEF PollersSound, PollersTyped
    <3>5. CASE q # p
      <4>1. stops'[q] = stops[q] /\ (Current(q) => watches[q] # watches[p])
        BY <2>1, <3>1, <3>2, <3>5 DEF Current
      <4> QED BY <3>1, <3>3, <4>1
    <3> QED BY <3>4, <3>5
  <2> QED BY <2>2, <2>3, <2>4 DEF PollersSound
<1>4. CASE Publish(p) /\ Current(p)
  <2>1. latest' = [latest EXCEPT ![watches[p]] = p] /\ UNCHANGED <<stops, running>>
    BY <1>4 DEF Publish
  <2>2. PollersTyped' /\ Unmade'
    BY <1>0, <1>1, <2>1 DEF PollersSound, PollersTyped, Unmade
  <2>3. SamplesCurrent' /\ StoppedExactlyOnce'
    BY <1>0, <1>4, <2>1
       DEF PollersSound, PollersTyped, SamplesCurrent, StoppedExactlyOnce, Current
  <2> QED BY <2>2, <2>3 DEF PollersSound
<1>5. CASE Publish(p) /\ ~Current(p)
  <2>1. UNCHANGED <<stops, running, latest>>
    BY <1>0, <1>5 DEF Publish, PollersSound, PollersTyped
  <2> QED BY <1>2, <2>1
<1> QED BY <1>2, <1>3, <1>4, <1>5 DEF PollerStep, Check, Alive, Retire, Tick, LeaveLoop

-----------------------------------------------------------------------------
(* Those who start and stop pollers *)

\* No caller's step touches the pollers but through the manager's operations.
LEMMA CallerStep ==
    ASSUME IInv, DefaultAssumption, [Next]_vars
    PROVE  \/ UNCHANGED pollerVars
           \/ \E S \in SUBSET Sessions :
                 \/ StopPollers(S)
                 \/ \E n \in Intervals : Replace(Outdated(S, n), n)
           \/ \E p \in Pollers : PollerStep(p)
<1>1. ASSUME NEW s \in Sessions, OpenMonitor(s)
      PROVE  \/ UNCHANGED pollerVars
             \/ \E n \in Intervals : Replace(Outdated({s}, n), n)
  BY <1>1 DEF OpenMonitor, Start, IInv, CallersTyped, Settings
<1>2. ASSUME NEW k \in Clicks, ClickApply(k)
      PROVE  \E s \in Sessions :
                \/ StopPollers({s})
                \/ \E n \in Intervals : Replace(Outdated({s}, n), n)
  BY <1>2 DEF ClickApply, Start, IInv, CallersTyped, Settings
<1>3. ASSUME NEW u \in Updates, UpdateApply(u)
      PROVE  \E S \in SUBSET Sessions :
                \/ StopPollers(S)
                \/ \E n \in Intervals : Replace(Outdated(S, n), n)
  BY <1>3 DEF UpdateApply, RestartAll, IInv, CallersTyped, Settings
<1>4. ASSUME NEW u \in Updates, UpdateSeed(u)
      PROVE  \/ UNCHANGED pollerVars
             \/ \E s \in Sessions : \E n \in Intervals : Replace(Outdated({s}, n), n)
  BY <1>4 DEF UpdateSeed, Start, IInv, CallersTyped, Settings, Known
<1>5. ASSUME NEW s \in Sessions, OnClosed(s) \/ StopMonitor(s)
      PROVE  StopPollers({s})
  BY <1>5 DEF OnClosed, StopMonitor
<1>6. CASE UNCHANGED vars
  BY <1>6 DEF vars
<1> QED
  BY <1>1, <1>2, <1>3, <1>4, <1>5, <1>6
     DEF Next, OpenRead, OpenConnect, Disconnect, ClickRead, UpdateRead, UpdateSave, UpdateList

\* What the callers remember keeps its type; a session that was opened stays
\* known.
LEMMA CallersKeep ==
    ASSUME CallersTyped, DefaultAssumption, [Next]_vars
    PROVE  CallersTyped'
<1> USE DEF CallersTyped
<1>1. CASE UNCHANGED <<saved, sess, openVars, updateVars, clickVars>>
  BY <1>1 DEF Known, openVars, updateVars, clickVars
<1>2. ASSUME NEW p \in Pollers, PollerStep(p) PROVE CallersTyped'
  BY <1>1, <1>2
     DEF PollerStep, Check, Alive, Retire, Publish, Tick, LeaveLoop, Unmoved
<1>3. ASSUME NEW s \in Sessions,
             \/ OpenRead(s) \/ OpenConnect(s) \/ OpenMonitor(s)
             \/ Disconnect(s) \/ OnClosed(s) \/ StopMonitor(s)
      PROVE  CallersTyped'
  <2>1. CASE UNCHANGED sess
    BY <1>3, <2>1 DEF OpenRead, OpenConnect, OpenMonitor, Disconnect, OnClosed, StopMonitor,
         Known, openVars, updateVars, clickVars
  <2>2. CASE OpenConnect(s) \/ Disconnect(s) \/ OnClosed(s)
    <3>1. Known \subseteq Known'
      BY <2>2 DEF OpenConnect, Disconnect, OnClosed, Known
    <3>2. /\ sess' \in [Sessions -> {"absent", "up", "gone", "closed"}]
          /\ opc' \in [Sessions -> {"idle", "connecting", "connected", "done"}]
          /\ UNCHANGED <<saved, oseen, updateVars, clickVars>>
      BY <2>2 DEF OpenConnect, Disconnect, OnClosed, openVars
    <3> QED BY <3>1, <3>2 DEF updateVars, clickVars
  <2> QED BY <1>3, <2>1, <2>2 DEF OpenRead, OpenMonitor, StopMonitor
<1>4. ASSUME NEW k \in Clicks, ClickRead(k) \/ ClickApply(k) PROVE CallersTyped'
  BY <1>4 DEF ClickRead, ClickApply, Known, openVars, updateVars
<1>5. ASSUME NEW u \in Updates,
             \/ UpdateRead(u) \/ UpdateSave(u) \/ UpdateApply(u)
             \/ UpdateList(u) \/ UpdateSeed(u)
      PROVE  CallersTyped'
  <2>1. UNCHANGED <<sess, openVars, clickVars, Known>>
    BY <1>5 DEF UpdateRead, UpdateSave, UpdateApply, UpdateList, UpdateSeed, Known
  <2>2. CASE UpdateRead(u)
    BY SMTT(40), <2>1, <2>2, DefaultAssumption
       DEF UpdateRead, Settings, Interval, DefaultAssumption, openVars, clickVars
  <2>3. CASE UpdateSave(u) \/ UpdateApply(u)
    BY <2>1, <2>3 DEF UpdateSave, UpdateApply, openVars, clickVars
  <2>4. CASE UpdateList(u)
    BY <2>1, <2>4 DEF UpdateList, Known, openVars, clickVars
  <2>5. CASE UpdateSeed(u)
    BY <2>1, <2>5 DEF UpdateSeed, openVars, clickVars
  <2> QED BY <1>5, <2>2, <2>3, <2>4, <2>5
<1> QED BY <1>1, <1>2, <1>3, <1>4, <1>5 DEF Next, vars

\* The inductive invariant of the monitoring manager.
THEOREM Inductive == Spec => []IInv
<1>1. Init => IInv
  <2> SUFFICES ASSUME Init PROVE IInv
    OBVIOUS
  <2>1. (CHOOSE s \in Sessions : TRUE) \in Sessions
    BY SessionsAssumption DEF SessionsAssumption
  <2>2. CallersTyped
    BY <2>1 DEF Init, CallersTyped
  <2>3. every \in [1..made -> Nat \ {0}]
    BY DEF Init
  <2>4. PollersTyped
    BY <2>1, <2>3, PollersAssumption DEF Init, PollersTyped
  <2>5. Unmade /\ SamplesCurrent /\ StoppedExactlyOnce
    BY DEF Init, Unmade, SamplesCurrent, StoppedExactlyOnce
  <2> QED BY <2>2, <2>4, <2>5 DEF IInv, PollersSound
<1>2. IInv /\ [Next]_vars => IInv'
  <2> SUFFICES ASSUME IInv, [Next]_vars PROVE IInv'
    OBVIOUS
  <2>1. CallersTyped'
    BY DefaultAssumption, CallersKeep DEF IInv
  <2>2. ASSUME UNCHANGED pollerVars PROVE PollersSound'
    BY <2>2 DEF pollerVars, IInv, PollersSound, PollersTyped, Unmade, SamplesCurrent,
                StoppedExactlyOnce, Current
  <2>3. ASSUME NEW S \in SUBSET Sessions, StopPollers(S) PROVE PollersSound'
    BY <2>3, StopKeeps DEF IInv
  <2>4. ASSUME NEW S \in SUBSET Sessions, NEW n \in Intervals, Replace(Outdated(S, n), n)
        PROVE  PollersSound'
    BY <2>4, StartKeeps, DefaultAssumption, SessionsAssumption DEF IInv
  <2>5. ASSUME NEW p \in Pollers, PollerStep(p) PROVE PollersSound'
    BY <2>5, PollerKeeps DEF IInv
  <2>6. PollersSound'
    BY <2>2, <2>3, <2>4, <2>5, CallerStep, DefaultAssumption DEF IInv
  <2> QED BY <2>1, <2>6 DEF IInv
<1> QED BY <1>1, <1>2, PTL DEF Spec

-----------------------------------------------------------------------------
(* The safety properties *)

\* Every stop channel is closed once, whichever of Start, RestartAll, Stop,
\* StopAll and retire gets to it first, and no poller that is not registered
\* has been left running (Manager.running, poller.stop).
THEOREM EveryPollerStoppedOnce == Spec => []StoppedExactlyOnce
<1>1. IInv => StoppedExactlyOnce
  BY DEF IInv, PollersSound
<1> QED BY <1>1, Inductive, PTL

\* The manager is well formed, and the sample it shows for a session is not that
\* of a poller which is gone (poll's second look at Manager.running).
THEOREM WellFormed == Spec => []Consistent
<1>1. IInv => Consistent
  BY DEF IInv, PollersSound, Consistent, TypeOK
<1> QED BY <1>1, Inductive, PTL
=============================================================================
