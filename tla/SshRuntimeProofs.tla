-------------------------- MODULE SshRuntimeProofs --------------------------
(***************************************************************************)
(* Proofs about SshRuntime for any number of runtimes, calls, sessions and *)
(* records.  The inductive invariant says what a registered session is:    *)
(* either its own connector is still at work and holds the runtime's       *)
(* connectCall, or it is connected and the record names it, so that        *)
(* the next caller reuses it.                                              *)
(***************************************************************************)
EXTENDS SshRuntime, FiniteSetTheorems, TLAPS

(* Type correctness *)

\* Pruning keeps the records typed, never drops the record it is told to keep
\* nor one a session owns.
LEMMA PrunableType ==
    ASSUME NEW keep, NEW dropped \in Prunable(keep), TypeOK
    PROVE  /\ \A r \in dropped : r \in Runtimes /\ r # keep /\ current[r] = NoCall
           /\ GenWithout(dropped) \in [Runtimes -> Nat]
           /\ RstateWithout(dropped) \in
                  [Runtimes -> {"none", "connecting", "active"} \union Down]
BY DEF Prunable, Records, GenWithout, RstateWithout, TypeOK

\* updateRuntimeState keeps the record typed.
LEMMA UpdateType ==
    ASSUME TypeOK, NEW s \in Calls, NEW new \in {"active"} \union Down,
           UpdateRuntimeState(s, new)
    PROVE  /\ gen' = gen
           /\ current' \in [Runtimes -> Calls \union {NoCall}]
           /\ rstate' \in [Runtimes -> {"none", "connecting", "active"} \union Down]
<1> DEFINE r == target[s]
<1>1. r \in Runtimes
  BY DEF TypeOK
<1>2. CASE gen[r] = sgen[s]
  BY <1>1, <1>2 DEF UpdateRuntimeState, TypeOK
<1>3. CASE gen[r] # sgen[s]
  BY <1>1, <1>3 DEF UpdateRuntimeState, TypeOK
<1> QED BY <1>2, <1>3

\* The manager starts with every variable of its type.
LEMMA InitType == Init => TypeOK
BY DEF Init, TypeOK, CallPC, Down

\* Every step of a connect call keeps the types.
LEMMA CallStepType ==
    ASSUME TypeOK, NEW c \in Calls, CallStep(c)
    PROVE  TypeOK'
<1> USE DEF TypeOK, CallPC
<1>1. CASE Begin(c)
  <2>1. PICK dropped \in Prunable(target[c]) :
            gen' = GenWithout(dropped) /\ rstate' = RstateWithout(dropped)
    BY <1>1 DEF Begin
  <2>2. gen' \in [Runtimes -> Nat]
        /\ rstate' \in [Runtimes -> {"none", "connecting", "active"} \union Down]
    BY <2>1, PrunableType
  <2>3. target[c] \in Runtimes
    OBVIOUS
  <2>4. CASE InFlight(target[c])
    <3>1. connecting[target[c]] \in Calls
      BY <2>3, <2>4 DEF InFlight
    <3> QED BY <1>1, <2>2, <2>4, <3>1 DEF Begin, sessionVars
  <2>5. CASE ~InFlight(target[c]) /\ Reusable(target[c])
    BY <1>1, <2>2, <2>3, <2>5 DEF Begin, sessionVars
  <2>6. CASE ~InFlight(target[c]) /\ ~Reusable(target[c])
    BY <1>1, <2>2, <2>3, <2>6 DEF Begin, sessionVars
  <2> QED BY <2>4, <2>5, <2>6
<1>2. CASE Reserve(c)
  <2>1. CASE AtLimit
    BY <1>2, <2>1 DEF Reserve, Goto, sessionVars, recordVars
  <2>2. CASE ~AtLimit
    <3>1. PICK dropped \in Prunable(target[c]) :
              /\ gen' = [GenWithout(dropped) EXCEPT ![target[c]] = @ + 1]
              /\ rstate' = [RstateWithout(dropped) EXCEPT ![target[c]] = "connecting"]
      BY <1>2, <2>2 DEF Reserve
    <3>2. gen' \in [Runtimes -> Nat]
          /\ rstate' \in [Runtimes -> {"none", "connecting", "active"} \union Down]
      BY <3>1, PrunableType
    <3>3. gen[target[c]] + 1 \in Nat
      OBVIOUS
    <3>4. /\ \E at \in {"asking", "dialing"} : pc' = [pc EXCEPT ![c] = at]
          /\ current' = [current EXCEPT ![target[c]] = c]
          /\ sgen' = [sgen EXCEPT ![c] = gen[target[c]] + 1]
          /\ state' = [state EXCEPT ![c] = "connecting"]
          /\ registered' = registered \union {c}
          /\ UNCHANGED <<target, joined, outcome, got, connecting, teardown>>
      BY <1>2, <2>2 DEF Reserve, Goto
    <3> QED BY <3>2, <3>3, <3>4
  <2> QED BY <2>1, <2>2
<1>3. CASE Publish(c)
  BY <1>3 DEF Publish, Goto, recordVars
<1>4. CASE Cancel(c)
  BY <1>4 DEF Cancel, Goto, sessionVars, recordVars
<1>5. CASE Activate(c)
  <2>1. UpdateRuntimeState(c, "active")
    BY <1>5 DEF Activate
  <2> QED BY <1>5, <2>1, UpdateType DEF Activate, Goto, sessionVars
<1>6. CASE Finish(c)
  BY <1>6 DEF Finish, Goto, sessionVars, recordVars
<1>7. CASE Follow(c)
  <2>1. joined[c] \in Calls
    BY <1>7 DEF Follow
  <2> QED BY <1>7, <2>1 DEF Follow, sessionVars, recordVars
<1>8. CASE DialFails(c)
  BY <1>8 DEF DialFails, Goto, sessionVars, recordVars
<1>9. CASE FailLookup(c)
  BY <1>9 DEF FailLookup, Goto, sessionVars, recordVars
<1>10. CASE FailMark(c)
  BY <1>10 DEF FailMark, Goto, Down, recordVars
<1>11. CASE FailReport(c)
  <2>1. UpdateRuntimeState(c, "error")
    BY <1>11 DEF FailReport
  <2>2. "error" \in Down
    BY DEF Down
  <2> QED BY <1>11, <2>1, <2>2, UpdateType DEF FailReport, Goto, sessionVars
<1>12. CASE FailRemove(c)
  BY <1>12 DEF FailRemove, Goto, recordVars
<1>13. CASE Answer(c)
  BY <1>13 DEF Answer, Goto, sessionVars, recordVars
<1> QED
  BY <1>1, <1>2, <1>3, <1>4, <1>5, <1>6, <1>7, <1>8, <1>9, <1>10, <1>11, <1>12, <1>13
  DEF CallStep

\* Every step of a Disconnect keeps the types.
LEMMA DisconnectStepType ==
    ASSUME TypeOK, NEW s \in Calls, DisconnectStep(s)
    PROVE  TypeOK'
<1> USE DEF TypeOK, CallPC, Down
<1>1. CASE DisconnectRemove(s)
  BY <1>1 DEF DisconnectRemove, callVars, recordVars
<1>2. CASE DisconnectMark(s)
  BY <1>2 DEF DisconnectMark, callVars, recordVars
<1>3. CASE DisconnectReport(s)
  <2>1. UpdateRuntimeState(s, teardown[s]) /\ teardown[s] \in Down
    BY <1>3 DEF DisconnectReport
  <2> QED BY <1>3, <2>1, UpdateType DEF DisconnectReport, callVars
<1> QED BY <1>1, <1>2, <1>3 DEF DisconnectStep

\* Every variable keeps its type (Manager and Session fields, runtimeRecord).
THEOREM TypeCorrect == Spec => []TypeOK
<1>1. TypeOK /\ [Next]_vars => TypeOK'
  <2> SUFFICES ASSUME TypeOK, [Next]_vars PROVE TypeOK'
    OBVIOUS
  <2>1. CASE UNCHANGED vars
    BY <2>1 DEF TypeOK, vars, callVars, sessionVars, recordVars
  <2>2. ASSUME NEW c \in Calls, CallStep(c) \/ DisconnectStep(c) PROVE TypeOK'
    BY <2>2, CallStepType, DisconnectStepType
  <2> QED BY <2>1, <2>2 DEF Next
<1> QED BY <1>1, InitType, PTL DEF Spec

-----------------------------------------------------------------------------
(* The inductive invariant *)

\* A call at work on a handshake is the one in Manager.connecting.
OwnerHoldsCall ==
    \A c \in Calls : pc[c] \in OwnerPC => connecting[target[c]] = c

\* ... and no other session of its runtime is registered.
OwnerAlone ==
    \A c \in Calls, s \in registered :
        pc[c] \in OwnerPC /\ target[s] = target[c] => s = c

\* What a registered session has been through.
RegisteredPhase ==
    \A s \in registered :
        /\ pc[s] \notin {"idle", "waiting", "owner"}
        /\ teardown[s] = "none"
        /\ pc[s] \in {"published", "settled", "returned"} => state[s] = "connected"

\* Nothing tears down a session that was never registered.
NothingToTearDown ==
    \A c \in Calls : pc[c] \in {"idle", "waiting", "owner"} => teardown[c] = "none"

IInv ==
    /\ TypeOK
    /\ OwnerHoldsCall
    /\ OwnerAlone
    /\ RegisteredPhase
    /\ NothingToTearDown
    /\ RegisteredOwnsRecord

\* updateRuntimeState, called for a session that holds its runtime or is out of
\* Manager.sessions, leaves the records of the other registered sessions alone.
LEMMA UpdateKeepsOthers ==
    ASSUME IInv, NEW c \in Calls, NEW new \in {"active"} \union Down,
           UpdateRuntimeState(c, new),
           new = "active" => pc[c] \in OwnerPC,
           NEW s \in registered, s # c, pc[s] # "removing"
    PROVE  gen'[target[s]] = sgen[s] /\ current'[target[s]] = s
BY DEF UpdateRuntimeState, IInv, TypeOK, OwnerAlone, RegisteredOwnsRecord, Down

\* Pruning leaves the record of every registered session alone.
LEMMA PruneKeepsRegistered ==
    ASSUME IInv, CallsAssumption, NEW keep, NEW dropped \in Prunable(keep),
           NEW s \in registered, pc[s] # "removing"
    PROVE  target[s] \notin dropped
BY PrunableType DEF CallsAssumption, IInv, TypeOK, RegisteredOwnsRecord

\* Every step of a connect call keeps the inductive invariant.
LEMMA CallStepInductive ==
    ASSUME IInv, CallsAssumption, NEW c \in Calls, CallStep(c)
    PROVE  IInv'
<1>0. TypeOK'
  BY CallStepType DEF IInv
<1> USE DEF IInv, OwnerPC, CallPC
<1>1. CASE Begin(c)
  <2>1. PICK dropped \in Prunable(target[c]) : gen' = GenWithout(dropped)
    BY <1>1 DEF Begin
  <2>2. UNCHANGED <<target, registered, state, sgen, teardown, current>>
    BY <1>1 DEF Begin, sessionVars
  <2>3. RegisteredOwnsRecord'
    <3>1. \A s \in registered : pc'[s] = pc[s] /\ s # c
      BY <1>1 DEF Begin, TypeOK, RegisteredPhase
    <3>2. \A s \in registered : pc[s] # "removing" => gen'[target[s]] = gen[target[s]]
      BY <2>1, PruneKeepsRegistered DEF GenWithout, TypeOK
    <3> QED BY <2>2, <3>1, <3>2 DEF RegisteredOwnsRecord
  <2>4. CASE pc' = [pc EXCEPT ![c] = "waiting"] /\ connecting' = connecting
    BY <1>0, <1>1, <2>2, <2>3, <2>4
    DEF TypeOK, Begin, OwnerHoldsCall, OwnerAlone, RegisteredPhase, NothingToTearDown
  <2>5. CASE pc' = [pc EXCEPT ![c] = "returned"] /\ connecting' = connecting
    BY <1>0, <1>1, <2>2, <2>3, <2>5
    DEF TypeOK, Begin, OwnerHoldsCall, OwnerAlone, RegisteredPhase, NothingToTearDown
  <2>6. CASE /\ pc' = [pc EXCEPT ![c] = "owner"]
             /\ connecting' = [connecting EXCEPT ![target[c]] = c]
             /\ ~InFlight(target[c])
             /\ ~Reusable(target[c])
    <3>1. \A d \in Calls : pc[d] \in OwnerPC => target[d] # target[c]
      BY <2>6, CallsAssumption DEF OwnerHoldsCall, InFlight, TypeOK, CallsAssumption
    <3>2. \A s \in registered : target[s] # target[c]
      <4> SUFFICES ASSUME NEW s \in registered, target[s] = target[c] PROVE FALSE
        OBVIOUS
      <4>1. s \in Calls /\ pc[s] \notin OwnerPC
        BY <3>1 DEF TypeOK
      <4>2. pc[s] = "returned" /\ state[s] = "connected" /\ current[target[c]] = s
        BY <4>1 DEF RegisteredPhase, RegisteredOwnsRecord, TypeOK
      <4> QED BY <2>6, <4>2 DEF Reusable
    <3> QED
      BY <1>0, <1>1, <2>2, <2>3, <2>6, <3>1, <3>2
      DEF TypeOK, Begin, OwnerHoldsCall, OwnerAlone, RegisteredPhase, NothingToTearDown
  <2> QED BY <1>1, <2>4, <2>5, <2>6 DEF Begin
<1>2. CASE Reserve(c)
  <2>0. c \notin registered /\ pc[c] = "owner" /\ UNCHANGED <<target, connecting>>
    BY <1>2 DEF Reserve, Goto, RegisteredPhase
  <2>1. CASE AtLimit
    BY <1>0, <1>2, <2>0, <2>1
    DEF Reserve, Goto, sessionVars, recordVars, TypeOK, OwnerHoldsCall,
        OwnerAlone, RegisteredPhase, NothingToTearDown, RegisteredOwnsRecord
  <2>2. CASE ~AtLimit
    <3>1. PICK dropped \in Prunable(target[c]) :
              gen' = [GenWithout(dropped) EXCEPT ![target[c]] = @ + 1]
      BY <1>2, <2>2 DEF Reserve
    <3>2. /\ \E at \in {"asking", "dialing"} : pc' = [pc EXCEPT ![c] = at]
          /\ current' = [current EXCEPT ![target[c]] = c]
          /\ sgen' = [sgen EXCEPT ![c] = gen[target[c]] + 1]
          /\ state' = [state EXCEPT ![c] = "connecting"]
          /\ registered' = registered \union {c}
          /\ UNCHANGED teardown
      BY <1>2, <2>2 DEF Reserve, Goto
    <3>3. \A s \in registered : target[s] # target[c] /\ s # c
      BY <2>0 DEF OwnerAlone
    <3>4. target[c] \notin dropped /\ gen'[target[c]] = gen[target[c]] + 1
      BY <3>1, PrunableType DEF GenWithout, TypeOK
    <3>5. RegisteredOwnsRecord'
      <4>1. ASSUME NEW s \in registered, pc[s] # "removing"
            PROVE  gen'[target[s]] = gen[target[s]]
        BY <4>1, <3>1, <3>3, PruneKeepsRegistered DEF GenWithout, TypeOK
      <4>2. gen'[target'[c]] = sgen'[c] /\ current'[target'[c]] = c
        BY <2>0, <3>2, <3>4 DEF TypeOK
      <4>3. ASSUME NEW s \in registered, pc'[s] # "removing"
            PROVE  gen'[target'[s]] = sgen'[s] /\ current'[target'[s]] = s
        <5>1. pc[s] # "removing" /\ sgen'[s] = sgen[s] /\ s \in Calls
          BY <3>2, <3>3, <4>3 DEF TypeOK
        <5>2. current'[target[s]] = current[target[s]]
          BY <3>2, <3>3, <5>1 DEF TypeOK
        <5> QED BY <2>0, <4>1, <5>1, <5>2 DEF RegisteredOwnsRecord
      <4> QED BY <3>2, <4>2, <4>3 DEF RegisteredOwnsRecord
    <3>6. RegisteredPhase'
      <4>1. pc'[c] \in {"asking", "dialing"} /\ teardown'[c] = "none"
        BY <2>0, <3>2 DEF NothingToTearDown, TypeOK
      <4> QED BY <3>2, <3>3, <4>1 DEF RegisteredPhase, TypeOK
    <3>7. OwnerHoldsCall' /\ OwnerAlone'
      BY <2>0, <3>2, <3>3 DEF OwnerHoldsCall, OwnerAlone, TypeOK
    <3>8. NothingToTearDown'
      BY <3>2 DEF NothingToTearDown, TypeOK
    <3> QED BY <1>0, <3>5, <3>6, <3>7, <3>8
  <2> QED BY <2>1, <2>2
<1>3. CASE Publish(c)
  BY <1>0, <1>3
  DEF Publish, Goto, Done, recordVars, TypeOK, OwnerHoldsCall, OwnerAlone, RegisteredPhase,
      NothingToTearDown, RegisteredOwnsRecord
<1>4. CASE Cancel(c)
  BY <1>0, <1>4
  DEF Cancel, Goto, Done, Down, sessionVars, recordVars, TypeOK, OwnerHoldsCall, OwnerAlone, RegisteredPhase,
      NothingToTearDown, RegisteredOwnsRecord
<1>5. CASE Activate(c)
  <2>1. UpdateRuntimeState(c, "active") /\ UNCHANGED <<target, connecting, sessionVars>>
    BY <1>5 DEF Activate
  <2>2. RegisteredOwnsRecord'
    BY <1>5, <2>1, UpdateKeepsOthers
    DEF Activate, Goto, sessionVars, TypeOK, Down, RegisteredOwnsRecord, UpdateRuntimeState
  <2> QED
    BY <1>0, <1>5, <2>1, <2>2
    DEF Activate, Goto, sessionVars, TypeOK, OwnerHoldsCall, OwnerAlone,
        RegisteredPhase, NothingToTearDown
<1>6. CASE Finish(c)
  BY <1>0, <1>6
  DEF Finish, Goto, sessionVars, recordVars, TypeOK, OwnerHoldsCall, OwnerAlone, RegisteredPhase,
      NothingToTearDown, RegisteredOwnsRecord
<1>7. CASE Follow(c)
  BY <1>0, <1>7
  DEF Follow, sessionVars, recordVars, TypeOK, OwnerHoldsCall, OwnerAlone, RegisteredPhase,
      NothingToTearDown, RegisteredOwnsRecord
<1>8. CASE DialFails(c)
  BY <1>0, <1>8
  DEF DialFails, Goto, sessionVars, recordVars, TypeOK, OwnerHoldsCall, OwnerAlone, RegisteredPhase,
      NothingToTearDown, RegisteredOwnsRecord
<1>9. CASE FailLookup(c)
  BY <1>0, <1>9
  DEF FailLookup, Goto, sessionVars, recordVars, TypeOK, OwnerHoldsCall, OwnerAlone, RegisteredPhase,
      NothingToTearDown, RegisteredOwnsRecord
<1>10. CASE FailMark(c)
  BY <1>0, <1>10
  DEF FailMark, Goto, recordVars, TypeOK, OwnerHoldsCall, OwnerAlone, RegisteredPhase,
      NothingToTearDown, RegisteredOwnsRecord
<1>11. CASE FailReport(c)
  <2>1. UpdateRuntimeState(c, "error") /\ UNCHANGED <<target, connecting, sessionVars>>
    BY <1>11 DEF FailReport
  <2>2. RegisteredOwnsRecord'
    BY <1>11, <2>1, UpdateKeepsOthers
    DEF FailReport, Goto, sessionVars, TypeOK, Down, RegisteredOwnsRecord
  <2> QED
    BY <1>0, <1>11, <2>1, <2>2
    DEF FailReport, Goto, sessionVars, TypeOK, OwnerHoldsCall, OwnerAlone,
        RegisteredPhase, NothingToTearDown
<1>12. CASE FailRemove(c)
  BY <1>0, <1>12
  DEF FailRemove, Goto, recordVars, TypeOK, OwnerHoldsCall, OwnerAlone, RegisteredPhase,
      NothingToTearDown, RegisteredOwnsRecord
<1>13. CASE Answer(c)
  BY <1>0, <1>13
  DEF Answer, Goto, sessionVars, recordVars, TypeOK, OwnerHoldsCall, OwnerAlone, RegisteredPhase,
      NothingToTearDown, RegisteredOwnsRecord
<1> QED
  BY <1>1, <1>2, <1>3, <1>4, <1>5, <1>6, <1>7, <1>8, <1>9, <1>10, <1>11, <1>12, <1>13
  DEF CallStep

\* Every step of a Disconnect keeps the inductive invariant.
LEMMA DisconnectStepInductive ==
    ASSUME IInv, NEW t \in Calls, DisconnectStep(t)
    PROVE  IInv'
<1>0. TypeOK'
  BY DisconnectStepType DEF IInv
<1> USE DEF IInv, OwnerPC
<1>1. CASE DisconnectRemove(t)
  BY <1>0, <1>1
  DEF DisconnectRemove, callVars, recordVars, TypeOK, OwnerHoldsCall, OwnerAlone,
      RegisteredPhase, NothingToTearDown, RegisteredOwnsRecord
<1>2. CASE DisconnectMark(t)
  BY <1>0, <1>2
  DEF DisconnectMark, callVars, recordVars, TypeOK, OwnerHoldsCall, OwnerAlone,
      RegisteredPhase, NothingToTearDown, RegisteredOwnsRecord
<1>3. CASE DisconnectReport(t)
  <2>1. /\ teardown[t] \in Down
        /\ UpdateRuntimeState(t, teardown[t])
        /\ teardown' = [teardown EXCEPT ![t] = "reported"]
        /\ UNCHANGED <<callVars, registered, state, sgen>>
    BY <1>3 DEF DisconnectReport
  <2>2. t \notin registered /\ pc[t] \notin {"idle", "waiting", "owner"}
    BY <2>1 DEF RegisteredPhase, NothingToTearDown, Down
  <2>3. RegisteredOwnsRecord'
    BY <2>1, <2>2, UpdateKeepsOthers DEF callVars, Down, RegisteredOwnsRecord
  <2> QED
    BY <1>0, <2>1, <2>2, <2>3
    DEF callVars, TypeOK, OwnerHoldsCall, OwnerAlone, RegisteredPhase, NothingToTearDown
<1> QED BY <1>1, <1>2, <1>3 DEF DisconnectStep

\* The inductive invariant holds: one owner per connectCall, one registered
\* session per owner, and each registered session in its own record.
THEOREM Inductive == Spec => []IInv
<1>1. Init => IInv
  BY InitType
  DEF Init, IInv, OwnerPC, OwnerHoldsCall, OwnerAlone, RegisteredPhase,
      NothingToTearDown, RegisteredOwnsRecord
<1>2. IInv /\ [Next]_vars => IInv'
  <2> SUFFICES ASSUME IInv, [Next]_vars PROVE IInv'
    OBVIOUS
  <2>1. CASE UNCHANGED vars
    BY <2>1
    DEF vars, callVars, sessionVars, recordVars, IInv, TypeOK, OwnerHoldsCall,
        OwnerAlone, RegisteredPhase, NothingToTearDown, RegisteredOwnsRecord
  <2>2. ASSUME NEW c \in Calls, CallStep(c) \/ DisconnectStep(c) PROVE IInv'
    BY <2>2, CallsAssumption, CallStepInductive, DisconnectStepInductive
  <2> QED BY <2>1, <2>2 DEF Next
<1> QED BY <1>1, <1>2, PTL DEF Spec

-----------------------------------------------------------------------------
(* The safety properties *)

\* Two handshakes for one runtime never overlap (Manager.connecting).
THEOREM OneHandshake == Spec => []OneHandshakePerRuntime
<1>1. IInv => OneHandshakePerRuntime
  BY DEF IInv, OwnerHoldsCall, OneHandshakePerRuntime
<1> QED BY <1>1, Inductive, PTL

\* A registered session's record is its own (beginRuntimeConnect, IsCurrent).
THEOREM RecordOwned == Spec => []RegisteredOwnsRecord
<1>1. IInv => RegisteredOwnsRecord
  BY DEF IInv
<1> QED BY <1>1, Inductive, PTL

\* Two registered sessions of one runtime would both be its current session.
LEMMA InvGivesOneSession == IInv => OneSessionPerRuntime
<1> SUFFICES ASSUME IInv, NEW s \in registered, NEW t \in registered,
                    target[s] = target[t]
             PROVE  s = t
  BY DEF OneSessionPerRuntime
<1> USE DEF IInv, TypeOK
<1>1. CASE pc[s] \in OwnerPC \/ pc[t] \in OwnerPC
  BY <1>1 DEF OwnerAlone
<1>2. CASE pc[s] \notin OwnerPC /\ pc[t] \notin OwnerPC
  BY <1>2 DEF RegisteredPhase, RegisteredOwnsRecord, OwnerPC, CallPC
<1> QED BY <1>1, <1>2

\* A runtime never has two sessions in Manager.sessions.
THEOREM OneSession == Spec => []OneSessionPerRuntime
BY InvGivesOneSession, Inductive, PTL

\* The session limit holds however many connects race for the last slot.
THEOREM Limit == Spec => []SessionLimit
<1> DEFINE Finite == IsFiniteSet(registered) /\ SessionLimit
<1> USE LimitsAssumption DEF LimitsAssumption, SessionLimit
<1>1. Init => Finite
  BY FS_EmptySet DEF Init
<1>2. Finite /\ [Next]_vars => Finite'
  <2> SUFFICES ASSUME Finite, [Next]_vars PROVE Finite'
    OBVIOUS
  <2>1. Cardinality(registered) \in Nat
    BY FS_CardinalityType
  <2>2. CASE registered' = registered
    BY <2>2
  <2>3. ASSUME NEW c \in Calls, registered' = registered \ {c} PROVE Finite'
    <3>1. IsFiniteSet(registered \ {c})
      BY FS_RemoveElement
    <3>2. Cardinality(registered \ {c}) <= Cardinality(registered)
      BY SMTT(40), <2>1, FS_RemoveElement
    <3> QED BY <2>1, <2>3, <3>1, <3>2, FS_CardinalityType
  <2>4. ASSUME NEW c \in Calls, registered' = registered \union {c}, ~AtLimit
        PROVE  Finite'
    BY <2>1, <2>4, FS_AddElement DEF AtLimit
  <2>5. ASSUME NEW c \in Calls, CallStep(c) PROVE Finite'
    <3>1. \/ registered' = registered
          \/ registered' = registered \ {c}
          \/ registered' = registered \union {c} /\ ~AtLimit
      BY <2>5
      DEF CallStep, Answer, Begin, Reserve, Publish, Cancel, Activate, Finish, Follow,
          DialFails, FailLookup, FailMark, FailReport, FailRemove, sessionVars
    <3> QED BY <2>2, <2>3, <2>4, <3>1
  <2>6. ASSUME NEW s \in Calls, DisconnectStep(s) PROVE Finite'
    <3>1. registered' = registered \/ registered' = registered \ {s}
      BY <2>6 DEF DisconnectStep, DisconnectRemove, DisconnectMark, DisconnectReport
    <3> QED BY <2>2, <2>3, <3>1
  <2>7. CASE UNCHANGED vars
    BY <2>2, <2>7 DEF vars, sessionVars
  <2> QED BY <2>5, <2>6, <2>7 DEF Next
<1>3. Finite => SessionLimit
  OBVIOUS
<1> HIDE DEF SessionLimit
<1> QED BY <1>1, <1>2, <1>3, PTL DEF Spec

-----------------------------------------------------------------------------
(* The manager implements the lease *)

\* The lease of a runtime with a registered session is with that session.
LEMMA HolderIs ==
    ASSUME OneSessionPerRuntime, NEW r \in Runtimes, NEW s \in registered, target[s] = r
    PROVE  Holder[r] = s
BY DEF Holder, OneSessionPerRuntime

\* A runtime without a registered session leases to nobody.
LEMMA HolderNone ==
    ASSUME NEW r \in Runtimes, \A s \in registered : target[s] # r
    PROVE  Holder[r] = NoCall
BY DEF Holder

\* A session leaving Manager.sessions gives up its runtime's lease.
LEMMA RemoveReleases ==
    ASSUME IInv, CallsAssumption, NEW s \in Calls, target' = target,
           sgen' = sgen, registered' = registered \ {s}
    PROVE  [Lease!Next]_Lease!lease
<1> USE DEF IInv, TypeOK
<1>1. {c \in Calls : sgen'[c] > 0} = {c \in Calls : sgen[c] > 0}
  OBVIOUS
<1>2. CASE s \notin registered
  <2>1. registered' = registered
    BY <1>2
  <2>2. Holder' = Holder
    BY <2>1 DEF Holder
  <2> QED BY <1>1, <2>2 DEF Lease!lease
<1>3. CASE s \in registered
  <2> DEFINE r == target[s]
  <2>1. OneSessionPerRuntime /\ r \in Runtimes
    BY InvGivesOneSession
  <2>2. Holder[r] = s
    BY <1>3, <2>1, HolderIs
  <2>3. Holder' = [Holder EXCEPT ![r] = NoCall]
    <3>1. ASSUME NEW q \in Runtimes PROVE Holder'[q] = IF q = r THEN NoCall ELSE Holder[q]
      <4>1. CASE q = r
        BY <1>3, <2>1, <4>1 DEF Holder, OneSessionPerRuntime
      <4>2. CASE q # r
        <5>1. {t \in registered' : target'[t] = q} = {t \in registered : target[t] = q}
          BY <4>2
        <5>2. /\ (\E t \in registered' : target'[t] = q)
                    <=> (\E t \in registered : target[t] = q)
              /\ (CHOOSE t \in registered' : target'[t] = q)
                    = (CHOOSE t \in registered : target[t] = q)
          BY <4>2, <5>1
        <5> QED BY <4>2, <5>2 DEF Holder
      <4> QED BY <4>1, <4>2
    <3> QED BY <3>1 DEF Holder
  <2>4. Lease!Release(r)
    BY <1>1, <1>3, <2>2, <2>3, CallsAssumption DEF Lease!Release, CallsAssumption
  <2> QED BY <2>1, <2>4 DEF Lease!Next
<1> QED BY <1>2, <1>3

\* reserveRuntimeLocked and the insert take the lease, for a session that
\* never held one.
LEMMA ReserveAcquires ==
    ASSUME IInv, CallsAssumption, NEW c \in Calls, sgen[c] = 0, pc[c] = "owner",
           target' = target, registered' = registered \union {c},
           sgen' = [sgen EXCEPT ![c] = gen[target[c]] + 1]
    PROVE  Lease!Next
<1> DEFINE r == target[c]
<1> USE DEF IInv, TypeOK
<1>1. r \in Runtimes /\ c \notin registered /\ \A s \in registered : target[s] # r
  BY DEF OwnerAlone, RegisteredPhase, OwnerPC
<1>2. Holder[r] = NoCall
  BY <1>1, HolderNone
<1>3. {s \in Calls : sgen'[s] > 0} = {s \in Calls : sgen[s] > 0} \union {c}
  BY <1>1
<1>4. Holder' = [Holder EXCEPT ![r] = c]
  <2>1. ASSUME NEW q \in Runtimes PROVE Holder'[q] = IF q = r THEN c ELSE Holder[q]
    <3>1. CASE q = r
      <4>1. {t \in registered' : target'[t] = q} = {c}
        BY <1>1, <3>1
      <4>2. (\E t \in registered' : target'[t] = q)
            /\ (CHOOSE t \in registered' : target'[t] = q) = c
        BY <4>1
      <4> QED BY <3>1, <4>2 DEF Holder
    <3>2. CASE q # r
      <4>1. {t \in registered' : target'[t] = q} = {t \in registered : target[t] = q}
        BY <3>2
      <4>2. /\ (\E t \in registered' : target'[t] = q)
                  <=> (\E t \in registered : target[t] = q)
            /\ (CHOOSE t \in registered' : target'[t] = q)
                  = (CHOOSE t \in registered : target[t] = q)
        BY <3>2, <4>1
      <4> QED BY <3>2, <4>2 DEF Holder
    <3> QED BY <3>1, <3>2
  <2> QED BY <2>1 DEF Holder
<1>5. Lease!Acquire(r, c)
  BY <1>2, <1>3, <1>4 DEF Lease!Acquire
<1> QED BY <1>1, <1>5 DEF Lease!Next

\* A call that has not reserved yet has no generation.
Unreserved == \A c \in Calls : pc[c] \in {"idle", "waiting", "owner"} => sgen[c] = 0

\* A session that has not been reserved has no generation yet.
LEMMA UnreservedHolds == Spec => []Unreserved
<1>1. Init => Unreserved
  BY DEF Init, Unreserved
<1>2. TypeOK /\ Unreserved /\ [Next]_vars => Unreserved'
  <2> SUFFICES ASSUME TypeOK, Unreserved, [Next]_vars PROVE Unreserved'
    OBVIOUS
  <2> USE DEF TypeOK, Unreserved
  <2>1. ASSUME NEW c \in Calls, CallStep(c) PROVE Unreserved'
    <3>1. CASE Begin(c)
      BY <3>1 DEF Begin, sessionVars
    <3>2. CASE Reserve(c)
      BY <3>2 DEF Reserve, Goto, sessionVars
    <3>3. CASE ~Begin(c) /\ ~Reserve(c)
      BY <2>1, <3>3
      DEF CallStep, Answer, Publish, Cancel, Activate, Finish, Follow, DialFails, FailLookup,
          FailMark, FailReport, FailRemove, Goto, sessionVars
    <3> QED BY <3>1, <3>2, <3>3
  <2>2. ASSUME NEW s \in Calls, DisconnectStep(s) PROVE Unreserved'
    BY <2>2 DEF DisconnectStep, DisconnectRemove, DisconnectMark, DisconnectReport,
                callVars
  <2>3. CASE UNCHANGED vars
    BY <2>3 DEF vars, callVars, sessionVars
  <2> QED BY <2>1, <2>2, <2>3 DEF Next
<1> QED BY <1>1, <1>2, TypeCorrect, PTL DEF Spec

\* The lease variables do not move when the registry does not.
LEMMA Stutter ==
    ASSUME UNCHANGED <<target, registered, sgen>>
    PROVE  UNCHANGED Lease!lease
BY DEF Lease!lease, Holder

\* The manager leases a runtime's connection to one session at a time, for any
\* number of callers (beginRuntimeConnect, Disconnect, failConnect).
THEOREM LeaseImplemented == Spec => ImplementsLease
<1>1. Init => Lease!Init
  BY DEF Init, Lease!Init, Holder
<1>2. IInv /\ Unreserved /\ [Next]_vars => [Lease!Next]_Lease!lease
  <2> SUFFICES ASSUME IInv, Unreserved, [Next]_vars
               PROVE  [Lease!Next]_Lease!lease
    OBVIOUS
  <2>1. ASSUME NEW c \in Calls, CallStep(c) PROVE [Lease!Next]_Lease!lease
    <3>1. CASE Reserve(c)
      <4>1. CASE AtLimit
        BY <3>1, <4>1, Stutter DEF Reserve, sessionVars
      <4>2. CASE ~AtLimit
        <5>1. sgen[c] = 0 /\ pc[c] = "owner"
          BY <3>1 DEF Reserve, Goto, Unreserved
        <5> QED BY <3>1, <4>2, <5>1, ReserveAcquires, CallsAssumption DEF Reserve
      <4> QED BY <4>1, <4>2
    <3>2. CASE FailRemove(c)
      BY <3>2, RemoveReleases, CallsAssumption DEF FailRemove
    <3>3. CASE ~Reserve(c) /\ ~FailRemove(c)
      BY <2>1, <3>3, Stutter
      DEF CallStep, Answer, Begin, Publish, Cancel, Activate, Finish, Follow, DialFails,
          FailLookup, FailMark, FailReport, sessionVars
    <3> QED BY <3>1, <3>2, <3>3
  <2>2. ASSUME NEW s \in Calls, DisconnectStep(s) PROVE [Lease!Next]_Lease!lease
    <3>1. CASE DisconnectRemove(s)
      BY <3>1, RemoveReleases, CallsAssumption DEF DisconnectRemove, callVars
    <3>2. CASE ~DisconnectRemove(s)
      BY <2>2, <3>2, Stutter
      DEF DisconnectStep, DisconnectMark, DisconnectReport, callVars
    <3> QED BY <3>1, <3>2
  <2>3. CASE UNCHANGED vars
    BY <2>3, Stutter DEF vars, callVars, sessionVars
  <2> QED BY <2>1, <2>2, <2>3 DEF Next
<1> QED BY <1>1, <1>2, Inductive, UnreservedHolds, PTL
        DEF Spec, ImplementsLease, Lease!Spec

\* The registries' bookkeeping: types, the session limit, one session a runtime.
THEOREM WellFormed == Spec => []Consistent
<1>1. TypeOK /\ SessionLimit /\ OneSessionPerRuntime => Consistent
  BY DEF Consistent
<1> QED BY <1>1, TypeCorrect, Limit, OneSession, PTL
=============================================================================
