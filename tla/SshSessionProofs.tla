-------------------------- MODULE SshSessionProofs --------------------------
(***************************************************************************)
(* Proofs about SshSession for any number of recordings.  The invariant    *)
(* says at each stage of the connector what it has opened and who else     *)
(* knows of it: what is open is on the connector's own hands until it is   *)
(* in the session's fields, and once the session is published all of it    *)
(* is.  From then on it is Disconnect that closes, in the order transports *)
(* first, log last, when the forwarders are done.                          *)
(***************************************************************************)
EXTENDS SshSession, TLAPS

Published == {"announce", "spawn", "ok"}
Failed    == {"lookup", "mark", "tell", "remove", "error"}

\* What the connector has opened, and what of it the session's fields hold.
Opened ==
    /\ cpc \in {"config", "jump_dial"} => open = {}
    /\ cpc \in {"jump_track", "jump_asking", "jump_handshake", "jump_clear", "jump_install"} =>
          open \subseteq {"jump"}
    /\ cpc = "dial" => open \subseteq {"jump"} \intersect fields
    /\ cpc \in {"track", "asking", "handshake", "clear", "install"} =>
          open \subseteq {"target"} \union ({"jump"} \intersect fields)
    /\ cpc = "shell" => open \subseteq Transports \intersect fields
    /\ cpc = "publish" => open \subseteq {"log"} \union fields
    /\ cpc \in Published => open \subseteq fields
    /\ cpc \in Failed => open = {}
    /\ "log" \in fields => cpc \in Published

\* The wait group counts the forwarders that have not come to an end, from the
\* moment the session is published, before they are started.
Busy(f) == IF fw[f] = "done" THEN 0 ELSE 1

Counted ==
    /\ cpc \in {"announce", "spawn"} => wg = 2
    /\ cpc = "ok" => wg = Busy("stdout") + Busy("stderr")
    /\ cpc \notin Published => wg = 0
    /\ cpc # "ok" <=> \E f \in Forwarders : fw[f] = "none"
    /\ cpc # "ok" => \A f \in Forwarders : fw[f] = "none"

\* How far Disconnect has come, and what of a published session is still open.
Torn ==
    /\ dpc # "idle" => ~registered
    /\ ~registered => dpc # "idle" \/ cpc = "error"
    /\ done <=> dpc \in {"taken", "waiting", "flushed", "closed"}
    /\ done /\ cpc \in Published => fields \intersect Transports \subseteq taken
    /\ dpc \in {"waiting", "flushed", "closed"} /\ cpc \in Published => open \subseteq {"log"}
    /\ dpc \in {"flushed", "closed"} => wg = 0
    /\ dpc \in {"flushed", "closed"} /\ cpc \in Published => open = {}
    /\ dpc \notin {"flushed", "closed"} /\ "log" \in fields => "log" \in open

\* Once the tab was told that the session is over, nobody tells it otherwise.
Told == dpc = "closed" => tab # "connected"

IInv ==
    /\ TypeOK
    /\ Opened
    /\ Counted
    /\ Torn
    /\ Told

-----------------------------------------------------------------------------
(* The connector *)

\* A step before the session is published: what Disconnect and the forwarders
\* have is not touched.
LEMMA Unpublished ==
    ASSUME IInv, cpc \notin Published, cpc' \notin Published, UNCHANGED <<others, wg, tab>>,
           ~registered => dpc # "idle" \/ cpc' = "error"
    PROVE  Counted' /\ (Opened' => Torn') /\ Told'
<1>1. "log" \notin fields
  BY DEF IInv, Opened
<1>2. Counted'
  BY DEF IInv, Counted, Busy, Published, others
<1>3. Told'
  BY DEF IInv, Told, others
<1>4. ASSUME Opened' PROVE Torn'
  BY <1>1, <1>4 DEF IInv, Torn, Opened, others
<1> QED BY <1>2, <1>3, <1>4

\* The stages up to the shell, each of which may fail or find done closed.
LEMMA EarlyKeeps ==
    ASSUME IInv,
           \/ Configure
           \/ Dial("jump_dial", "jump", "jump_track")
           \/ \E to \in {"jump_asking", "jump_handshake"} : Track("jump_track", "jump", to)
           \/ Answer("jump_asking", "jump_handshake")
           \/ Handshake("jump_handshake", "jump", "jump_clear")
           \/ Clear("jump_clear", "jump", "jump_install")
           \/ Install("jump_install", "jump", "dial")
           \/ Dial("dial", "target", "track")
           \/ \E to \in {"asking", "handshake"} : Track("track", "target", to)
           \/ Answer("asking", "handshake")
           \/ Handshake("handshake", "target", "clear")
           \/ Clear("clear", "target", "install")
           \/ Install("install", "target", "shell")
           \/ Shell
           \/ \E at \in {"jump_asking", "jump_handshake", "asking", "handshake", "shell"} :
                 Fail(at)
           \/ GiveUp("publish")
    PROVE  IInv'
<1> USE DEF Published, Failed, Transports
<1>1. cpc \notin Published /\ cpc' \notin Published /\ UNCHANGED <<others, wg, tab>>
  BY DEF Configure, Dial, Track, Answer, Handshake, Clear, Install, Shell, Fail, GiveUp, Goto
<1>2. TypeOK'
  <2>1. /\ cpc' \in {"jump_dial", "jump_track", "jump_asking", "jump_handshake",
                     "jump_clear", "jump_install", "dial", "track", "asking",
                     "handshake", "clear", "install",
                     "shell", "publish", "lookup", "error"}
        /\ pending' \in {pending, "none", "jump", "target"}
        /\ fields' \in {fields, fields \union {"jump"}, fields \union {"target"}}
        /\ open' \in {open, {}, open \union {"jump"}, open \union {"target"},
                      open \union {"log"}}
        /\ state' = state
    BY DEF Configure, Dial, Track, Answer, Handshake, Clear, Install, Shell, Fail, GiveUp, Goto
  <2>2. /\ open' \in SUBSET (Transports \union {"log"})
        /\ fields' \in SUBSET (Transports \union {"log"})
        /\ pending' \in Transports \union {"none"}
    BY <2>1 DEF IInv, TypeOK
  <2> QED BY <1>1, <2>1, <2>2 DEF IInv, TypeOK, Final, others, recVars
<1>3. Opened'
  BY DEF IInv, Opened, Configure, Dial, Track, Answer, Handshake, Clear, Install, Shell, Fail, GiveUp, Goto
<1>4. cpc # "error"
  BY DEF Configure, Dial, Track, Answer, Handshake, Clear, Install, Shell, Fail, GiveUp, Goto
<1>5. ~registered => dpc # "idle"
  BY <1>4 DEF IInv, Torn
<1> QED BY <1>1, <1>2, <1>3, <1>5, Unpublished DEF IInv

\* The session is published: what is open is in its fields from now on.
LEMMA PublishKeeps ==
    ASSUME IInv, Publish
    PROVE  IInv'
<1> USE DEF Published, Failed, Transports, Forwarders
<1>1. CASE GiveUp("publish")
  BY <1>1, EarlyKeeps
<1>2. CASE /\ Goto("publish", "announce") /\ ~done
           /\ fields' = fields \union (open \intersect {"log"})
           /\ state' = "connected"
           /\ wg' = 2
           /\ UNCHANGED <<others, open, pending, tab>>
  <2>1. TypeOK'
    BY <1>2 DEF IInv, TypeOK, Goto, Final, others, recVars
  <2>2. Opened'
    BY <1>2 DEF IInv, Opened, Goto
  <2>3. Counted' /\ Told'
    BY <1>2 DEF IInv, Counted, Told, Busy, Goto, others
  <2>4. Torn'
    BY <1>2 DEF IInv, Opened, Torn, Goto, others
  <2> QED BY <2>1, <2>2, <2>3, <2>4 DEF IInv
<1> QED BY <1>1, <1>2 DEF Publish

\* The tab is told and the forwarders are started.
LEMMA LiveKeeps ==
    ASSUME IInv, Announce \/ Spawn
    PROVE  IInv'
<1> USE DEF Published, Failed, Transports, Forwarders
<1>1. CASE Announce
  <2>1. TypeOK'
    BY <1>1 DEF IInv, TypeOK, Announce, Goto, Final, others, recVars
  <2>2. Opened' /\ Counted' /\ Torn'
    BY <1>1 DEF IInv, Opened, Counted, Torn, Busy, Announce, Goto, others
  <2>3. dpc # "closed"
    BY <1>1 DEF IInv, Counted, Torn, Announce, Goto
  <2> QED BY <1>1, <2>1, <2>2, <2>3 DEF IInv, Told, Announce, others
<1>2. CASE Spawn
  <2>1. TypeOK'
    BY <1>2 DEF IInv, TypeOK, Spawn, Goto, Final, recVars
  <2>2. Opened' /\ Torn' /\ Told'
    BY <1>2 DEF IInv, Opened, Torn, Told, Spawn, Goto
  <2>3. Counted'
    BY <1>2 DEF IInv, Counted, Busy, Spawn, Goto
  <2> QED BY <2>1, <2>2, <2>3 DEF IInv
<1> QED BY <1>1, <1>2

\* failConnect, after everything was closed.
LEMMA FailKeeps ==
    ASSUME IInv, FailLookup \/ FailMark \/ FailTell \/ FailRemove
    PROVE  IInv'
<1> USE DEF Published, Failed, FailLookup, FailMark, FailTell, FailRemove, Goto, others
<1>1. TypeOK'
  <2>1. /\ cpc' \in {"mark", "remove", "tell", "error"} /\ registered' \in {registered, FALSE}
        /\ state' \in {state, "error"} /\ tab' \in {tab, "error"}
        /\ UNCHANGED <<viaJump, dpc, done, taken, link, fw, tap, recVars, open, fields,
                       pending, wg>>
    BY ZenonT(40)
  <2>2. registered' \in BOOLEAN
    BY <2>1 DEF IInv, TypeOK
  <2> QED BY <2>1, <2>2 DEF IInv, TypeOK, Final, recVars
<1>2. Opened' /\ Counted' /\ Torn' /\ Told'
  BY DEF IInv, Opened, Counted, Torn, Told, Busy
<1> QED BY <1>1, <1>2 DEF IInv

-----------------------------------------------------------------------------
(* Disconnect *)

\* Whoever calls it.
LEMMA RemoveKeeps ==
    ASSUME IInv, DisconnectRemove
    PROVE  IInv'
<1>1. TypeOK'
  <2>1. registered' \in BOOLEAN
    BY DEF DisconnectRemove
  <2> QED BY <2>1 DEF IInv, TypeOK, DisconnectRemove, connVars, outVars, recVars
<1>2. Opened' /\ Counted' /\ Torn' /\ Told'
  BY DEF IInv, Opened, Counted, Torn, Told, Busy, DisconnectRemove, connVars, outVars
<1> QED BY <1>1, <1>2 DEF IInv

\* The teardown: what was published is taken, closed and flushed in turn.
LEMMA DisconnectorKeeps ==
    ASSUME IInv, Disconnector
    PROVE  IInv'
<1> USE DEF Transports
<1>1. CASE DisconnectTake
  <2>1. TypeOK'
    <3>1. /\ done' \in BOOLEAN /\ taken' \in SUBSET Transports
          /\ state' \in {"connecting", "connected", "disconnected", "error"}
          /\ rec' \in 0..MaxRecordings /\ takenRec' \in 0..MaxRecordings
          /\ pending' \in Transports \union {"none"} /\ dpc' = "taken"
      BY <1>1, RecordingsAssumption DEF IInv, TypeOK, DisconnectTake
    <3> QED BY <1>1, <3>1 DEF IInv, TypeOK, DisconnectTake, outVars
  <2>2. Opened' /\ Counted' /\ Torn' /\ Told'
    BY <1>1 DEF IInv, TypeOK, Opened, Counted, Torn, Told, Busy, DisconnectTake, outVars
  <2> QED BY <2>1, <2>2 DEF IInv
<1>2. CASE DisconnectClose
  <2>1. TypeOK'
    BY <1>2 DEF IInv, TypeOK, DisconnectClose, connVars, outVars, recVars
  <2>2. Opened' /\ Counted' /\ Told'
    BY <1>2 DEF IInv, Opened, Counted, Told, Busy, DisconnectClose, connVars, outVars
  <2>3. Torn'
    <3>1. cpc \in Published => open' \subseteq {"log"}
      BY <1>2 DEF IInv, TypeOK, Opened, Torn, DisconnectClose
    <3>2. "log" \in fields => "log" \in open'
      BY <1>2 DEF IInv, TypeOK, Torn, DisconnectClose
    <3> QED BY <1>2, <3>1, <3>2 DEF IInv, Torn, DisconnectClose, connVars, outVars
  <2> QED BY <2>1, <2>2, <2>3 DEF IInv
<1>3. CASE DisconnectFlush
  <2>1. TypeOK'
    BY <1>3 DEF IInv, TypeOK, DisconnectFlush, connVars, outVars
  <2>2. Opened' /\ Counted' /\ Told'
    BY <1>3 DEF IInv, Opened, Counted, Told, Busy, DisconnectFlush, connVars, outVars
  <2>3. Torn'
    BY <1>3 DEF IInv, Opened, Torn, DisconnectFlush, connVars, outVars
  <2> QED BY <2>1, <2>2, <2>3 DEF IInv
<1>4. CASE DisconnectTell
  <2>1. TypeOK'
    BY <1>4 DEF IInv, TypeOK, DisconnectTell, connVars, outVars, recVars
  <2>2. Opened' /\ Counted' /\ Torn' /\ Told'
    BY <1>4 DEF IInv, Opened, Counted, Torn, Told, Busy, DisconnectTell, connVars, outVars
  <2> QED BY <2>1, <2>2 DEF IInv
<1> QED BY <1>1, <1>2, <1>3, <1>4 DEF Disconnector

-----------------------------------------------------------------------------
(* The forwarders and recording *)

\* A forwarder reads, delivers, writes or ends; only its end counts.
LEMMA ForwarderKeeps ==
    ASSUME IInv, NEW f \in Forwarders, Receive(f) \/ Deliver(f) \/ WriteChunk(f) \/ EndOfOutput(f)
    PROVE  IInv'
<1> USE DEF Forwarders, fwFrame
<1>1. cpc = "ok"
  BY DEF IInv, Counted, Receive, Deliver, WriteChunk, EndOfOutput
<1>2. wg \in 1..2
  BY <1>1 DEF IInv, Counted, Busy, Receive, Deliver, WriteChunk, EndOfOutput
<1>3. TypeOK'
  <2>1. fw' \in [Forwarders -> {"none", "reading", "batched", "writing", "flushing", "done"}]
    BY DEF IInv, TypeOK, Receive, Deliver, WriteChunk, EndOfOutput
  <2>2. tap' \in [Forwarders -> 0..MaxRecordings]
    BY RecordingsAssumption DEF IInv, TypeOK, Receive, Deliver, WriteChunk, EndOfOutput
  <2>3. wg' \in 0..2 /\ UNCHANGED fwFrame
    BY <1>2 DEF Receive, Deliver, WriteChunk, EndOfOutput, IInv, TypeOK
  <2> QED BY <2>1, <2>2, <2>3 DEF IInv, TypeOK, connVars, recVars
<1>4. Counted'
  BY <1>1 DEF IInv, TypeOK, Counted, Busy, Published, Receive, Deliver, WriteChunk,
              EndOfOutput, connVars
<1>5. Torn'
  BY <1>2 DEF IInv, Torn, Receive, Deliver, WriteChunk, EndOfOutput, connVars
<1>6. Opened' /\ Told'
  BY DEF IInv, Opened, Told, Receive, Deliver, WriteChunk, EndOfOutput, connVars
<1> QED BY <1>3, <1>4, <1>5, <1>6 DEF IInv

\* Recording and the network touch none of this.
LEMMA RecordingKeeps ==
    ASSUME IInv, UNCHANGED <<connVars, dpc, registered, done, state, open, fields, taken,
                             outVars, tab, takenRec>>,
           link' \in {"up", "silent", "down"}, rec' \in 0..MaxRecordings,
           openRec' \in SUBSET (1..MaxRecordings),
           rpc' \in [1..MaxRecordings -> {"unused", "found", "finished"}]
    PROVE  IInv'
<1>1. TypeOK'
  BY DEF IInv, TypeOK, connVars, outVars
<1>2. Opened' /\ Counted' /\ Torn' /\ Told'
  BY DEF IInv, Opened, Counted, Torn, Told, Busy, connVars, outVars
<1> QED BY <1>1, <1>2 DEF IInv

\* The inductive invariant of a session's life.
THEOREM Inductive == Spec => []IInv
<1>1. Init => IInv
  <2> SUFFICES ASSUME Init PROVE IInv
    OBVIOUS
  <2>1. TypeOK
    <3>0. done \in BOOLEAN /\ registered \in BOOLEAN
      BY DEF Init
    <3>1. /\ rec \in 0..MaxRecordings /\ takenRec \in 0..MaxRecordings
          /\ tap \in [Forwarders -> 0..MaxRecordings] /\ wg \in 0..2
      BY RecordingsAssumption DEF Init
    <3>2. /\ cpc = "config"
          /\ fw \in [Forwarders -> {"none", "reading", "batched", "writing", "flushing", "done"}]
          /\ rpc \in [1..MaxRecordings -> {"unused", "found", "finished"}]
      BY DEF Init
    <3> QED BY <3>0, <3>1, <3>2 DEF Init, TypeOK
  <2>2. Opened /\ Counted /\ Torn /\ Told
    BY DEF Init, Opened, Counted, Torn, Told, Busy, Published, Failed, Forwarders
  <2> QED BY <2>1, <2>2 DEF IInv
<1>2. IInv /\ [Next]_vars => IInv'
  <2> SUFFICES ASSUME IInv, [Next]_vars PROVE IInv'
    OBVIOUS
  <2>1. CASE UNCHANGED vars
    BY <2>1, RecordingKeeps DEF vars, recVars, IInv, TypeOK
  <2>2. CASE Connector
    BY <2>2, EarlyKeeps, PublishKeeps, LiveKeeps, FailKeeps DEF Connector
  <2>3. CASE DisconnectRemove \/ KeepaliveDisconnects \/ WatcherDisconnects
    BY <2>3, RemoveKeeps DEF KeepaliveDisconnects, WatcherDisconnects
  <2>4. CASE Disconnector
    BY <2>4, DisconnectorKeeps
  <2>5. ASSUME NEW f \in Forwarders, Receive(f) \/ Deliver(f) \/ WriteChunk(f) \/ EndOfOutput(f)
        PROVE  IInv'
    BY <2>5, ForwarderKeeps
  <2>6. CASE LinkFails
    BY <2>6, RecordingKeeps DEF LinkFails, recVars, IInv, TypeOK
  <2>7. ASSUME NEW i \in 1..MaxRecordings, StartRecordingFind(i) \/ StartRecordingOpen(i)
        PROVE  IInv'
    <3>1. /\ rec' \in 0..MaxRecordings /\ openRec' \in SUBSET (1..MaxRecordings)
          /\ rpc' \in [1..MaxRecordings -> {"unused", "found", "finished"}]
      <4>1. CASE StartRecordingFind(i)
        BY <4>1 DEF StartRecordingFind, IInv, TypeOK
      <4>2. CASE StartRecordingOpen(i)
        <5>1. rec' \in {rec, i} /\ openRec' \in {openRec, openRec \union {i}}
          BY <4>2 DEF StartRecordingOpen
        <5>2. rpc' \in [1..MaxRecordings -> {"unused", "found", "finished"}]
          BY <4>2 DEF StartRecordingOpen, IInv, TypeOK
        <5>3. i \in 0..MaxRecordings
          BY RecordingsAssumption
        <5> QED BY <5>1, <5>2, <5>3 DEF IInv, TypeOK
      <4> QED BY <2>7, <4>1, <4>2
    <3>2. UNCHANGED recFrame /\ link \in {"up", "silent", "down"}
      BY <2>7 DEF StartRecordingFind, StartRecordingOpen, IInv, TypeOK
    <3> QED BY <3>1, <3>2, RecordingKeeps DEF recFrame
  <2>8. CASE StopRecording
    BY <2>8, RecordingKeeps, RecordingsAssumption DEF StopRecording, recFrame, IInv, TypeOK
  <2> QED BY <2>1, <2>2, <2>3, <2>4, <2>5, <2>6, <2>7, <2>8 DEF Next
<1> QED BY <1>1, <1>2, PTL DEF Spec

-----------------------------------------------------------------------------
(* The safety properties *)

\* A session that is over holds nothing open, whatever stage its handshake was in
\* when it failed or was disconnected (connectViaJumpOwned, Disconnect).
THEOREM LeaksNothing == Spec => []NothingLeaks
<1>1. IInv => NothingLeaks
  BY DEF IInv, Opened, Torn, NothingLeaks, Settled, Final, Published, Failed
<1> QED BY <1>1, Inductive, PTL

\* Types, and the output log is open as long as a forwarder may write to it: it
\* is closed after outputWG.Wait (Disconnect, forwardOutput).
THEOREM WellFormed == Spec => []Consistent
<1>1. IInv => Consistent
  <2> SUFFICES ASSUME IInv, NEW f \in Forwarders, fw[f] \in {"writing", "flushing"},
                      "log" \in fields
               PROVE  "log" \in open
    BY DEF Consistent, LogOpenWhileWriting, IInv
  <2>1. cpc = "ok" /\ wg # 0
    BY DEF IInv, Counted, Busy, Forwarders
  <2> QED BY <2>1 DEF IInv, Torn
<1> QED BY <1>1, Inductive, PTL

\* The tab of a session that was disconnected does not end up "connected":
\* Disconnect waits for forwarders that are only started after
\* terminal:connected.
THEOREM TabIsTold == Spec => []TabTellsTruth
<1>1. IInv => TabTellsTruth
  BY DEF IInv, Told, TabTellsTruth
<1> QED BY <1>1, Inductive, PTL
=============================================================================
