----------------------------- MODULE SshSession -----------------------------
(***************************************************************************)
(* One SSH session from its handshake to the end of its teardown           *)
(* (backend/ssh/session.go): the connector that opens the transports, the  *)
(* Disconnect that may come at any moment (user, keepalive, shell exit),   *)
(* the two output forwarders, and recording.  Each step is one critical    *)
(* section of Session.mu or Manager.mu, or one blocking operation between. *)
(* The runtime records are SshRuntime's part.                              *)
(***************************************************************************)
EXTENDS Naturals, FiniteSets

CONSTANT MaxRecordings        \* bound on StartRecording calls

ASSUME RecordingsAssumption == MaxRecordings \in Nat

Forwarders == {"stdout", "stderr"}
Transports == {"jump", "target"}

VARIABLES
    viaJump,      \* the profile has a jump host
    cpc,          \* connectViaJumpOwned
    dpc,          \* the Disconnect that removed the session
    registered,   \* the session is in Manager.sessions
    done,         \* session.done is closed
    state,        \* Session.info.State
    open,         \* connections and output log held open, whoever knows them
    fields,       \* what Session.client, jumpClient and outputLog hold
    pending,      \* Session.pendingConn
    taken,        \* what Disconnect copied out of the fields
    link,         \* the network: "up", "silent" (nothing arrives), "down"
    fw,           \* the forwarders
    tap,          \* the recorder a forwarder read for the chunk it delivers
    wg,           \* Session.outputWG
    tab,          \* the state the terminal:* events left the tab in
    rec,          \* Session.recorder, 0 for nil
    takenRec,     \* the recorder Disconnect took
    openRec,      \* recording files still open
    rpc           \* StartRecording calls between m.get and session.mu

connVars == <<viaJump, cpc, pending>>
recVars  == <<rec, takenRec, openRec, rpc>>
outVars  == <<fw, tap, wg>>
vars     == <<connVars, dpc, registered, done, state, open, fields, taken, link,
              outVars, tab, recVars>>

Final == {"ok", "error"}

\* The stages that wait for the user or for the SSH agent: a handshake up to its
\* last question, when it has one, and clientConfig, which lists the agent's keys.
Questions == {"config", "jump_asking", "asking"}

TypeOK ==
    /\ viaJump \in BOOLEAN
    /\ cpc \in {"config", "jump_dial", "jump_track", "jump_asking", "jump_handshake",
                "jump_clear", "jump_install", "dial", "track", "asking", "handshake",
                "clear", "install", "shell", "publish",
                "announce", "spawn", "lookup", "mark", "tell", "remove"} \union Final
    /\ dpc \in {"idle", "removed", "taken", "waiting", "flushed", "closed"}
    /\ registered \in BOOLEAN
    /\ done \in BOOLEAN
    /\ state \in {"connecting", "connected", "disconnected", "error"}
    /\ open \in SUBSET (Transports \union {"log"})
    /\ fields \in SUBSET (Transports \union {"log"})
    /\ pending \in Transports \union {"none"}
    /\ taken \in SUBSET Transports
    /\ link \in {"up", "silent", "down"}
    /\ fw \in [Forwarders -> {"none", "reading", "batched", "writing", "flushing", "done"}]
    /\ tap \in [Forwarders -> 0..MaxRecordings]
    /\ wg \in 0..2
    /\ tab \in {"connecting", "connected", "disconnected", "error"}
    /\ rec \in 0..MaxRecordings
    /\ takenRec \in 0..MaxRecordings
    /\ openRec \in SUBSET (1..MaxRecordings)
    /\ rpc \in [1..MaxRecordings -> {"unused", "found", "finished"}]

\* The session is registered, and terminal:connecting sent, before dialling.
Init ==
    /\ viaJump \in BOOLEAN
    /\ cpc = "config"
    /\ dpc = "idle"
    /\ registered = TRUE
    /\ done = FALSE
    /\ state = "connecting"
    /\ open = {}
    /\ fields = {}
    /\ pending = "none"
    /\ taken = {}
    /\ link = "up"
    /\ fw = [f \in Forwarders |-> "none"]
    /\ tap = [f \in Forwarders |-> 0]
    /\ wg = 0
    /\ tab = "connecting"
    /\ rec = 0
    /\ takenRec = 0
    /\ openRec = {}
    /\ rpc = [i \in 1..MaxRecordings |-> "unused"]

-----------------------------------------------------------------------------
(* The connector *)

others == <<viaJump, dpc, registered, done, taken, link, fw, tap, recVars>>

Goto(from, to) == cpc = from /\ cpc' = to

\* A step failed: close what this attempt opened, then failConnect.
Fail(at) ==
    /\ Goto(at, "lookup")
    /\ open' = {}
    /\ UNCHANGED <<others, state, fields, pending, wg, tab>>

\* A check of session.done found it closed: close and give up silently.
GiveUp(at) ==
    /\ Goto(at, "error")
    /\ done
    /\ open' = {}
    /\ UNCHANGED <<others, state, fields, pending, wg, tab>>

\* clientConfig for the target, then for the jump host.
Configure ==
    \/ /\ Goto("config", IF viaJump THEN "jump_dial" ELSE "dial")
       /\ UNCHANGED <<others, state, open, fields, pending, wg, tab>>
    \/ Fail("config")

\* net.DialTimeout, or DialContext through the jump host.
Dial(at, conn, to) ==
    \/ /\ Goto(at, to)
       /\ conn = "target" /\ viaJump => "jump" \in open
       /\ open' = open \union {conn}
       /\ UNCHANGED <<others, state, fields, pending, wg, tab>>
    \/ Fail(at)

\* trackPendingConn makes the connection reachable from Disconnect.
Track(at, conn, to) ==
    \/ /\ Goto(at, to)
       /\ ~done
       /\ pending' = conn
       /\ UNCHANGED <<others, state, open, fields, wg, tab>>
    \/ GiveUp(at)

\* The last question of ssh.NewClientConn's callbacks is answered: a host key
\* dialog, keyboard-interactive, a signature of the agent.  The dialogs are
\* native, one at a time and without a timeout, and closing the connection
\* under the handshake does not take one back.
Answer(at, to) ==
    /\ Goto(at, to)
    /\ UNCHANGED <<others, state, open, fields, pending, wg, tab>>

\* ssh.NewClientConn.
Handshake(at, conn, to) ==
    /\ Goto(at, to)
    /\ conn \in open
    /\ UNCHANGED <<others, state, open, fields, pending, wg, tab>>

\* clearPendingConn.
Clear(at, conn, to) ==
    /\ Goto(at, to)
    /\ pending' = IF pending = conn THEN "none" ELSE pending
    /\ UNCHANGED <<others, state, open, fields, wg, tab>>

\* Session.jumpClient or Session.client is set unless done is closed.
Install(at, conn, to) ==
    \/ /\ Goto(at, to)
       /\ ~done
       /\ fields' = fields \union {conn}
       /\ UNCHANGED <<others, state, open, pending, wg, tab>>
    \/ GiveUp(at)

\* NewSession, RequestPty, the pipes and Shell, then the output log.
Shell ==
    /\ Goto("shell", "publish")
    /\ "target" \in open
    /\ \/ open' = open \union {"log"}
       \/ UNCHANGED open
    /\ UNCHANGED <<others, state, fields, pending, wg, tab>>

\* Mutant: no last look at done before the session goes live.
PublishUnchecked ==
    /\ Goto("publish", "announce")
    /\ fields' = fields \union (open \intersect {"log"})
    /\ state' = "connected"
    /\ wg' = 2
    /\ UNCHANGED <<others, open, pending, tab>>

\* The last check of done and State = CONNECTED share a critical section.
Publish ==
    \/ /\ Goto("publish", "announce")
       /\ ~done
       /\ fields' = fields \union (open \intersect {"log"})
       /\ state' = "connected"
       /\ wg' = 2
       /\ UNCHANGED <<others, open, pending, tab>>
    \/ GiveUp("publish")

\* emit("terminal:connected"), after Session.mu was released.
Announce ==
    /\ Goto("announce", "spawn")
    /\ tab' = "connected"
    /\ UNCHANGED <<others, state, open, fields, pending, wg>>

Spawn ==
    /\ Goto("spawn", "ok")
    /\ fw' = [f \in Forwarders |-> "reading"]
    /\ UNCHANGED <<viaJump, dpc, registered, done, taken, link, tap, recVars,
                   state, open, fields, pending, wg, tab>>

\* failConnect: setError finds the session or not, marks it, tells, removes.
FailLookup ==
    /\ Goto("lookup", IF registered THEN "mark" ELSE "remove")
    /\ UNCHANGED <<others, state, open, fields, pending, wg, tab>>

FailMark ==
    /\ Goto("mark", "tell")
    /\ state' = "error"
    /\ UNCHANGED <<others, open, fields, pending, wg, tab>>

FailTell ==
    /\ Goto("tell", "remove")
    /\ tab' = "error"
    /\ UNCHANGED <<others, state, open, fields, pending, wg>>

FailRemove ==
    /\ Goto("remove", "error")
    /\ registered' = FALSE
    /\ UNCHANGED <<viaJump, dpc, done, taken, link, fw, tap, recVars,
                   state, open, fields, pending, wg, tab>>

-----------------------------------------------------------------------------
(* Disconnect *)

DisconnectRemove ==
    /\ registered
    /\ registered' = FALSE
    /\ dpc' = "removed"
    /\ UNCHANGED <<connVars, done, state, open, fields, taken, link, outVars, tab, recVars>>

\* Mutant: the connection still in its handshake is not taken.
DisconnectTakeFields ==
    /\ dpc = "removed"
    /\ dpc' = "taken"
    /\ taken' = fields \intersect Transports
    /\ pending' = "none"
    /\ takenRec' = rec
    /\ rec' = 0
    /\ done' = TRUE
    /\ state' = IF state = "error" THEN state ELSE "disconnected"
    /\ UNCHANGED <<viaJump, cpc, registered, open, fields, link, outVars, tab, openRec, rpc>>

DisconnectTake ==
    /\ dpc = "removed"
    /\ dpc' = "taken"
    /\ taken' = (fields \union {pending}) \intersect Transports
    /\ pending' = "none"
    /\ takenRec' = rec
    /\ rec' = 0
    /\ done' = TRUE
    /\ state' = IF state = "error" THEN state ELSE "disconnected"
    /\ UNCHANGED <<viaJump, cpc, registered, open, fields, link, outVars, tab, openRec, rpc>>

\* The transports first: that is what unblocks everybody else.
DisconnectClose ==
    /\ dpc = "taken"
    /\ dpc' = "waiting"
    /\ open' = open \ taken
    /\ UNCHANGED <<connVars, registered, done, state, fields, taken, link, outVars, tab, recVars>>

\* Mutant: the forwarders are not waited for.
DisconnectFlushEarly ==
    /\ dpc = "waiting"
    /\ dpc' = "flushed"
    /\ open' = open \ (fields \intersect {"log"})
    /\ openRec' = openRec \ {takenRec}
    /\ UNCHANGED <<connVars, registered, done, state, fields, taken, link, outVars, tab,
                   rec, takenRec, rpc>>

\* outputWG.Wait, then the output log and the recorder.
DisconnectFlush ==
    /\ dpc = "waiting"
    /\ wg = 0
    /\ dpc' = "flushed"
    /\ open' = open \ (fields \intersect {"log"})
    /\ openRec' = openRec \ {takenRec}
    /\ UNCHANGED <<connVars, registered, done, state, fields, taken, link, outVars, tab,
                   rec, takenRec, rpc>>

\* terminal:disconnected, then onClosed.
DisconnectTell ==
    /\ dpc = "flushed"
    /\ dpc' = "closed"
    /\ tab' = "disconnected"
    /\ UNCHANGED <<connVars, registered, done, state, open, fields, taken, link, outVars, recVars>>

-----------------------------------------------------------------------------
(* The forwarders, the network, the keepalive and the shell watcher *)

fwFrame == <<connVars, dpc, registered, done, state, open, fields, taken, link, tab, recVars>>

\* Pump takes bytes off the pipe into its batch.
Receive(f) ==
    /\ fw[f] = "reading"
    /\ link = "up" /\ "target" \in open
    /\ fw' = [fw EXCEPT ![f] = "batched"]
    /\ UNCHANGED <<fwFrame, tap, wg>>

\* The batch is delivered when its timer fires or it is full, or because Pump
\* stops; the recorder and the log handle are read before they are written to.
Stopping == done \/ link = "down" \/ "target" \notin open

Deliver(f) ==
    /\ fw[f] = "batched"
    /\ \/ fw' = [fw EXCEPT ![f] = "writing"]
       \/ Stopping /\ fw' = [fw EXCEPT ![f] = "flushing"]
    /\ tap' = [tap EXCEPT ![f] = rec]
    /\ UNCHANGED <<fwFrame, wg>>

WriteChunk(f) ==
    /\ fw[f] = "writing"
    /\ fw' = [fw EXCEPT ![f] = "reading"]
    /\ tap' = [tap EXCEPT ![f] = 0]
    /\ UNCHANGED <<fwFrame, wg>>

\* The pipe ended or session.done is closed, and the last chunk is written.
EndOfOutput(f) ==
    /\ \/ fw[f] = "reading" /\ Stopping
       \/ fw[f] = "flushing"
    /\ fw' = [fw EXCEPT ![f] = "done"]
    /\ tap' = [tap EXCEPT ![f] = 0]
    /\ wg' = wg - 1
    /\ UNCHANGED fwFrame

LinkFails ==
    /\ link = "up"
    /\ link' \in {"silent", "down"}
    /\ UNCHANGED <<connVars, dpc, registered, done, state, open, fields, taken, outVars, tab, recVars>>

\* Mutant: the probe does not want a reply.
KeepaliveUnanswered ==
    /\ cpc = "ok"
    /\ ~done
    /\ link = "down"
    /\ DisconnectRemove

\* A probe without a reply within 15s, or with a transport error.
KeepaliveDisconnects ==
    /\ cpc = "ok"
    /\ ~done
    /\ link # "up"
    /\ DisconnectRemove

\* shell.Wait returned and both forwarders are done.
WatcherDisconnects ==
    /\ cpc = "ok"
    /\ wg = 0
    /\ DisconnectRemove

-----------------------------------------------------------------------------
(* Recording *)

recFrame == <<connVars, dpc, registered, done, state, open, fields, taken, link, outVars, tab, takenRec>>

StartRecordingFind(i) ==
    /\ rpc[i] = "unused"
    /\ registered
    /\ rpc' = [rpc EXCEPT ![i] = "found"]
    /\ UNCHANGED <<recFrame, rec, openRec>>

\* Under session.mu: a second recording is refused.
StartRecordingOpen(i) ==
    /\ rpc[i] = "found"
    /\ rpc' = [rpc EXCEPT ![i] = "finished"]
    /\ IF rec = 0
       THEN rec' = i /\ openRec' = openRec \union {i}
       ELSE UNCHANGED <<rec, openRec>>
    /\ UNCHANGED recFrame

StopRecording ==
    /\ rec # 0
    /\ registered
    /\ rec' = 0
    /\ openRec' = openRec \ {rec}
    /\ UNCHANGED <<recFrame, rpc>>

-----------------------------------------------------------------------------

Connector ==
    \/ Configure
    \/ Dial("jump_dial", "jump", "jump_track")
    \/ \E to \in {"jump_asking", "jump_handshake"} : Track("jump_track", "jump", to)
    \/ Answer("jump_asking", "jump_handshake") \/ Fail("jump_asking")
    \/ Handshake("jump_handshake", "jump", "jump_clear") \/ Fail("jump_handshake")
    \/ Clear("jump_clear", "jump", "jump_install")
    \/ Install("jump_install", "jump", "dial")
    \/ Dial("dial", "target", "track")
    \/ \E to \in {"asking", "handshake"} : Track("track", "target", to)
    \/ Answer("asking", "handshake") \/ Fail("asking")
    \/ Handshake("handshake", "target", "clear") \/ Fail("handshake")
    \/ Clear("clear", "target", "install")
    \/ Install("install", "target", "shell")
    \/ Shell \/ Fail("shell")
    \/ Publish \/ Announce \/ Spawn
    \/ FailLookup \/ FailMark \/ FailTell \/ FailRemove

Disconnector == DisconnectTake \/ DisconnectClose \/ DisconnectFlush \/ DisconnectTell

Next ==
    \/ Connector
    \/ DisconnectRemove \/ Disconnector
    \/ \E f \in Forwarders : Receive(f) \/ Deliver(f) \/ WriteChunk(f) \/ EndOfOutput(f)
    \/ LinkFails \/ KeepaliveDisconnects \/ WatcherDisconnects
    \/ \E i \in 1..MaxRecordings : StartRecordingFind(i) \/ StartRecordingOpen(i)
    \/ StopRecording

\* Dialling is bounded by its timeout; a handshake without a question left or a
\* shell request is relied on to end only once its connection has been closed
\* under it, for nothing bounds how long a live server may take to answer the
\* latter.  Nothing is assumed of the user or of the agent: a stage of Questions
\* may last for ever, closed connection or not.
ConnectorProgress ==
    \/ Dial("jump_dial", "jump", "jump_track")
    \/ \E to \in {"jump_asking", "jump_handshake"} : Track("jump_track", "jump", to)
    \/ "jump" \notin open /\ Fail("jump_handshake")
    \/ Clear("jump_clear", "jump", "jump_install")
    \/ Install("jump_install", "jump", "dial")
    \/ Dial("dial", "target", "track")
    \/ \E to \in {"asking", "handshake"} : Track("track", "target", to)
    \/ "target" \notin open /\ (Fail("handshake") \/ Fail("shell"))
    \/ Clear("clear", "target", "install")
    \/ Install("install", "target", "shell")
    \/ Publish \/ Announce \/ Spawn
    \/ FailLookup \/ FailMark \/ FailTell \/ FailRemove

Fairness ==
    /\ WF_vars(ConnectorProgress)
    /\ WF_vars(Disconnector)
    /\ \A f \in Forwarders : 
          WF_vars(Deliver(f)) /\ WF_vars(WriteChunk(f)) /\ WF_vars(EndOfOutput(f))
    /\ WF_vars(KeepaliveDisconnects)

Spec == Init /\ [][Next]_vars
FairSpec == Spec /\ Fairness

-----------------------------------------------------------------------------
(* Properties *)

Settled == ~registered /\ cpc \in Final /\ dpc \in {"idle", "closed"}

\* A session that is over holds nothing open: whatever stage the handshake was
\* in when it failed or was disconnected, no connection, remote shell or
\* output log is left with no code path to reach it.
NothingLeaks == Settled => open = {}

\* The output log is open whenever a forwarder writes to it.
LogOpenWhileWriting ==
    \A f \in Forwarders :
        fw[f] \in {"writing", "flushing"} /\ "log" \in fields => "log" \in open

\* The session is well formed, and its log outlives its writers.
Consistent == TypeOK /\ LogOpenWhileWriting

\* Disconnecting during the handshake, even one the server never answers, lets
\* the connector stop, unless a question of the handshake is left open for ever.
CancelUnblocks ==
    []<>(cpc \notin Questions) => (dpc = "removed" ~> cpc \in Final)

\* Every Disconnect runs to its end, onClosed included: the forwarders it waits
\* for always come to an end.
DisconnectCompletes == dpc = "removed" ~> dpc = "closed"

\* A Disconnect ends whatever the user leaves unanswered, and ends the handshake
\* it interrupts once that has no question open.
TeardownFinishes == CancelUnblocks /\ DisconnectCompletes

\* A link that died, noticed by the transport or silently, ends in a complete
\* teardown.
DeadLinkCleaned == (cpc = "ok" /\ link # "up") ~> dpc = "closed"

\* The tab of a disconnected session never ends up "connected".  Both events
\* are sent outside Session.mu; what orders them is that Disconnect waits for
\* forwarders the connector only starts after terminal:connected.
TabTellsTruth == Settled /\ dpc = "closed" => tab # "connected"
=============================================================================
