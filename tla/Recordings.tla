----------------------------- MODULE Recordings -----------------------------
(***************************************************************************)
(* The recordings of terminals: their list, the player of one of them, and *)
(* the switch in the toolbar that begins and ends one.                     *)
(* The player writes the events that are due and sleeps until the next     *)
(* one; where it is in the recording follows from a clock and an anchor,   *)
(* which is why a change of speed or a pause has to move the anchor.       *)
(* Instead of clock and anchor, head is the position that follows from     *)
(* both: a unit of time moves it on by the speed.                          *)
(* The switch is looked at while the panel with the list is closed.        *)
(* The last part (Logs...) is the panel of what was logged.                *)
(***************************************************************************)
EXTENDS PageCalls

CONSTANTS Casts    \* the names of recordings

(* A recording: a size, and what came out later.  parseCast leaves out the *)
(* time before the first output.  Of the four speeds two.                  *)
Raw == <<[time |-> 1, code |-> "r"], [time |-> 2, code |-> "o"], [time |-> 3, code |-> "o"], [time |-> 5, code |-> "o"]>>
Parsed(raw) ==
  LET outputs == {i \in DOMAIN raw : raw[i].code = "o"}
      first == CHOOSE i \in outputs : \A j \in outputs : i <= j IN
  [i \in DOMAIN raw |-> IF outputs = {} THEN raw[i].time
                        ELSE IF raw[i].time < raw[first].time THEN 0 ELSE raw[i].time - raw[first].time]
Events == Parsed(Raw)
Duration == Events[Len(Events)]
Speeds == {1, 2}

Player(name) == [of |-> name, ready |-> FALSE, len |-> 0, term |-> << >>, idx |-> 0, head |-> 0, elapsed |-> 0,
                 playing |-> FALSE, timer |-> None, speed |-> 1, drag |-> FALSE, error |-> FALSE]

(* The sessions of one terminal: its first connection, and the next one.   *)
Sids == {1, 2}
First(op, x) == [of |-> 1, at |-> None, op |-> op, x |-> x, st |-> "sent", got |-> None]

(* page.up: the tabs the page has as connected; page.flags: those it shows *)
(* as recording; world.live and world.rec: the sessions that are, and do.  *)
(* world.late: a flag was set for a tab that was no longer connected, or   *)
(* a recording ended before an older call about it was answered;           *)
(* world.torn: a recording's file could not be closed.                     *)
Init ==
  /\ \E panel \in BOOLEAN, rec \in SUBSET {1} :
       /\ page = [n |-> 1, at |-> None, list |-> {}, player |-> None, panel |-> panel, up |-> {1}, flags |-> {}]
       /\ calls = <<IF panel THEN First("list", None) ELSE First("isRecording", 1)>>
       /\ world = [stored |-> Casts, due |-> 0, crossed |-> FALSE, live |-> {1}, rec |-> rec, late |-> FALSE, torn |-> FALSE]
  /\ acts = 0

-----------------------------------------------------------------------------
(* The list                                                                *)
Load == page.panel /\ page.player = None /\ Act /\ Send(<<Call("list", None)>>) /\ UNCHANGED <<page, world>>
Delete(name) == page.player = None /\ name \in page.list /\ Act /\ Send(<<Call("delete", name)>>) /\ UNCHANGED <<page, world>>
Play(name) == page.player = None /\ name \in page.list /\ Act
  /\ Send(<<Call("read", name)>>) /\ page' = [page EXCEPT !.player = Player(name)] /\ UNCHANGED world

Listed == \E i \in DOMAIN calls : Back(i, "list") /\ GoOn(i, << >>) /\ UNCHANGED <<world, acts>>
  /\ page' = [page EXCEPT !.list = calls[i].got]
Removed == \E i \in DOMAIN calls : Back(i, "delete") /\ GoOn(i, << >>) /\ UNCHANGED acts
  /\ IF calls[i].st = "ok"
     THEN /\ page' = [page EXCEPT !.list = @ \ {calls[i].x}]
          /\ world' = [world EXCEPT !.crossed = @ \/ \E j \in DOMAIN calls : calls[j].op = "list" /\ calls[j].st # "sent"]
     ELSE UNCHANGED <<page, world>>

-----------------------------------------------------------------------------
(* The switch: each connected tab is asked about once, which finds what    *)
(* began before the page was loaded.                                       *)
ToggleRecording(sid) == ~page.panel /\ sid \in page.up /\ Act /\ UNCHANGED page
  /\ Send(<<Call(IF sid \in page.flags THEN "stop" ELSE "start", sid)>>)
  /\ world' = [world EXCEPT !.late = @ \/ (sid \in page.flags /\ ~Quiet)]

Flag(i) == /\ page' = [page EXCEPT !.flags = @ \cup {calls[i].x}]
           /\ world' = [world EXCEPT !.late = @ \/ calls[i].x \notin page.up]
Checked == \E i \in DOMAIN calls : Back(i, "isRecording") /\ GoOn(i, << >>) /\ UNCHANGED acts
  /\ IF calls[i].got = TRUE THEN Flag(i) ELSE UNCHANGED <<page, world>>
Started == \E i \in DOMAIN calls : Back(i, "start") /\ GoOn(i, << >>) /\ UNCHANGED acts
  /\ IF calls[i].st = "ok" THEN Flag(i) ELSE UNCHANGED <<page, world>>
Stopped == \E i \in DOMAIN calls : Back(i, "stop") /\ GoOn(i, << >>) /\ UNCHANGED <<world, acts>>
  /\ page' = IF calls[i].st = "ok" THEN [page EXCEPT !.flags = @ \ {calls[i].x}] ELSE page

(* The connection is lost, which ends the recording; the page hears of it  *)
(* later.  The next connection is another session.                         *)
Dropped == ~page.panel /\ 1 \in world.live /\ Act /\ UNCHANGED <<page, calls>>
  /\ world' = [world EXCEPT !.live = @ \ {1}, !.rec = @ \ {1}]
Connected(p, up) == [p EXCEPT !.up = up, !.flags = @ \cap up]
HearDrop == page.up \ world.live # {} /\ page' = Connected(page, page.up \cap world.live) /\ UNCHANGED <<calls, world, acts>>
Reconnected == ~page.panel /\ page.up = {} /\ world.live = {} /\ Act
  /\ page' = Connected(page, {2}) /\ world' = [world EXCEPT !.live = {2}] /\ Send(<<Call("isRecording", 2)>>)

-----------------------------------------------------------------------------
(* step: what is due is written, and the timer armed for the next event.   *)
Step(p) ==
  LET due == Cardinality({i \in 1..p.len : Events[i] <= p.head})
      idx == IF due > p.idx THEN due ELSE p.idx
      q == [p EXCEPT !.idx = idx, !.term = @ \o [i \in 1..(idx - p.idx) |-> p.idx + i]] IN
  IF idx >= p.len THEN [q EXCEPT !.playing = FALSE, !.elapsed = Duration, !.timer = None]
  ELSE [q EXCEPT !.elapsed = p.head, !.timer = (Events[idx + 1] - p.head + p.speed - 1) \div p.speed]

Paused(p) == [p EXCEPT !.timer = None, !.playing = FALSE]

(* At the end the terminal begins anew; the position that the anchor is    *)
(* taken from does not.                                                    *)
Resumed(p) == LET q == IF p.idx >= p.len THEN [p EXCEPT !.term = << >>, !.idx = 0] ELSE p IN
  IF p.len = 0 THEN p ELSE Step([q EXCEPT !.head = q.elapsed, !.playing = TRUE])

Seek(p, target) == LET n == Cardinality({i \in 1..p.len : Events[i] <= target}) IN
  [Paused(p) EXCEPT !.term = [i \in 1..n |-> i], !.idx = n, !.elapsed = target, !.drag = FALSE]

(* cycleSpeed while it plays: the anchor is moved to the position.         *)
Anchored(p, next) == p.elapsed

-----------------------------------------------------------------------------
Showing == page.player # None
Put(p) == page' = [page EXCEPT !.player = p]
Controls == Showing /\ page.player.ready /\ ~page.player.drag

(* The recording has been read: what of it is whole is played; a broken or *)
(* an empty one shows an error.                                            *)
Read == \E i \in DOMAIN calls : Back(i, "read") /\ GoOn(i, << >>) /\ UNCHANGED acts
  /\ LET p == [page.player EXCEPT !.ready = TRUE, !.len = IF calls[i].got = "events" THEN Len(Events) ELSE 0,
                                  !.error = calls[i].got # "events"] IN
     IF ~Showing THEN UNCHANGED <<page, world>>
     ELSE IF calls[i].st # "ok" THEN Put([page.player EXCEPT !.error = TRUE]) /\ UNCHANGED world
     ELSE Put(Resumed(p)) /\ world' = [world EXCEPT !.due = 0]

(* The player of an older opening does not hear of its recording.          *)
Close == Showing /\ Put(None) /\ UNCHANGED <<world, acts>>
  /\ calls' = SelectSeq(calls, LAMBDA c : c.op # "read")

Tick == Showing /\ page.player.timer # None /\ page.player.head <= Duration /\ UNCHANGED <<calls, acts>>
  /\ Put([page.player EXCEPT !.head = @ + page.player.speed, !.timer = IF @ = 0 THEN 0 ELSE @ - 1])
  /\ world' = [world EXCEPT !.due = @ + page.player.speed]
Fire == Showing /\ page.player.timer = 0 /\ Put(Step(page.player)) /\ UNCHANGED <<calls, world, acts>>

Pause == Controls /\ page.player.playing /\ Put(Paused(page.player)) /\ UNCHANGED <<calls, world, acts>>
Resume == Controls /\ ~page.player.playing /\ Put(Resumed(page.player)) /\ UNCHANGED <<calls, acts>>
  /\ world' = [world EXCEPT !.due = page.player.elapsed]
Restart == Controls /\ UNCHANGED <<calls, world, acts>>
  /\ Put([Paused(page.player) EXCEPT !.term = << >>, !.idx = 0, !.elapsed = 0])

(* The slider: a pointer pauses and drags, then seeks; a key drags while   *)
(* it plays, and seeks when it is released.                                *)
Drag(v) == Showing /\ page.player.ready /\ v # page.player.elapsed /\ UNCHANGED <<calls, world, acts>>
  /\ \E p \in {page.player, Paused(page.player)} : Put([p EXCEPT !.elapsed = v, !.drag = TRUE])
Drop == Showing /\ page.player.drag /\ Put(Seek(page.player, page.player.elapsed)) /\ UNCHANGED <<calls, world, acts>>

CycleSpeed == Controls /\ UNCHANGED <<calls, acts>>
  /\ LET p == page.player  next == CHOOSE s \in Speeds : s # p.speed IN
     /\ Put([p EXCEPT !.speed = next, !.head = IF p.playing THEN Anchored(p, next) ELSE @])
     /\ world' = [world EXCEPT !.due = IF p.playing THEN p.elapsed ELSE @]

StartRecording(i, sid) == sid \in world.live \ world.rec /\ Served(i, None) /\ world' = [world EXCEPT !.rec = @ \cup {sid}]
(* The recording is over even when its file cannot be closed.              *)
StopRecording(i, sid) == sid \in world.rec
  /\ \/ Served(i, None) /\ world' = [world EXCEPT !.rec = @ \ {sid}]
     \/ Failed(i, None) /\ world' = [world EXCEPT !.rec = @ \ {sid}, !.torn = TRUE]
ServeSwitch(i, c) ==
  \/ c.op = "isRecording" /\ Served(i, c.x \in world.rec) /\ UNCHANGED world
  \/ c.op = "start" /\ (StartRecording(i, c.x) \/ (Failed(i, None) /\ UNCHANGED world))
  \/ c.op = "stop" /\ (StopRecording(i, c.x) \/ (c.x \notin world.rec /\ Failed(i, None) /\ UNCHANGED world))
Serve == \E i \in DOMAIN calls : calls[i].st = "sent" /\ UNCHANGED <<page, acts>>
  /\ LET c == calls[i] IN
     CASE c.op = "list" -> UNCHANGED world /\ (Served(i, world.stored) \/ Failed(i, {}))
       [] c.op = "read" -> UNCHANGED world /\ (IF c.x \in world.stored THEN \E got \in {"events", "nothing"} : Served(i, got) ELSE Failed(i, None))
       [] c.op = "delete" -> IF c.x \in world.stored THEN Served(i, None) /\ world' = [world EXCEPT !.stored = @ \ {c.x}]
                             ELSE Failed(i, None) /\ UNCHANGED world
       [] c.op \in {"isRecording", "start", "stop"} -> ServeSwitch(i, c)

Next ==
  \/ Load \/ Listed \/ Removed \/ Read \/ Close \/ Tick \/ Fire \/ Pause \/ Resume \/ Restart \/ Drop \/ CycleSpeed \/ Serve
  \/ \E name \in Casts : Delete(name) \/ Play(name)
  \/ \E v \in 0..Duration : Drag(v)
  \/ Checked \/ Started \/ Stopped \/ Dropped \/ HearDrop \/ Reconnected
  \/ \E sid \in Sids : ToggleRecording(sid)

-----------------------------------------------------------------------------
(* The terminal of the player shows the recording from its beginning, each *)
(* event once, up to the position below it, and is never ahead of the time *)
(* that has passed.                                                        *)
ReplayTruthful == Showing => LET p == page.player IN
  /\ p.term = [i \in 1..p.idx |-> i]
  /\ ~p.drag => \A i \in 1..p.len : (Events[i] < p.elapsed => i <= p.idx) /\ (i <= p.idx => Events[i] <= p.elapsed)
  /\ p.timer # None => p.head <= world.due

(* When nothing is under way a recording that was deleted here is not in   *)
(* the list (unless a list read before the deletion came after it).        *)
DeletedStaysAway == Quiet /\ ~world.crossed => page.list \subseteq world.stored

(* When nothing is under way the toolbar shows as recording what records   *)
(* (unless an answer came after its tab had dropped or after a later end,  *)
(* or the file of a recording could not be closed).                        *)
SwitchTellsTruth == Quiet /\ ~page.panel /\ page.up = world.live /\ ~world.late /\ ~world.torn => page.flags = world.rec

-----------------------------------------------------------------------------
(* The panel of the log files: those of the program or those of the        *)
(* sessions.  A file is opened by its name and by which of the two lists   *)
(* the panel shows.                                                        *)
Kinds == {"program", "session"}

(* The effect of a change of the list: what was shown goes, the new list   *)
(* is asked for, older requests are void.                                  *)
LoadLogs(p) == [p EXCEPT !.request = @ + 1, !.loading = TRUE, !.error = FALSE]
Files(kind) == Call("files", [kind |-> kind, revision |-> page.request + 1])

Refresh == ~page.loading /\ Act /\ page' = LoadLogs(page) /\ Send(<<Files(page.kind)>>) /\ UNCHANGED world
ShowKind(k) == k # page.kind /\ Act /\ UNCHANGED world
  /\ page' = [LoadLogs(page) EXCEPT !.kind = k, !.files = {}] /\ Send(<<Files(k)>>)

FilesAnswered == \E i \in DOMAIN calls : LET c == calls[i] IN
  /\ Back(i, "files") /\ GoOn(i, << >>) /\ UNCHANGED <<world, acts>>
  /\ page' = IF c.x.revision # page.request THEN page
             ELSE [page EXCEPT !.loading = FALSE, !.error = c.st = "failed",
                               !.files = IF c.st = "ok" THEN c.got ELSE {}]

Rows == IF page.loading THEN {} ELSE page.files
OpenLog == \E f \in Rows :
  /\ Act /\ world' = [world EXCEPT !.opened = @ \cup {[file |-> f, as |-> page.kind]}]
  /\ UNCHANGED <<page, calls>>

ServeLogs == \E i \in DOMAIN calls : Sent(i, "files") /\ UNCHANGED <<page, world, acts>>
  /\ (Served(i, {calls[i].x.kind}) \/ Failed(i, None))

LogsInit ==
  /\ page = [n |-> 1, at |-> None, kind |-> "program", files |-> {}, request |-> 1, loading |-> TRUE, error |-> FALSE]
  /\ calls = <<[of |-> 1, at |-> None, op |-> "files", x |-> [kind |-> "program", revision |-> 1],
                st |-> "sent", got |-> None]>>
  /\ world = [opened |-> {}]
  /\ acts = 0

LogsNext == Refresh \/ FilesAnswered \/ OpenLog \/ ServeLogs \/ \E k \in Kinds : ShowKind(k)

(* The list shown is of the chosen kind, and so is every file opened.      *)
FilesOfItsKind == page.files \subseteq {page.kind} /\ \A o \in world.opened : o.file = o.as

(* Nothing is left spinning when every call is answered.                   *)
NotBusy == Quiet => ~page.loading
=============================================================================
