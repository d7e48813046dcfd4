------------------------------- MODULE Sidebar -------------------------------
(***************************************************************************)
(* The rail of the page and what it opens: the servers with the monitor,   *)
(* the files, the tools, the assistant and the settings.  The panel of a   *)
(* tool is mounted anew for each drawer and session; what an earlier mount *)
(* has to tell is told only while its host is on the screen.  The          *)
(* assistant stays mounted once it was opened.  The share of the monitor   *)
(* is one of the settings, and is saved when its divider is let go.  The   *)
(* second part is what the page shows of the host of the active terminal.  *)
(***************************************************************************)
EXTENDS PageCalls

CONSTANTS Sessions, Splits, Values,   \* shares of the monitor; values of another setting
          Capacity   \* points of a curve (120)

ToolDrawers == {"commands", "services"}
Drawers == ToolDrawers \cup {"monitor", "sftp", "ai", "settings"}
PrimaryForDrawer(d) == CASE d = "monitor" -> "connections" [] d = "sftp" -> "files" [] d \in ToolDrawers -> "tools" [] OTHER -> d
Floats == {"path", "cpu"}
First(S) == CHOOSE x \in S : TRUE

(* settings: the copy the page has; split: the share on the screen; rows:  *)
(* the session whose rows the tool shows.  world.stored: the settings on   *)
(* the disk; world.chose: the value saved last; world.told: who told the   *)
(* user something, and what was on the screen; world.mixed: settings were  *)
(* saved with a part that was older than the disk's, or two at once.       *)
Init ==
  /\ page = [n |-> 1, at |-> First(Sessions), drawer |-> "monitor", collapsed |-> FALSE, folded |-> TRUE, floats |-> {}, ai |-> FALSE,
             drag |-> FALSE, split |-> First(Splits), settings |-> [split |-> First(Splits), other |-> First(Values)], rows |-> None]
  /\ calls = << >> /\ acts = 0
  /\ world = [stored |-> page.settings, chose |-> First(Values), told |-> {}, mixed |-> FALSE]

Tool == page.drawer \in ToolDrawers
(* The key of what is mounted in the side.                                 *)
Key(p) == IF p.drawer \in ToolDrawers THEN <<p.drawer, p.at>> ELSE <<p.drawer, None>>
Keyed(p) == IF Key(p) = Key(page) THEN p ELSE [p EXCEPT !.n = @ + 1, !.rows = None]

-----------------------------------------------------------------------------
(* The rail                                                                *)
SetDrawer(p, d) == Keyed([p EXCEPT !.drawer = d, !.ai = @ \/ d = "ai"])

(* The section one is in is folded away; another one opens unfolded.       *)
ActivateSection(active, opened) == page' =
  IF active /\ ~page.collapsed THEN [page EXCEPT !.collapsed = TRUE] ELSE [opened EXCEPT !.collapsed = FALSE]
OpenPrimary(nav) == CASE nav = "connections" -> SetDrawer(page, "monitor") [] nav = "files" -> SetDrawer(page, "sftp")
  [] nav = "tools" -> SetDrawer(page, IF Tool THEN page.drawer ELSE "commands")

Rail(nav) == Act /\ UNCHANGED <<calls, world>>
  /\ IF nav \in {"ai", "settings"} THEN ActivateSection(page.drawer = nav, SetDrawer(page, nav))
     ELSE ActivateSection(PrimaryForDrawer(page.drawer) = nav, OpenPrimary(nav))
SetCollapsed == Act /\ page' = [page EXCEPT !.collapsed = ~@] /\ UNCHANGED <<calls, world>>
Subnav(d) == Tool /\ ~page.collapsed /\ Act /\ page' = SetDrawer(page, d) /\ UNCHANGED <<calls, world>>

(* The user goes to another terminal, or to none.                          *)
ChangeActive(s) == s # page.at /\ Act /\ page' = Keyed([page EXCEPT !.at = s]) /\ UNCHANGED <<calls, world>>

-----------------------------------------------------------------------------
(* A tool and its host                                                     *)
Ask == Tool /\ page.at # None /\ Act /\ Send(<<Call("Tool", None)>>) /\ UNCHANGED <<page, world>>
ServeTool(i) == Sent(i, "Tool") /\ (Served(i, None) \/ Failed(i, None)) /\ UNCHANGED <<page, world, acts>>

(* notifyForSession: the host the mount was for must be on the screen.     *)
NotifyForSession(owner) == IF owner # page.at THEN world ELSE [world EXCEPT !.told = @ \cup {<<owner, page.at>>}]
ToolOver(i) == i \in DOMAIN calls /\ calls[i].op = "Tool" /\ calls[i].st # "sent" /\ GoOn(i, << >>) /\ UNCHANGED acts
  /\ (world' = IF calls[i].st = "failed" THEN NotifyForSession(calls[i].at) ELSE world)
  /\ page' = IF calls[i].st = "ok" /\ calls[i].of = page.n THEN [page EXCEPT !.rows = calls[i].at] ELSE page

-----------------------------------------------------------------------------
(* The monitor below the servers                                           *)
ServersShown == page.drawer = "monitor" /\ ~page.collapsed
ToggleMonitorCollapsed == ServersShown /\ Act /\ page' = [page EXCEPT !.folded = ~@] /\ UNCHANGED <<calls, world>>
(* Cards float beside the side until they are closed; the path's needs a   *)
(* session to be of.                                                       *)
OpenFloat(k) == ServersShown /\ page.at # None /\ k \notin page.floats /\ Act /\ page' = [page EXCEPT !.floats = @ \cup {k}] /\ UNCHANGED <<calls, world>>
FloatShown(k) == k \in page.floats /\ (k = "path" => page.at # None)
CloseFloat(k) == FloatShown(k) /\ page' = [page EXCEPT !.floats = @ \ {k}] /\ UNCHANGED <<calls, world, acts>>

DragStart == ServersShown /\ ~page.folded /\ ~page.drag /\ Act /\ page' = [page EXCEPT !.drag = TRUE] /\ UNCHANGED <<calls, world>>
DragMove(s) == page.drag /\ s # page.split /\ page' = [page EXCEPT !.split = s] /\ UNCHANGED <<calls, world, acts>>

Saving == \E i \in DOMAIN calls : calls[i].op = "Update"
Update(why, s, other) == Send(<<Call("Update", [why |-> why, settings |-> [split |-> s, other |-> other]])>>)
(* The share is saved with the other settings as the page has them; the    *)
(* page's copy of the settings is not brought up to date by it.            *)
DragEnd == page.drag /\ page' = [page EXCEPT !.drag = FALSE] /\ UNCHANGED acts
  /\ Update("drag", page.split, page.settings.other)
  /\ world' = [world EXCEPT !.mixed = @ \/ Saving \/ page.settings.other # world.stored.other]

(* Another setting is saved from the settings' panel.                      *)
Save(v) == page.drawer = "settings" /\ Act /\ UNCHANGED page
  /\ Update("save", page.settings.split, v)
  /\ world' = [world EXCEPT !.mixed = @ \/ Saving \/ page.settings.split # world.stored.split]
ServeUpdate(i) == Sent(i, "Update") /\ UNCHANGED <<page, acts>>
  /\ \/ /\ Served(i, calls[i].x.settings)
        /\ world' = [world EXCEPT !.stored = calls[i].x.settings, !.chose = IF calls[i].x.why = "save" THEN calls[i].x.settings.other ELSE @]
     \/ Failed(i, None) /\ world' = [world EXCEPT !.mixed = @ \/ calls[i].x.why = "drag"]

(* The copy that came back; the share follows when it is another one.      *)
WithSettings(p, got) == [p EXCEPT !.settings = got, !.split = IF got.split # p.settings.split THEN got.split ELSE @]
UpdateOver(i) == i \in DOMAIN calls /\ calls[i].op = "Update" /\ calls[i].st # "sent" /\ GoOn(i, << >>) /\ UNCHANGED <<world, acts>>
  /\ page' = IF calls[i].x.why = "save" /\ calls[i].st = "ok" THEN WithSettings(page, calls[i].got) ELSE page

Next ==
  \/ \E nav \in {"connections", "files", "tools", "ai", "settings"} : Rail(nav)
  \/ \E d \in ToolDrawers : Subnav(d)
  \/ \E s \in Sessions \cup {None} : ChangeActive(s)
  \/ SetCollapsed \/ Ask \/ ToggleMonitorCollapsed \/ DragStart \/ DragEnd
  \/ \E k \in Floats : OpenFloat(k) \/ CloseFloat(k)
  \/ \E s \in Splits : DragMove(s)
  \/ \E v \in Values : Save(v)
  \/ \E i \in DOMAIN calls : ServeTool(i) \/ ToolOver(i) \/ ServeUpdate(i) \/ UpdateOver(i)

-----------------------------------------------------------------------------
(* The user is told of a host's tool only while that host is on the screen *)
(* and the tool shows no other host's rows.                                *)
ToldOfItsHost == (\A x \in world.told : x[1] = x[2]) /\ page.rows \in {None, page.at}

(* When all is saved, the share on the screen and the setting chosen last  *)
(* are the ones on the disk (unless one was saved with an older copy of    *)
(* the other, or before the other was, or the disk refused the share).     *)
SplitSaved == Quiet /\ ~page.drag /\ ~world.mixed => world.stored = [split |-> page.split, other |-> world.chose]

-----------------------------------------------------------------------------
(* What the page shows of the host of the active terminal: its last        *)
(* sample and the curve of its samples (useSessionMetrics,                 *)
(* useMetricsHistory; the status bar does the same for one number), and    *)
(* the card of the network path, with a ping and a trace of the route.     *)
(* The samples come as events; the first one shown is asked for.           *)
(* The card of the path is not mounted anew for another session, only when *)
(* there was none in between.                                              *)

(* page.card: the card was opened; it is up while there is a terminal.     *)
(* page.n counts the runs of the effects, page.mount those of the card.    *)
(* path: the hops and the ping, each of the host and the time it was       *)
(* taken; moved: the card was on screen when the terminal changed.         *)
(* world.latest: the sample of each session that the monitor keeps, by its *)
(* time (0: none) and whether it failed; world.last: the last it has taken;*)
(* world.events: the samples on their way to the page; world.paths: what   *)
(* is known of each host's path; world.overtaken: the answer about the     *)
(* first sample came after a newer sample.                                 *)
NoPath == [hops |-> None, ping |-> None]
Nothing == [v |-> 0, failed |-> FALSE]

Unmounted(p) == [p EXCEPT !.path = None, !.loading = FALSE, !.tracing = FALSE, !.moved = FALSE]
CardUp(p) == p.card /\ p.at # None
Reset(p, s) == [p EXCEPT !.n = @ + 1, !.at = s, !.metrics = None, !.curve = << >>, !.lastAt = 0]

CardsInit ==
  /\ page = [n |-> 1, at |-> None, metrics |-> None, curve |-> << >>, lastAt |-> 0,
             card |-> FALSE, mount |-> 0, path |-> None, loading |-> FALSE, tracing |-> FALSE, moved |-> FALSE]
  /\ calls = << >> /\ acts = 0
  /\ world = [latest |-> [s \in Sessions |-> Nothing], last |-> [s \in Sessions |-> Nothing], events |-> << >>, paths |-> [s \in Sessions |-> NoPath], overtaken |-> FALSE]

-----------------------------------------------------------------------------
(* The calls of the effects and of the card.                               *)
AskOf(op, p) == [of |-> p.n, at |-> p.at, op |-> op, x |-> p.mount, st |-> "sent", got |-> None]

Opened(p) == [p EXCEPT !.mount = @ + 1, !.loading = TRUE]

(* Another terminal, or none: the sample and the curve begin anew; the     *)
(* card pings the new host, and is gone while there is none.               *)
ChangeHost(s) == s # page.at /\ Act
  /\ LET p == Reset(IF s = None THEN Unmounted(page) ELSE page, s)
         q == IF ~CardUp(p) THEN p ELSE IF page.at = None THEN Opened(p) ELSE [p EXCEPT !.loading = TRUE, !.moved = TRUE] IN
     /\ page' = q
     /\ Send((IF s = None THEN << >> ELSE <<AskOf("Latest", q)>>) \o (IF CardUp(q) THEN <<AskOf("Ping", q)>> ELSE << >>))
  /\ world' = [world EXCEPT !.overtaken = FALSE]

OpenCard == ~page.card /\ page.at # None /\ Act /\ UNCHANGED world
  /\ page' = [Opened(page) EXCEPT !.card = TRUE]
  /\ Send(<<AskOf("Ping", page')>>)
CloseCard == CardUp(page) /\ page' = [Unmounted(page) EXCEPT !.card = FALSE] /\ UNCHANGED <<calls, world, acts>>

Refresh == CardUp(page) /\ ~page.loading /\ Act /\ UNCHANGED world
  /\ page' = [page EXCEPT !.loading = TRUE] /\ Send(<<AskOf("Ping", page)>>)
Trace == CardUp(page) /\ ~page.tracing /\ Act /\ UNCHANGED world
  /\ page' = [page EXCEPT !.tracing = TRUE] /\ Send(<<AskOf("Trace", page)>>)

-----------------------------------------------------------------------------
(* The monitor                                                             *)
Sample(s, failed) == Act /\ UNCHANGED <<page, calls>>
  /\ LET m == [v |-> acts + 1, failed |-> failed] IN
     world' = [world EXCEPT !.latest[s] = m, !.last[s] = m, !.events = Append(@, [s |-> s, m |-> m])]
(* Monitoring is switched off.                                             *)
DropLocked(s) == world.latest[s] # Nothing /\ Act /\ world' = [world EXCEPT !.latest[s] = Nothing] /\ UNCHANGED <<page, calls>>

(* A failed sample is shown, but is no point of the curve.                 *)
Point(p, e) == IF e.m.failed \/ e.m.v = p.lastAt THEN p
  ELSE LET all == Append(p.curve, e) IN
       [p EXCEPT !.lastAt = e.m.v, !.curve = IF Len(all) > Capacity THEN Tail(all) ELSE all]
Hear == world.events # << >> /\ UNCHANGED <<calls, acts>>
  /\ LET e == Head(world.events) IN
     /\ page' = IF e.s # page.at THEN page ELSE Point([page EXCEPT !.metrics = e], e)
     /\ world' = [world EXCEPT !.events = Tail(@)]

(* Nothing is shown for a session that has no sample yet.                  *)
Seeded == \E i \in DOMAIN calls : calls[i].op = "Latest" /\ calls[i].st # "sent" /\ GoOn(i, << >>) /\ UNCHANGED acts
  /\ LET c == calls[i] IN
     IF c.of # page.n \/ c.got = Nothing THEN UNCHANGED <<page, world>>
     ELSE /\ page' = [page EXCEPT !.metrics = [s |-> c.at, m |-> c.got]]
          /\ world' = [world EXCEPT !.overtaken = page.metrics # None /\ page.metrics.m.v > c.got.v]

-----------------------------------------------------------------------------
(* The path of a host is kept by the backend: a ping takes the hops from   *)
(* it and a trace the ping.                                                *)
Known(s, part) == [world EXCEPT !.paths[s] = part]
Pinged(s, t) == [world.paths[s] EXCEPT !.ping = [s |-> s, t |-> t]]
Traced(s, t) == [world.paths[s] EXCEPT !.hops = [s |-> s, t |-> t]]

Serve == \E i \in DOMAIN calls : calls[i].st = "sent" /\ UNCHANGED <<page, acts>>
  /\ LET c == calls[i] IN
     \/ c.op # "Latest" /\ Failed(i, None) /\ UNCHANGED world
     \/ c.op = "Latest" /\ Served(i, world.latest[c.at]) /\ UNCHANGED world
     \/ \E got \in {IF c.op = "Ping" THEN Pinged(c.at, acts) ELSE Traced(c.at, acts)} :
          c.op \in {"Ping", "Trace"} /\ Served(i, got) /\ world' = Known(c.at, got)

(* The card hears every answer of its mount, whichever session it is of.   *)
Heard(c) == CardUp(page) /\ c.x = page.mount
PingAnswered == \E i \in DOMAIN calls : calls[i].op = "Ping" /\ calls[i].st # "sent" /\ GoOn(i, << >>) /\ UNCHANGED <<world, acts>>
  /\ page' = IF ~Heard(calls[i]) THEN page
             ELSE [page EXCEPT !.loading = FALSE, !.path = IF calls[i].st = "ok" THEN calls[i].got ELSE @]
TraceAnswered == \E i \in DOMAIN calls : calls[i].op = "Trace" /\ calls[i].st # "sent" /\ GoOn(i, << >>) /\ UNCHANGED <<world, acts>>
  /\ page' = IF ~Heard(calls[i]) THEN page
             ELSE [page EXCEPT !.tracing = FALSE,
                               !.path = IF calls[i].st # "ok" THEN @ ELSE IF @ = None THEN calls[i].got ELSE [@ EXCEPT !.hops = calls[i].got.hops]]

CardsNext ==
  \/ OpenCard \/ CloseCard \/ Refresh \/ Trace \/ Hear \/ Seeded \/ Serve \/ PingAnswered \/ TraceAnswered
  \/ \E s \in Sessions \cup {None} : ChangeHost(s)
  \/ \E s \in Sessions : DropLocked(s)
  \/ \E s \in Sessions, failed \in BOOLEAN : Sample(s, failed)

-----------------------------------------------------------------------------
(* The sample on the screen is of the host on the screen; when nothing is  *)
(* under way it is the last one (unless the answer about the first one was *)
(* overtaken: then it stands until the next sample), and there is one if   *)
(* the monitor has one.  The curve is of that host too and forward in      *)
(* time, without the samples that failed.                                  *)
SamplesOfTheHost ==
  /\ page.metrics # None => page.metrics.s = page.at
  /\ \A i \in DOMAIN page.curve : page.curve[i].s = page.at /\ ~page.curve[i].m.failed
  /\ \A i \in 1..(Len(page.curve) - 1) : page.curve[i].m.v < page.curve[i + 1].m.v
  /\ Quiet /\ world.events = << >> /\ page.at # None =>
       IF page.metrics = None THEN world.latest[page.at] = Nothing ELSE world.overtaken \/ page.metrics.m = world.last[page.at]

(* The path on the card is that of the host on the screen, also if another *)
(* card was closed while it was busy (unless the terminal has changed      *)
(* under the card: it keeps what it has, and takes every answer).          *)
PathOfTheHost == page.path # None /\ ~page.moved =>
  \A part \in {"hops", "ping"} : page.path[part] # None => page.path[part].s = page.at

(* When every call is answered neither of its buttons is left busy.        *)
CardNotBusy == Quiet => ~page.loading /\ ~page.tracing
=============================================================================
