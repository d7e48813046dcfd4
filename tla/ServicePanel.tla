---------------------------- MODULE ServicePanel ----------------------------
(***************************************************************************)
(* The panel of the systemd units of a host: the polled list, the actions  *)
(* on a unit with their two clicks and their lockout dialog, and the log   *)
(* pane that shows a tail or follows a stream.  The rows' look and order   *)
(* and the search are left out: any listed unit may be clicked.            *)
(***************************************************************************)
EXTENDS PageCalls

CONSTANTS Hosts,   \* sessions the panel may be shown for
          Units, Critical   \* units of a host, and those whose loss locks the user out

Actions == {"start", "stop", "restart", "enable", "disable"}
Destructive == {"stop", "restart", "disable"}

(* isCriticalUnit, and what the panel takes for a lockout warning.         *)
LockoutRisk(u, a) == a \in {"stop", "disable"} /\ u \in Critical

Fresh(n, h) == [n |-> n, at |-> h, list |-> None, loading |-> TRUE, seq |-> 1,
                unit |-> None, logs |-> {}, queued |-> {}, following |-> FALSE, stream |-> None, logSeq |-> 1,
                busy |-> None, armed |-> None, force |-> None]

(* What is on the page: the listed units (a search or a filter may hide    *)
(* some for a while), the log pane, and the question before a lockout.     *)
Rows == IF page.list = None THEN {} ELSE Units
LogPane == page.unit # None
Question == page.force # None

(* refresh: a newer request makes the answers of the older ones void.      *)
Refresh == [Call("list", page.seq + 1) EXCEPT !.x = page.seq + 1]
Ask == page' = [page EXCEPT !.seq = @ + 1, !.loading = TRUE] /\ Send(<<Refresh>>)

(* Mutant: a refresh that fails leaves the spinner.                        *)
ListAnsweredSpinning == \E i \in DOMAIN calls : Back(i, "list") /\ GoOn(i, << >>) /\ UNCHANGED <<world, acts>>
  /\ page' = IF calls[i].x # page.seq \/ calls[i].st = "failed" THEN page
             ELSE [page EXCEPT !.loading = FALSE, !.list = calls[i].got]

ListAnswered == \E i \in DOMAIN calls : Back(i, "list") /\ GoOn(i, << >>) /\ UNCHANGED <<world, acts>>
  /\ page' = IF calls[i].x # page.seq THEN page
             ELSE [page EXCEPT !.loading = FALSE, !.list = IF calls[i].st = "ok" THEN calls[i].got ELSE None]

RefreshClicked == Act /\ ~page.loading /\ Ask /\ UNCHANGED world
PollTick == Act /\ Ask /\ UNCHANGED world

(* stopFollow, and the call that it sends without awaiting it.             *)
StopCall == IF page.stream = None THEN << >> ELSE <<Call("stopLogs", page.stream)>>
Flushed == [page EXCEPT !.logs = @ \cup page.queued, !.queued = {}]
Stopped == [Flushed EXCEPT !.stream = None, !.following = FALSE]

StopFollow == Act /\ page.following /\ page' = Stopped /\ Send(StopCall) /\ UNCHANGED world
CloseLogs == Act /\ LogPane /\ page' = [Stopped EXCEPT !.unit = None, !.logs = {}]
             /\ Send(StopCall) /\ UNCHANGED world

OpenLogs(u) == u \in Rows /\ page.unit # u /\ Act
  /\ page' = [Stopped EXCEPT !.logSeq = @ + 1, !.unit = u, !.logs = {}]
  /\ Send(StopCall \o <<Call("tail", [unit |-> u, seq |-> page.logSeq + 1])>>)
  /\ UNCHANGED world

(* Mutant: the number of the request is not looked at.                     *)
TailAnsweredLate == \E i \in DOMAIN calls : Back(i, "tail") /\ GoOn(i, << >>) /\ UNCHANGED <<world, acts>>
  /\ page' = IF calls[i].st = "ok" THEN [page EXCEPT !.logs = {calls[i].x.unit}] ELSE page

TailAnswered == \E i \in DOMAIN calls : Back(i, "tail") /\ GoOn(i, << >>) /\ UNCHANGED <<world, acts>>
  /\ page' = IF calls[i].st = "ok" /\ calls[i].x.seq = page.logSeq
             THEN [page EXCEPT !.logs = {calls[i].x.unit}] ELSE page

(* A stream has an identity of its own; a number of this run stands for it. *)
StartFollow == LogPane /\ ~page.following /\ Act
  /\ page' = [Stopped EXCEPT !.logSeq = @ + 1, !.stream = acts, !.logs = {}, !.following = TRUE]
  /\ Send(StopCall \o <<Call("follow", [unit |-> page.unit, seq |-> page.logSeq + 1, id |-> acts])>>)
  /\ UNCHANGED world

(* The request has been overtaken: on this mount by a newer one; on a mount *)
(* that is gone if it had been overtaken before (see Switch).              *)
Overtaken(c) == IF c.of = page.n THEN c.x.seq # page.logSeq ELSE c.x.seq = 0

FollowAnswered == \E i \in DOMAIN calls : LET c == calls[i] IN
  /\ c.op = "follow" /\ c.st # "sent"
  /\ GoOn(i, IF c.st = "ok" /\ Overtaken(c) THEN <<Call("stopLogs", c.x.id)>> ELSE << >>)
  /\ page' = IF c.st = "failed" /\ c.of = page.n /\ ~Overtaken(c) /\ page.stream = c.x.id
             THEN [page EXCEPT !.stream = None, !.following = FALSE] ELSE page
  /\ UNCHANGED <<world, acts>>

(* service:log: text is queued, and shown by a timer, if the stream is the *)
(* one the panel follows.  The stream may have been stopped meanwhile.     *)
LogEvent == \E s \in world.streams :
  /\ page.stream = s.id
  /\ page' = [page EXCEPT !.queued = @ \cup {s.unit}]
  /\ UNCHANGED <<calls, world, acts>>
LogDone == \E s \in world.streams :
  /\ s.live
  /\ world' = [world EXCEPT !.streams = (@ \ {s}) \cup {[s EXCEPT !.live = FALSE]}]
  /\ page' = IF page.stream = s.id THEN Stopped ELSE page
  /\ UNCHANGED <<calls, acts>>
LogTimer == page.queued # {} /\ page' = Flushed /\ UNCHANGED <<calls, world, acts>>

(* requestAction and doAction: stop, restart and disable take two clicks.  *)
Offered(u) == (IF u \in page.list.up THEN {"restart", "stop"} ELSE {"start"})
              \cup (IF u \in page.list.on THEN {"disable"} ELSE {"enable"})
Enabled(u) == page.busy # u
Do(u, a, force) == Call("act", [unit |-> u, act |-> a, force |-> force])

Press(u, a) == u \in Rows /\ Enabled(u) /\ a \in Offered(u) /\ Act /\ UNCHANGED world
  /\ IF a \in Destructive /\ page.armed # <<u, a>>
     THEN page' = [page EXCEPT !.armed = <<u, a>>] /\ UNCHANGED calls
     ELSE page' = [page EXCEPT !.armed = None, !.busy = u] /\ Send(<<Do(u, a, FALSE)>>)
ArmExpires == page.armed # None /\ page' = [page EXCEPT !.armed = None] /\ UNCHANGED <<calls, world, acts>>

Seen(u, got) == [up |-> IF got.up THEN page.list.up \cup {u} ELSE page.list.up \ {u},
                 on |-> IF got.on THEN page.list.on \cup {u} ELSE page.list.on \ {u}]

ActAnswered == \E i \in DOMAIN calls : LET c == calls[i] IN
  /\ Back(i, "act") /\ GoOn(i, << >>) /\ UNCHANGED <<world, acts>>
  /\ page' = [page EXCEPT !.busy = None,
       !.list = IF c.st = "ok" /\ c.got # None /\ page.list # None THEN Seen(c.x.unit, c.got) ELSE @,
       !.force = IF c.st = "failed" /\ ~c.x.force /\ (LockoutRisk(c.x.unit, c.x.act) \/ c.got = "force")
                 THEN [unit |-> c.x.unit, act |-> c.x.act, at |-> c.at] ELSE @]

ConfirmForce == Question /\ Act
  /\ page' = [page EXCEPT !.force = None, !.busy = page.force.unit]
  /\ Send(<<[Do(page.force.unit, page.force.act, TRUE) EXCEPT !.at = page.force.at]>>)
  /\ UNCHANGED world
DismissForce == Question /\ page' = [page EXCEPT !.force = None] /\ UNCHANGED <<calls, world, acts>>

(* Another session: the mount of the old one stops its stream, a new one   *)
(* begins with nothing and asks for its list.                              *)
Switch(h) == h # page.at /\ Act /\ UNCHANGED world
  /\ page' = Fresh(page.n + 1, h)
  /\ LET left == [i \in DOMAIN calls |->
           IF calls[i].op = "follow" /\ calls[i].of = page.n /\ Overtaken(calls[i])
           THEN [calls[i] EXCEPT !.x.seq = 0] ELSE calls[i]]
     IN calls' = left \o StopCall \o <<[Call("list", 1) EXCEPT !.of = page.n + 1, !.at = h]>>

-----------------------------------------------------------------------------
(* The backend.  refused and forced record, for every host, the commands   *)
(* that failed without force and those that were carried out with it.      *)
After(s, u, a) ==
  [up |-> CASE a \in {"start", "restart"} -> s.up \cup {u} [] a = "stop" -> s.up \ {u} [] OTHER -> s.up,
   on |-> CASE a = "enable" -> s.on \cup {u} [] a = "disable" -> s.on \ {u} [] OTHER -> s.on]

ServeRead == \E i \in DOMAIN calls : UNCHANGED <<page, world, acts>>
  /\ \/ Sent(i, "list") /\ Served(i, world.host[calls[i].at])
     \/ Sent(i, "tail") /\ Served(i, None)
     \/ (Sent(i, "list") \/ Sent(i, "tail") \/ Sent(i, "follow")) /\ Failed(i, None)

(* ServiceAction refuses what may lock the user out before any command.  A *)
(* command that failed may have been carried out all the same (Exec gives  *)
(* up after thirty seconds, systemctl does not); its output may say force. *)
ServeAct == \E i \in DOMAIN calls :
  LET c == calls[i]
      refuses == LockoutRisk(c.x.unit, c.x.act) /\ ~c.x.force
      command == <<c.at, c.x.unit, c.x.act>>
      Ran(w) == [w EXCEPT !.host[c.at] = After(@, c.x.unit, c.x.act),
                          !.forced = IF c.x.force THEN @ \cup {command} ELSE @]
      Told(w) == [w EXCEPT !.refused = IF c.x.force THEN @ ELSE @ \cup {command}]
      seen == [up |-> c.x.unit \in Ran(world).host[c.at].up, on |-> c.x.unit \in Ran(world).host[c.at].on]
  IN /\ Sent(i, "act") /\ UNCHANGED <<page, acts>>
     /\ \/ refuses /\ world' = Told(world) /\ Failed(i, "force")
        \/ ~refuses /\ world' = Ran(world) /\ \E got \in {None, seen} : Served(i, got)
        \/ ~refuses /\ \E w \in {world, Ran(world)}, says \in {None, "force"} : world' = Told(w) /\ Failed(i, says)

(* A newer stream of a unit replaces the older one (activateLogStream).    *)
ServeFollow == \E i \in DOMAIN calls : Sent(i, "follow") /\ LET c == calls[i] IN
  /\ Served(i, None) /\ UNCHANGED <<page, acts>>
  /\ world' = [world EXCEPT !.streams =
       {IF s.at = c.at /\ s.unit = c.x.unit THEN [s EXCEPT !.live = FALSE] ELSE s : s \in @}
       \cup {[id |-> c.x.id, at |-> c.at, unit |-> c.x.unit, live |-> TRUE]}]
ServeStop == \E i \in DOMAIN calls : Sent(i, "stopLogs") /\ GoOn(i, << >>) /\ UNCHANGED <<page, acts>>
  /\ world' = [world EXCEPT !.streams = {IF s.id = calls[i].x THEN [s EXCEPT !.live = FALSE] ELSE s : s \in @}]

Init == \E h \in Hosts :
  /\ page = Fresh(1, h)
  /\ calls = <<[of |-> 1, at |-> h, op |-> "list", x |-> 1, st |-> "sent", got |-> None]>>
  /\ world = [host |-> [k \in Hosts |-> [up |-> Units, on |-> Units]], streams |-> {}, refused |-> {}, forced |-> {}]
  /\ acts = 0

Next ==
  \/ ListAnswered \/ RefreshClicked \/ PollTick \/ StopFollow \/ CloseLogs \/ TailAnswered \/ StartFollow
  \/ FollowAnswered \/ LogEvent \/ LogDone \/ LogTimer \/ ArmExpires \/ ActAnswered \/ ConfirmForce \/ DismissForce
  \/ ServeRead \/ ServeAct \/ ServeFollow \/ ServeStop
  \/ \E u \in Units : OpenLogs(u) \/ \E a \in Actions : Press(u, a)
  \/ \E h \in Hosts : Switch(h)
  \/ Unheard({"follow"})

-----------------------------------------------------------------------------
(* The log pane shows text of the unit it names only.                      *)
LogOfItsUnit == page.unit # None => page.logs \subseteq {page.unit}

(* A command was carried out by force only on the host that had failed to  *)
(* carry it out without.                                                   *)
ForcedWasRefused == world.forced \subseteq world.refused

(* Nothing is left spinning when every call is answered.                   *)
NotBusy == Quiet => page.busy = None /\ ~page.loading

(* Every stream that runs is the one the panel follows, once every call is *)
(* answered.                                                               *)
NoStrayStream == Quiet => \A s \in world.streams : s.live => page.stream = s.id
=============================================================================
