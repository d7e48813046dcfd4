--------------------------- MODULE ContainerPanel ---------------------------
(***************************************************************************)
(* The panel of the containers of a host: the polled list (running ones,   *)
(* or all), the four actions on a container, and the log pane, which opens *)
(* a stream at once and stops the one it followed before.                  *)
(***************************************************************************)
EXTENDS PageCalls

CONSTANTS Hosts, Containers

Fresh(n, h) == [n |-> n, at |-> h, list |-> {}, all |-> FALSE, loading |-> TRUE, seq |-> 1,
                shown |-> None, logs |-> {}, queued |-> {}, streaming |-> FALSE, stream |-> None,
                busy |-> None, armed |-> None]

(* refresh: of several requests the last one counts.                       *)
Refresh(all) == Call("list", [seq |-> page.seq + 1, all |-> all])
Asking(p) == [p EXCEPT !.seq = @ + 1, !.loading = TRUE]

ListAnswered == \E i \in DOMAIN calls :
  /\ Back(i, "list") /\ GoOn(i, << >>) /\ UNCHANGED <<world, acts>>
  /\ page' = IF calls[i].x.seq # page.seq THEN page
             ELSE [page EXCEPT !.loading = FALSE, !.list = IF calls[i].st = "ok" THEN calls[i].got ELSE {}]

RefreshClicked == ~page.loading /\ Act /\ page' = Asking(page) /\ Send(<<Refresh(page.all)>>) /\ UNCHANGED world
PollTick == Act /\ page' = Asking(page) /\ Send(<<Refresh(page.all)>>) /\ UNCHANGED world
SetShowAll == Act /\ page' = [Asking(page) EXCEPT !.all = ~@] /\ Send(<<Refresh(~page.all)>>) /\ UNCHANGED world

(* viewLogs: the stream that was followed is stopped first, and that is a  *)
(* round trip.                                                             *)
Flushed == [page EXCEPT !.logs = @ \cup page.queued, !.queued = {}]
Opened(c) == [page EXCEPT !.shown = c, !.stream = world.made, !.queued = {}, !.logs = {}, !.streaming = TRUE]
Follow(c) == Call("follow", [of |-> c, id |-> world.made])
Made == world' = [world EXCEPT !.made = @ + 1]

ViewLogs(c) == c \in {d.id : d \in page.list} /\ Act
  /\ IF page.stream = None THEN page' = Opened(c) /\ Made /\ Send(<<Follow(c)>>)
     ELSE UNCHANGED <<page, world>> /\ Send(<<Call("stopThenView", [of |-> c, id |-> page.stream])>>)

StoppedThenView == \E i \in DOMAIN calls :
  /\ Back(i, "stopThenView") /\ Made /\ UNCHANGED acts
  /\ page' = Opened(calls[i].x.of)
  /\ GoOn(i, <<Follow(calls[i].x.of)>>)

FollowAnswered == \E i \in DOMAIN calls :
  /\ Back(i, "follow") /\ GoOn(i, << >>) /\ UNCHANGED <<world, acts>>
  /\ page' = IF calls[i].st = "failed" /\ page.stream = calls[i].x.id
             THEN [page EXCEPT !.stream = None, !.streaming = FALSE] ELSE page

StopCall == IF page.stream = None THEN << >> ELSE <<Call("stopLogs", page.stream)>>
StopStreaming == page.streaming /\ Act /\ Send(StopCall) /\ UNCHANGED world
  /\ page' = [Flushed EXCEPT !.stream = None, !.streaming = FALSE]
CloseLogs == page.shown # None /\ Act /\ Send(StopCall) /\ UNCHANGED world
  /\ page' = [page EXCEPT !.queued = {}, !.shown = None, !.stream = None, !.logs = {}, !.streaming = FALSE]

(* docker:log                                                              *)
LogEvent == \E s \in world.streams :
  /\ page.stream = s.id
  /\ page' = [page EXCEPT !.queued = @ \cup {s.of}]
  /\ UNCHANGED <<calls, world, acts>>
LogDone == \E s \in world.streams :
  /\ s.live
  /\ world' = [world EXCEPT !.streams = (@ \ {s}) \cup {[s EXCEPT !.live = FALSE]}]
  /\ page' = IF page.stream = s.id THEN [Flushed EXCEPT !.stream = None, !.streaming = FALSE] ELSE page
  /\ UNCHANGED <<calls, acts>>
LogTimer == page.queued # {} /\ page' = Flushed /\ UNCHANGED <<calls, world, acts>>

(* runContainerAction, and remove, which takes two clicks.  A container    *)
(* that runs can be restarted or stopped, another one started or removed.  *)
Offered(c, op) == page.busy # c /\ \E d \in page.list : d.id = c /\ (d.up <=> op \in {"restart", "stop"})
Press(c, op) == Offered(c, op) /\ Act /\ UNCHANGED world
  /\ IF op = "remove" /\ page.armed # c THEN page' = [page EXCEPT !.armed = c] /\ UNCHANGED calls
     ELSE /\ page' = [page EXCEPT !.busy = c, !.armed = IF op = "remove" THEN None ELSE @]
          /\ Send(<<Call("act", [of |-> c, act |-> op])>>)
ArmExpires == page.armed # None /\ page' = [page EXCEPT !.armed = None] /\ UNCHANGED <<calls, world, acts>>

(* A command that succeeded is followed by a refresh, and the row spins    *)
(* until that is answered as well (or void).                               *)
ActAnswered == \E i \in DOMAIN calls :
  /\ Back(i, "act") /\ UNCHANGED <<world, acts>>
  /\ IF calls[i].st = "failed" THEN page' = [page EXCEPT !.busy = None] /\ GoOn(i, << >>)
     ELSE page' = Asking(page) /\ GoOn(i, <<[Refresh(page.all) EXCEPT !.op = "listAfter"]>>)
ListedAfter == \E i \in DOMAIN calls :
  /\ Back(i, "listAfter") /\ GoOn(i, << >>) /\ UNCHANGED <<world, acts>>
  /\ page' = IF calls[i].x.seq # page.seq THEN [page EXCEPT !.busy = None]
             ELSE [page EXCEPT !.busy = None, !.loading = FALSE,
                               !.list = IF calls[i].st = "ok" THEN calls[i].got ELSE {}]

Switch(h) == h # page.at /\ Act /\ UNCHANGED world
  /\ page' = Fresh(page.n + 1, h)
  /\ Send(StopCall \o <<[Call("list", [seq |-> 1, all |-> FALSE]) EXCEPT !.of = page.n + 1, !.at = h]>>)

-----------------------------------------------------------------------------
ServeList == \E i \in DOMAIN calls :
  /\ Sent(i, "list") \/ Sent(i, "listAfter")
  /\ UNCHANGED <<page, world, acts>>
  /\ \/ Served(i, {d \in world.host[calls[i].at] : d.up \/ calls[i].x.all})
     \/ Failed(i, None)

After(s, c, op) ==
  CASE op = "remove" -> {d \in s : d.id # c}
    [] op = "stop" -> {d \in s : d.id # c} \cup {[id |-> c, up |-> FALSE]}
    [] OTHER -> {d \in s : d.id # c} \cup {[id |-> c, up |-> TRUE]}

(* Exec gives a command thirty or sixty seconds; one that failed may have  *)
(* been carried out all the same.                                          *)
ServeAct == \E i \in DOMAIN calls :
  LET c == calls[i]
      there == \E d \in world.host[c.at] : d.id = c.x.of
      Runs == there /\ world' = [world EXCEPT !.host[c.at] = After(@, c.x.of, c.x.act)]
  IN /\ Sent(i, "act") /\ UNCHANGED <<page, acts>>
     /\ \/ Runs /\ (Served(i, None) \/ Failed(i, None))
        \/ UNCHANGED world /\ Failed(i, None)

ServeFollow == \E i \in DOMAIN calls : LET c == calls[i] IN
  /\ Sent(i, "follow") /\ UNCHANGED <<page, acts>>
  /\ \/ Failed(i, None) /\ UNCHANGED world
     \/ /\ Served(i, None)
        /\ world' = [world EXCEPT !.streams =
             {IF s.at = c.at /\ s.of = c.x.of THEN [s EXCEPT !.live = FALSE] ELSE s : s \in @}
             \cup {[id |-> c.x.id, at |-> c.at, of |-> c.x.of, live |-> TRUE]}]

Ended(id) == {IF s.id = id THEN [s EXCEPT !.live = FALSE] ELSE s : s \in world.streams}
ServeStop == \E i \in DOMAIN calls : LET c == calls[i] IN
  /\ UNCHANGED <<page, acts>>
  /\ \/ Sent(i, "stopLogs") /\ GoOn(i, << >>) /\ world' = [world EXCEPT !.streams = Ended(c.x)]
     \/ Sent(i, "stopThenView") /\ Served(i, None) /\ world' = [world EXCEPT !.streams = Ended(c.x.id)]

Init == \E h \in Hosts :
  /\ page = Fresh(1, h)
  /\ calls = <<[of |-> 1, at |-> h, op |-> "list", x |-> [seq |-> 1, all |-> FALSE], st |-> "sent", got |-> None]>>
  /\ world = [host |-> [k \in Hosts |-> {[id |-> c, up |-> TRUE] : c \in Containers}], streams |-> {}, made |-> 0]
  /\ acts = 0

Next ==
  \/ ListAnswered \/ RefreshClicked \/ PollTick \/ SetShowAll \/ StoppedThenView \/ FollowAnswered
  \/ StopStreaming \/ CloseLogs \/ LogEvent \/ LogDone \/ LogTimer \/ ArmExpires \/ ActAnswered \/ ListedAfter
  \/ ServeList \/ ServeAct \/ ServeFollow \/ ServeStop
  \/ \E c \in Containers : ViewLogs(c) \/ \E op \in {"start", "stop", "restart", "remove"} : Press(c, op)
  \/ \E h \in Hosts : Switch(h)
  \/ Unheard({})

-----------------------------------------------------------------------------
(* The log pane shows text of the container it names only.                 *)
LogOfItsContainer == page.shown # None => page.logs \cup page.queued \subseteq {page.shown}

(* Nothing is left spinning when every call is answered.                   *)
NotBusy == Quiet => page.busy = None /\ ~page.loading

(* Every stream that runs is the one the panel follows, once every call is *)
(* answered.                                                               *)
NoStrayStream == Quiet => \A s \in world.streams : s.live => page.stream = s.id
=============================================================================
