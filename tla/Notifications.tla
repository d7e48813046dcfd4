--------------------------- MODULE Notifications ---------------------------
(***************************************************************************)
(* What the page tells the user.  A message is shown for a while (a toast) *)
(* and, if it is a failure or was meant to be kept, stands in the history. *)
(* A message that is on the screen is not shown twice; in the history the  *)
(* same message counts up.  A change of a terminal's connection goes to    *)
(* the history alone.                                                      *)
(***************************************************************************)
EXTENDS PageCalls, Folds

CONSTANTS
    Terminals,
    Kept         \* entries of the history (maxActivities)

States == {"connected", "reconnecting", "error"}
Severity == [connected |-> "success", reconnecting |-> "info", error |-> "error"]
Failure(tone) == tone \in {"error", "warning"}

(* What components say: mostly a text and a tone.  Some give a key of      *)
(* their own, and what the assistant did is recorded without being shown.  *)
Said(text, tone, legacy, toast) == [text |-> text, tone |-> tone, legacy |-> legacy, toast |-> toast]
Messages == {Said("saved", "info", TRUE, TRUE), Said("refused", "error", TRUE, TRUE), Said("ran", "error", FALSE, FALSE)}

(* toasts: on the screen; keys: the toast that keeps each message from     *)
(* being shown again; timers: what takes toasts away; history: the newest  *)
(* first; open, filter: the notification centre; was: the states of the    *)
(* terminals when they were last looked at.  world.missed: the failures    *)
(* the user has not looked at.                                             *)
Init ==
  /\ page = [n |-> 1, at |-> None, toasts |-> << >>, keys |-> [m \in Messages |-> 0], timers |-> {},
             history |-> << >>, open |-> FALSE, filter |-> "all", was |-> [t \in Terminals |-> None]]
  /\ calls = << >> /\ acts = 0
  /\ world = [missed |-> {}]

Frame == UNCHANGED <<calls, acts>>
Ids == {t.id : t \in page.timers} \cup {page.toasts[i].id : i \in DOMAIN page.toasts} \cup {page.keys[m] : m \in Messages}
NewId == CHOOSE n \in 1..(MaxActs + 1) : n \notin Ids /\ \A k \in 1..(n - 1) : k \in Ids

-----------------------------------------------------------------------------
Entry(key, tone) == [key |-> key, tone |-> tone, unread |-> Failure(tone), times |-> 1]

(* An entry of the same key is counted up and stays unread if it was.      *)
Merged(old, e) == [e EXCEPT !.unread = @ \/ old.unread, !.times = old.times + 1]
Recorded(history, e) ==
  LET same == {i \in DOMAIN history : e.key # None /\ history[i].key = e.key /\ history[i].tone = e.tone}
      first == CHOOSE i \in same : \A j \in same : i <= j
      all == IF same = {} THEN <<e>> \o history ELSE <<Merged(history[first], e)>> \o RemoveAt(history, first) IN
  SubSeq(all, 1, IF Len(all) < Kept THEN Len(all) ELSE Kept)

KeyOf(e) == <<e.key, e.tone>>
Listed(history) == {KeyOf(history[i]) : i \in DOMAIN history}
(* What is told of a failure is missed until it is looked at, or makes     *)
(* room for Kept newer entries.                                            *)
Told(missed, e, history) == (missed \cup IF Failure(e.tone) THEN {KeyOf(e)} ELSE {}) \cap Listed(history)

(* A text alone is kept when it tells of a failure, and then with itself   *)
(* as its key.                                                             *)
ShouldPersist(m) == ~m.legacy \/ Failure(m.tone)

Released(keys, id) == [m \in Messages |-> IF keys[m] = id THEN 0 ELSE keys[m]]

(* showToast                                                               *)
WithToast(p, m) == IF ~m.toast \/ p.keys[m] # 0 THEN p
  ELSE [p EXCEPT !.keys[m] = NewId, !.toasts = Append(@, [id |-> NewId, of |-> m]), !.timers = @ \cup {[id |-> NewId, of |-> m]}]

Notify(m) == Act /\ UNCHANGED calls
  /\ LET e == Entry(<<m.text, "said">>, m.tone)  history == IF ShouldPersist(m) THEN Recorded(page.history, e) ELSE page.history IN
     /\ page' = WithToast([page EXCEPT !.history = history], m)
     /\ world' = [world EXCEPT !.missed = IF ShouldPersist(m) THEN Told(@, e, history) ELSE @]

Without(toasts, id) == SelectSeq(toasts, LAMBDA t : t.id # id)
Dismiss(i) == Frame /\ UNCHANGED world
  /\ LET id == page.toasts[i].id IN
     page' = [page EXCEPT !.toasts = Without(@, id), !.timers = {t \in @ : t.id # id}, !.keys = Released(@, id)]
Expire(t) == Frame /\ UNCHANGED world
  /\ page' = [page EXCEPT !.toasts = Without(@, t.id), !.timers = @ \ {t},
                          !.keys[t.of] = IF @ = t.id THEN 0 ELSE @]

(* The tabs have changed: each terminal that had a state and has another   *)
(* one now is recorded, in the order of the tabs.                          *)
Tabs == SetToSeq(Terminals)
Changes(new) == SelectSeq(Tabs, LAMBDA t : page.was[t] # None /\ new[t] # None /\ new[t] # page.was[t])
Connections(new) == Act /\ UNCHANGED calls /\ new # page.was
  /\ LET entry(t) == Entry(<<t, new[t]>>, Severity[new[t]])
         add(got, t) == LET h == Recorded(got.history, entry(t)) IN [history |-> h, missed |-> Told(got.missed, entry(t), h)]
         all == FoldLeft(add, [history |-> page.history, missed |-> world.missed], Changes(new)) IN
     /\ page' = [page EXCEPT !.history = all.history, !.was = new]
     /\ world' = [world EXCEPT !.missed = all.missed]

-----------------------------------------------------------------------------
(* The notification centre                                                 *)
Unread == {i \in DOMAIN page.history : page.history[i].unread}
Visible == {i \in DOMAIN page.history : \/ page.filter = "all"
                                        \/ page.filter = "unread" /\ i \in Unread
                                        \/ page.filter = "errors" /\ Failure(page.history[i].tone)}
Seen(e) == [e EXCEPT !.unread = FALSE]

Open(open) == page.open # open /\ page' = [page EXCEPT !.open = open] /\ Frame /\ UNCHANGED world
Filter(f) == page.open /\ page.filter # f /\ page' = [page EXCEPT !.filter = f] /\ Frame /\ UNCHANGED world
MarkRead(i) == page.open /\ i \in Visible \cap Unread /\ Frame
  /\ page' = [page EXCEPT !.history[i] = Seen(@)] /\ world' = [world EXCEPT !.missed = @ \ {KeyOf(page.history[i])}]
MarkAllRead == page.open /\ Unread # {} /\ Frame
  /\ page' = [page EXCEPT !.history = [i \in DOMAIN @ |-> Seen(@[i])]] /\ world' = [world EXCEPT !.missed = {}]
RemoveEntry(i) == page.open /\ i \in Visible /\ Frame
  /\ page' = [page EXCEPT !.history = RemoveAt(@, i)] /\ world' = [world EXCEPT !.missed = @ \ {KeyOf(page.history[i])}]
Clear == page.open /\ page.history # << >> /\ Frame
  /\ page' = [page EXCEPT !.history = << >>] /\ world' = [world EXCEPT !.missed = {}]

Next ==
  \/ \E m \in Messages : Notify(m)
  \/ \E i \in DOMAIN page.toasts : Dismiss(i)
  \/ \E t \in page.timers : Expire(t)
  \/ \E new \in [Terminals -> States \cup {None}] : Connections(new)
  \/ \E open \in BOOLEAN : Open(open)
  \/ \E f \in {"all", "unread", "errors"} : Filter(f)
  \/ \E i \in DOMAIN page.history : MarkRead(i) \/ RemoveEntry(i)
  \/ MarkAllRead \/ Clear

-----------------------------------------------------------------------------
(* A message is kept back only while it is on the screen, and what is on   *)
(* the screen goes by itself; a failure the user has not looked at stands  *)
(* in the history as unread, once, and is counted.                         *)
NothingMissed ==
  /\ \A m \in Messages : page.keys[m] # 0 => \E t \in page.timers : t.id = page.keys[m] /\ t.of = m
  /\ \A i \in DOMAIN page.toasts : page.keys[page.toasts[i].of] = page.toasts[i].id
  /\ \A k \in world.missed : \E i \in Unread : KeyOf(page.history[i]) = k
  /\ \A i, j \in DOMAIN page.history : i # j => KeyOf(page.history[i]) # KeyOf(page.history[j])

-----------------------------------------------------------------------------
(***************************************************************************)
(* What the page shows of commands that the assistant or the CLI runs next *)
(* to a terminal: a badge on the tab and on the server's row while they    *)
(* run, and for a while after.  The backend names each activity's session  *)
(* and runtime by an envelope kept from its begin to its end; events of a  *)
(* runtime's older generations are dropped.                                *)
(***************************************************************************)

Sources == {"ai", "cli"}
(* A session is a terminal in one generation of its connection.            *)
Sids == Terminals \X (1..2)
Sid(p, t) == <<t, p.tab[t]>>
TabIds(p) == {Sid(p, t) : t \in p.tabs}

(* tabs; tab: the generation each tab is of; known: the newest generation  *)
(* heard of; run: the activities under way of each session, in the order   *)
(* they began; ind: the badges; timers: what will take a badge away.       *)
(* world: the events on their way, the generation each terminal is in, the *)
(* activities under way, and their envelopes in the order they were kept.  *)
BadgeInit ==
  /\ page = [n |-> 1, at |-> None, tabs |-> Terminals, tab |-> [t \in Terminals |-> 1], known |-> [t \in Terminals |-> 1],
             run |-> [s \in Sids |-> << >>], ind |-> [s \in Sids |-> None], timers |-> {}]
  /\ calls = << >> /\ acts = 0
  /\ world = [events |-> << >>, gen |-> [t \in Terminals |-> 1], open |-> Terminals, live |-> {}, envelopes |-> << >>]

-----------------------------------------------------------------------------
(* The backend                                                             *)
Emit(w, e) == [w EXCEPT !.events = Append(@, e)]
Current(w, t) == <<t, w.gen[t]>>
UsedIds == {a.id : a \in world.live} \cup {world.events[i].id : i \in DOMAIN world.events}
             \cup UNION {{page.run[s][i].id : i \in DOMAIN page.run[s]} : s \in Sids}
NewActivity == CHOOSE n \in 1..(MaxActs + 1) : n \notin UsedIds /\ \A m \in 1..(n - 1) : m \in UsedIds

(* The oldest envelope goes when there is no room for a new one.           *)
Remember(w, env) == [w EXCEPT !.envelopes = Append(IF Len(@) < Kept THEN @ ELSE Tail(@), env)]

Begin(t, source) == t \in world.open /\ Act /\ UNCHANGED <<page, calls>>
  /\ LET a == [id |-> NewActivity, sid |-> Current(world, t), source |-> source]
         w == [Remember(world, a) EXCEPT !.live = @ \cup {a}] IN
     world' = Emit(w, [kind |-> "started", id |-> a.id, sid |-> a.sid, gen |-> a.sid[2], source |-> source])

(* The generation an end is told for: that of its envelope; without one    *)
(* the session is asked, and when it is gone there is none.                *)
EnvelopeOf(a) == IF \E i \in DOMAIN world.envelopes : world.envelopes[i] = a THEN a.sid[2]
                 ELSE IF a.sid = Current(world, a.sid[1]) /\ a.sid[1] \in world.open THEN a.sid[2] ELSE None

Finish(a, phase) == UNCHANGED <<page, calls, acts>>
  /\ world' = Emit([world EXCEPT !.live = @ \ {a}, !.envelopes = SelectSeq(@, LAMBDA e : e # a)],
                   [kind |-> phase, id |-> a.id, sid |-> a.sid, gen |-> EnvelopeOf(a), source |-> a.source])

(* The connection is lost and made anew; or the tab is closed.             *)
Reconnect(t) == t \in world.open /\ world.gen[t] = 1 /\ Act /\ UNCHANGED <<page, calls>>
  /\ world' = Emit([world EXCEPT !.gen[t] = 2], [kind |-> "replaced", id |-> 0, sid |-> <<t, 2>>, gen |-> 2, source |-> "ai"])

-----------------------------------------------------------------------------
(* The page                                                                *)
(* When the tabs change, what is kept of sessions without a tab goes.      *)
Pruned(p) == [p EXCEPT !.run = [s \in Sids |-> IF s \in TabIds(p) THEN @[s] ELSE << >>],
                       !.ind = [s \in Sids |-> IF s \in TabIds(p) THEN @[s] ELSE None],
                       !.timers = @ \cap TabIds(p)]

CloseTab(t) == t \in page.tabs /\ Act /\ UNCHANGED calls
  /\ page' = Pruned([page EXCEPT !.tabs = @ \ {t}]) /\ world' = [world EXCEPT !.open = @ \ {t}]

(* isCurrentRuntimeEvent: not of a generation before the newest.           *)
Accept(e) == e.gen = None \/ e.gen >= page.known[e.sid[1]]
Heard(e) == IF e.gen = None THEN page.known ELSE [page.known EXCEPT ![e.sid[1]] = e.gen]

(* While something runs the badge is that of the activity begun last.      *)
Badge(run, e) == [running |-> Len(run), phase |-> IF run # << >> THEN "started" ELSE e.kind,
                  source |-> IF run # << >> THEN run[Len(run)].source ELSE e.source]

Automated(e) == LET run == IF e.kind = "started" THEN Append(page.run[e.sid], [id |-> e.id, source |-> e.source])
                           ELSE SelectSeq(page.run[e.sid], LAMBDA r : r.id # e.id) IN
  [page EXCEPT !.known = Heard(e), !.run[e.sid] = run, !.ind[e.sid] = Badge(run, e),
               !.timers = IF run = << >> THEN @ \cup {e.sid} ELSE @ \ {e.sid}]
Replaced(e) == IF e.sid[1] \notin page.tabs THEN [page EXCEPT !.known = Heard(e)]
               ELSE Pruned([page EXCEPT !.known = Heard(e), !.tab[e.sid[1]] = e.gen])

Hear == world.events # << >> /\ world' = [world EXCEPT !.events = Tail(@)] /\ UNCHANGED <<calls, acts>>
  /\ LET e == Head(world.events) IN
     page' = IF ~Accept(e) THEN page ELSE IF e.kind = "replaced" THEN Replaced(e) ELSE Automated(e)

BadgeExpires(s) == s \in page.timers /\ page' = [page EXCEPT !.timers = @ \ {s}, !.ind[s] = None] /\ UNCHANGED <<calls, world, acts>>

(* The badge of the server: of its tabs, one that runs before one that     *)
(* does not.                                                               *)
ByProfile == LET shown == {s \in TabIds(page) : page.ind[s] # None}
                 running == {s \in shown : page.ind[s].phase = "started"} IN
  IF running # {} THEN "started" ELSE IF shown # {} THEN "over" ELSE None

BadgeNext ==
  \/ Hear
  \/ \E t \in Terminals : Reconnect(t) \/ CloseTab(t) \/ \E source \in Sources : Begin(t, source)
  \/ \E a \in world.live, phase \in {"completed", "failed"} : Finish(a, phase)
  \/ \E s \in Sids : BadgeExpires(s)

-----------------------------------------------------------------------------
(* When every event has been heard, a tab's badge counts what runs next to *)
(* its terminal and shows one of the sources that do; the server's badge   *)
(* runs if and only if something runs next to one of its terminals.        *)
RunningIsShown == world.events = << >> =>
  /\ \A t \in page.tabs : LET s == Sid(page, t)  live == {a \in world.live : a.sid = s} IN
       IF live = {} THEN page.ind[s] # None => page.ind[s].phase # "started" /\ s \in page.timers
       ELSE /\ page.ind[s] # None /\ page.ind[s].running = Cardinality(live)
            /\ page.ind[s].phase = "started" /\ \E a \in live : a.source = page.ind[s].source
  /\ (ByProfile = "started") = (\E a \in world.live : a.sid \in TabIds(page))
=============================================================================
