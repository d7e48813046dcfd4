--------------------------- MODULE TerminalOutput ---------------------------
(***************************************************************************)
(* The output of one session on its way to its xterm: kept until the       *)
(* terminal exists, which is when the tab is shown for the first time;     *)
(* then collected for the next animation frame, and written at once when   *)
(* too much is waiting, because a hidden window has no frames.  And the    *)
(* mark of a tab whose output came while the user was not looking.         *)
(***************************************************************************)
EXTENDS PageCalls

CONSTANTS
    Chunks,        \* bound on the chunks the session sends
    MaxBuffered,   \* chunks kept before the terminal exists
    MaxPending,    \* chunks at which waiting output is written at once
    Cut,           \* the notice that earlier output was truncated
    Sessions

(* The tab is in the main area or one of its panes, floats, or is hidden.  *)
Views == {"main", "float", None}

Init ==
  /\ page = [n |-> 1, at |-> None, open |-> TRUE, ready |-> FALSE, view |-> None, visible |-> TRUE, focus |-> TRUE,
             term |-> FALSE, buffered |-> << >>, dropped |-> FALSE, pending |-> << >>, frame |-> FALSE,
             shown |-> << >>, unread |-> FALSE]
  /\ calls = << >> /\ world = [sent |-> 0, unseen |-> FALSE] /\ acts = 0

-----------------------------------------------------------------------------
(* writeOutput before there is a terminal: the oldest chunks go first.     *)
Buffered(p, d) == LET b == Append(p.buffered, d) IN
  IF Len(b) <= MaxBuffered THEN [p EXCEPT !.buffered = b]
  ELSE [p EXCEPT !.buffered = Tail(b), !.dropped = TRUE]

FlushPendingOutput(p) == [p EXCEPT !.shown = @ \o p.pending, !.pending = << >>]

(* The terminal is created: what was kept is written, with a notice if     *)
(* some of it is missing.                                                  *)
Created(p) == [p EXCEPT !.term = TRUE, !.buffered = << >>, !.dropped = FALSE,
                        !.shown = (IF p.dropped THEN <<Cut>> ELSE << >>) \o p.buffered]

(* The effect that shows the tab: only the main area creates a terminal.   *)
Attach(p) == IF p.ready /\ p.view = "main" /\ ~p.term THEN Created(p) ELSE p

Written(p, d) ==
  IF ~p.term THEN Buffered(p, d)
  ELSE LET q == [p EXCEPT !.pending = Append(@, d)] IN
       IF Len(q.pending) >= MaxPending THEN [FlushPendingOutput(q) EXCEPT !.frame = FALSE]
       ELSE [q EXCEPT !.frame = TRUE]

CanSee(p) == p.visible /\ p.focus /\ p.view # None
ClearVisibleUnread(p) == IF CanSee(p) THEN [p EXCEPT !.unread = FALSE] ELSE p
Looked(p) == [world EXCEPT !.unseen = @ /\ ~CanSee(p)]

(* terminal:data and terminal:automation of the current generation.        *)
Data == page.open /\ world.sent < Chunks
  /\ page' = [Written(page, world.sent + 1) EXCEPT !.unread = @ \/ ~CanSee(page)]
  /\ world' = [world EXCEPT !.sent = @ + 1, !.unseen = @ \/ ~CanSee(page)]
  /\ UNCHANGED <<calls, acts>>

WriteFrame == page.frame /\ page.visible
  /\ page' = FlushPendingOutput([page EXCEPT !.frame = FALSE])
  /\ UNCHANGED <<calls, world, acts>>

SettingsLoaded == ~page.ready /\ page' = Attach([page EXCEPT !.ready = TRUE]) /\ UNCHANGED <<calls, world, acts>>

(* The user shows another tab, splits, tears off or docks.                 *)
Show(v) == page.open /\ page.view # v /\ (v = "float" => page.view = "main" \/ page.term) /\ Act
  /\ LET q == [page EXCEPT !.view = v] IN page' = ClearVisibleUnread(Attach(q)) /\ world' = Looked(q)
  /\ UNCHANGED calls

(* The window is minimized or restored, loses or regains the focus.        *)
Window(x, f) == <<x, f>> # <<page.visible, page.focus>> /\ (f => x) /\ Act
  /\ LET q == [page EXCEPT !.visible = x, !.focus = f] IN page' = ClearVisibleUnread(q) /\ world' = Looked(q)
  /\ UNCHANGED calls

(* disposeTerminal: whatever was kept for the session goes with it.        *)
DisposeTerminal == page.open /\ Act
  /\ page' = [page EXCEPT !.open = FALSE, !.term = FALSE, !.view = None, !.buffered = << >>, !.dropped = FALSE,
                          !.pending = << >>, !.frame = FALSE, !.shown = << >>, !.unread = FALSE]
  /\ world' = [world EXCEPT !.unseen = FALSE]
  /\ UNCHANGED calls

Next ==
  \/ Data \/ WriteFrame \/ SettingsLoaded \/ DisposeTerminal
  \/ \E v \in Views : Show(v)
  \/ \E x, f \in BOOLEAN : Window(x, f)

-----------------------------------------------------------------------------
Text == IF page.term THEN page.shown \o page.pending ELSE page.buffered
Received == SelectSeq(Text, LAMBDA d : d # Cut)

(* The terminal shows the session's output in the order it came, up to the *)
(* last chunk, and a gap only at the beginning and after a notice; no more *)
(* than a cap is waiting, also while the window is hidden.                 *)
OutputComplete == page.open =>
  /\ Received = [i \in 1..Len(Received) |-> world.sent - Len(Received) + i]
  /\ Len(Received) < world.sent => page.dropped \/ Head(page.shown) = Cut
  /\ Len(page.pending) < MaxPending /\ Len(page.buffered) <= MaxBuffered
  /\ page.pending # << >> => page.frame

(* A tab is marked exactly when output came that the user has not seen.    *)
UnreadIsUnseen == page.unread = world.unseen

-----------------------------------------------------------------------------
(***************************************************************************)
(* What the user types and pastes into the terminals, and where it goes:   *)
(* to the terminal's own session, while input is broadcast to all          *)
(* connected ones that do not float, and after a question to the sessions  *)
(* the question named.  Input waits a few milliseconds per session for     *)
(* more; a large piece is sent at once.                                    *)
(***************************************************************************)

InputInit ==
  /\ page = [n |-> 1, at |-> None, connected |-> Sessions, floats |-> {}, broadcast |-> FALSE,
             pending |-> [s \in Sessions |-> << >>], paste |-> None]
  /\ calls = << >> /\ world = None /\ acts = 0

-----------------------------------------------------------------------------
(* broadcastTargetIds; fewer than two of them turn the broadcast off.      *)
Targets(p) == p.connected \ p.floats
AutoOff(p) == [p EXCEPT !.broadcast = @ /\ Cardinality(Targets(p)) >= 2]
Broadcasting(p, s) == p.broadcast /\ s \in Targets(p)
TerminalPasteTargets(p, s) == IF Broadcasting(p, s) THEN {s} \cup Targets(p) ELSE {s}

(* Bound: what waits for one session.                                      *)
Room(to) == \A s \in to : Len(page.pending[s]) < 2

(* flushTerminalInput: one call, or a few in a row.                        *)
Write(s, data) == [Call("write", data) EXCEPT !.at = s]

(* enqueueTerminalInput for each of the sessions.                          *)
Enqueue(to, d) == LET all == [s \in Sessions |-> IF s \in to THEN Append(page.pending[s], d) ELSE page.pending[s]] IN
  IF d.large
  THEN /\ page' = [page EXCEPT !.paste = None, !.pending = [s \in Sessions |-> IF s \in to THEN << >> ELSE @[s]]]
       /\ LET order == SetToSeq(to) IN Send([i \in DOMAIN order |-> Write(order[i], all[order[i]])])
  ELSE Room(to) /\ page' = [page EXCEPT !.paste = IF d.asked = None THEN @ ELSE None, !.pending = all] /\ UNCHANGED calls

Typed(asked, large) == [id |-> acts, asked |-> asked, large |-> large]

(* onData: a key, or a paste that needs no question.                       *)
Type(s) == Act /\ Enqueue(TerminalPasteTargets(page, s), Typed(None, FALSE)) /\ UNCHANGED world

(* A paste of several lines, or a large one, asks first.  The clipboard is *)
(* read without waiting, so a question may replace an older one.           *)
RequestPaste(s, large) == Act /\ UNCHANGED <<calls, world>>
  /\ page' = [page EXCEPT !.paste = [from |-> s, to |-> TerminalPasteTargets(page, s), large |-> large, broadcast |-> Broadcasting(page, s)]]
CancelPaste == page.paste # None /\ page' = [page EXCEPT !.paste = None] /\ UNCHANGED <<calls, world, acts>>

(* The answer is looked at again: the sessions must be the ones that were  *)
(* named, and all connected.                                               *)
SameTargets(r) ==
  /\ r.to = IF ~r.broadcast THEN {r.from} ELSE IF page.broadcast THEN TerminalPasteTargets(page, r.from) ELSE {}
  /\ r.to \subseteq page.connected
(* Mutant: it goes to wherever input goes by now.                          *)
ConfirmPasteAnew == page.paste # None /\ Act /\ UNCHANGED world
  /\ Enqueue(TerminalPasteTargets(page, page.paste.from), Typed(page.paste.to, page.paste.large))

ConfirmPaste == page.paste # None /\ Act /\ UNCHANGED world
  /\ IF SameTargets(page.paste) THEN Enqueue(page.paste.to, Typed(page.paste.to, page.paste.large))
     ELSE page' = [page EXCEPT !.paste = None] /\ UNCHANGED calls

FlushTimer(s) == page.pending[s] # << >>
  /\ page' = [page EXCEPT !.pending[s] = << >>] /\ Send(<<Write(s, page.pending[s])>>) /\ UNCHANGED <<world, acts>>
WriteAnswered == \E i \in DOMAIN calls : Back(i, "write") /\ GoOn(i, << >>) /\ UNCHANGED <<page, world, acts>>

ToggleBroadcast == Act /\ (page.broadcast \/ Cardinality(Targets(page)) > 1)
  /\ page' = [page EXCEPT !.broadcast = ~@] /\ UNCHANGED <<calls, world>>

(* Sessions drop and come back, tabs are torn off and docked.              *)
Change(s) == Act /\ UNCHANGED <<calls, world>> /\ page' \in
  {AutoOff([page EXCEPT !.connected = IF s \in @ THEN @ \ {s} ELSE @ \cup {s}]),
   AutoOff([page EXCEPT !.floats = IF s \in @ THEN @ \ {s} ELSE @ \cup {s}])}

(* disposeTerminal forgets what waits; WriteToTerminal answers.            *)
Close(s) == s \in page.connected /\ Act /\ UNCHANGED <<calls, world>>
  /\ page' = AutoOff([page EXCEPT !.connected = @ \ {s}, !.floats = @ \ {s}, !.pending[s] = << >>])
Serve == \E i \in DOMAIN calls : Sent(i, "write") /\ (Served(i, None) \/ Failed(i, None)) /\ UNCHANGED <<page, world, acts>>

InputNext ==
  \/ CancelPaste \/ ConfirmPaste \/ WriteAnswered \/ ToggleBroadcast \/ Serve
  \/ \E s \in Sessions : \/ Type(s) \/ FlushTimer(s) \/ Change(s) \/ Close(s)
                         \/ \E large \in BOOLEAN : RequestPaste(s, large)

-----------------------------------------------------------------------------
(* What waits or is on its way for a session now, as identities.           *)
On(p, cs, s) == {d \in UNION {ToSet(x) : x \in {p.pending[s]} \cup {cs[i].x : i \in {j \in DOMAIN cs : cs[j].at = s}}} : d.asked # None}
New(s) == On(page', calls', s) \ On(page, calls, s)

(* What was pasted after a question goes to all the sessions the question  *)
(* named and to none else, all of them connected, and where input that is  *)
(* broadcast goes at that moment if it was to be broadcast.                *)
PastedWhereAsked == \A s \in Sessions : \A d \in New(s) :
  /\ page.paste # None /\ d.asked = page.paste.to
  /\ {u \in Sessions : d \in New(u)} = d.asked
  /\ d.asked \subseteq page.connected
  /\ page.paste.broadcast => d.asked = TerminalPasteTargets(page, page.paste.from) /\ page.broadcast
=============================================================================
