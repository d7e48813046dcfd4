---------------------------- MODULE TerminalSize ----------------------------
(***************************************************************************)
(* The size of one terminal and of its remote PTY.  The terminal is in the *)
(* main area, shown or hidden, or in a window of its own; its grid follows *)
(* the size of the place and the font.  In the main area a change is       *)
(* looked at in the next frame and told to the remote when it has settled; *)
(* everything else goes through refitTerminal, which waits first and then  *)
(* tells at once.  Both wait for the same time, so timers fire in the      *)
(* order in which they were set.                                           *)
(***************************************************************************)
EXTENDS PageCalls

CONSTANTS
    Sizes, Fonts,
    Terms,          \* the tabs, all of them terminals
    Limit           \* MAX_WEBGL_CONTEXTS

Init ==
  /\ page = [n |-> 1, at |-> None, place |-> "main", stage |-> CHOOSE s \in Sizes : TRUE, own |-> CHOOSE s \in Sizes : TRUE,
             font |-> CHOOSE f \in Fonts : TRUE, grid |-> None, last |-> None, key |-> None, frame |-> TRUE, timers |-> << >>]
  /\ calls = << >> /\ world = [remote |-> None, stale |-> FALSE] /\ acts = 0

-----------------------------------------------------------------------------
Fit(p) == <<IF p.place = "float" THEN p.own ELSE p.stage, p.font>>

(* Each kind of timer is set once: setting it again starts it anew.        *)
Cleared(p, k) == [p EXCEPT !.timers = SelectSeq(@, LAMBDA t : t.k # k)]
Timer(p, k, v) == [Cleared(p, k) EXCEPT !.timers = Append(@, [k |-> k, v |-> v])]

FitAndResize(p) == [p EXCEPT !.frame = TRUE]
RefitTerminal(p) == Timer(p, "refit", None)

(* The observer of the main area: the same size again is nothing new.      *)
Observed(p) == IF p.place # "main" \/ p.key = p.stage THEN p ELSE FitAndResize([p EXCEPT !.key = p.stage])

(* reattachTerminal: the terminal moves, and is refitted now and once more *)
(* after the layout has settled.                                           *)
Reattach(p) == Timer(RefitTerminal(p), "later", None)

Does(p) == Act /\ page' = p /\ UNCHANGED <<calls, world>>

(* The window, the sidebar or the split changes the main area.             *)
Resize(s) == s # page.stage /\ Does(Observed([page EXCEPT !.stage = s]))
FloatResize(s) == page.place = "float" /\ s # page.own /\ Does(RefitTerminal([page EXCEPT !.own = s]))
SetFont(f) == f # page.font /\ Does(RefitTerminal([page EXCEPT !.font = f]))
Hide == page.place = "main" /\ Does([page EXCEPT !.place = "hidden"])
Show == page.place = "hidden" /\ Does(FitAndResize(Observed([page EXCEPT !.place = "main"])))
TearOff == page.place # "float" /\ Does(Reattach([page EXCEPT !.place = "float"]))
Dock == page.place = "float" /\ Does(FitAndResize(Observed(Reattach([page EXCEPT !.place = "main"]))))

(* The frame of fitAndResize.                                              *)
FitFrame == page.frame /\ UNCHANGED <<calls, world, acts>>
  /\ LET v == Fit(page) p == [page EXCEPT !.frame = FALSE, !.grid = v] IN
     page' = IF v = page.last THEN p ELSE Timer([p EXCEPT !.last = v], "settle", v)

Fired == [page EXCEPT !.timers = Tail(@)]
Next80(k) == page.timers # << >> /\ Head(page.timers).k = k /\ UNCHANGED acts
Tell(v) == Send(<<Call("resize", v)>>) /\ world' = [world EXCEPT !.stale = v # page'.last]

Settled == Next80("settle") /\ page' = Fired /\ Tell(Head(page.timers).v)
RefitNow == Next80("refit") /\ LET v == Fit(page) IN
  IF v = page.last THEN page' = [Fired EXCEPT !.grid = v] /\ UNCHANGED <<calls, world>>
  ELSE page' = [Fired EXCEPT !.grid = v, !.last = v] /\ Tell(v)
RefitLater == Next80("later") /\ page' = RefitTerminal(Fired) /\ UNCHANGED <<calls, world>>

(* A size that could not be told is told again by the next fit.            *)
Answered == \E i \in DOMAIN calls : Back(i, "resize") /\ GoOn(i, << >>) /\ UNCHANGED <<world, acts>>
  /\ page' = IF calls[i].st = "failed" THEN [page EXCEPT !.last = None] ELSE page

(* ResizeTerminal; calls some eighty milliseconds apart arrive in order.   *)
Serve == \E i \in DOMAIN calls : Sent(i, "resize") /\ (\A j \in 1..(i - 1) : calls[j].st # "sent") /\ UNCHANGED <<page, acts>>
  /\ \/ Served(i, None) /\ world' = [world EXCEPT !.remote = calls[i].x]
     \/ Failed(i, None) /\ UNCHANGED world

Next ==
  \/ Hide \/ Show \/ TearOff \/ Dock \/ FitFrame \/ Settled \/ RefitNow \/ RefitLater \/ Answered \/ Serve
  \/ \E s \in Sizes : Resize(s) \/ FloatResize(s)
  \/ \E f \in Fonts : SetFont(f)

-----------------------------------------------------------------------------
(* When everything has settled, the remote has the size of the terminal,   *)
(* and a terminal one can see that of its place; except after a failure,   *)
(* and after a settled size that was told when a refit had already told a  *)
(* newer one.                                                              *)
RemoteHasItsSize == Quiet /\ ~page.frame /\ page.timers = << >> /\ page.last # None =>
  /\ page.place # "hidden" => page.grid = Fit(page)
  /\ world.remote = page.grid \/ world.stale

-----------------------------------------------------------------------------
(***************************************************************************)
(* Which terminals are on the screen - the active one, the panes of a      *)
(* split, the floating ones - and which of them hold one of the few WebGL  *)
(* contexts a browser allows.  Showing terminals is what moves contexts:   *)
(* the one that has not been shown for longest gives its own up, and is    *)
(* remembered as wanting one back.                                         *)
(***************************************************************************)

BudgetInit ==
  /\ page = [n |-> 1, at |-> None, tabs |-> Terms, active |-> None, panes |-> << >>, floats |-> {},
             term |-> {}, gl |-> {}, holders |-> << >>, wanting |-> {}, without |-> {}]
  /\ calls = << >> /\ world = None /\ acts = 0

-----------------------------------------------------------------------------
(* The budget.                                                             *)
Newest(s, t) == Append(Remove(s, t), t)
Touch(p, t) == IF t \in ToSet(p.holders) THEN [p EXCEPT !.holders = Newest(@, t)] ELSE p

Acquire(p, t) == LET s == Newest(p.holders, t) over == Len(s) - Limit IN
  IF over <= 0 THEN [p EXCEPT !.holders = s, !.wanting = @ \ {t}, !.gl = @ \cup {t}]
  ELSE LET out == {s[i] : i \in 1..over} IN
       [p EXCEPT !.holders = SubSeq(s, over + 1, Len(s)), !.wanting = (@ \ {t}) \cup out, !.gl = (@ \cup {t}) \ out]
Forget(p, t) == [p EXCEPT !.holders = Remove(@, t), !.wanting = @ \ {t}]
Detach(p, t) == [p EXCEPT !.holders = Remove(@, t), !.gl = @ \ {t}]

(* attachWebgl: ok if the browser gives a context.                         *)
AttachWebgl(p, t, ok) ==
  IF t \in p.gl THEN Touch(p, t)
  ELSE IF ok THEN [Acquire(p, t) EXCEPT !.without = @ \ {t}]
  ELSE [Forget(p, t) EXCEPT !.without = @ \cup {t}]

Attach(p, t, ok) ==
  IF t \notin p.term THEN AttachWebgl([p EXCEPT !.term = @ \cup {t}], t, ok)
  ELSE LET q == Touch(p, t) IN IF t \in p.wanting THEN AttachWebgl(q, t, ok) ELSE q

-----------------------------------------------------------------------------
(* The layout.                                                             *)
Visible(p) == p.tabs \ p.floats
SplitVisible(p) == p.active \in ToSet(p.panes) /\ ToSet(p.panes) \subseteq Visible(p)
OnStage(p) == IF SplitVisible(p) THEN ToSet(p.panes) ELSE {p.active} \cap Visible(p)

(* reconcileSplit: panes whose tab has gone or floats are dropped; two or  *)
(* four are left, or no split.                                             *)
ReconcileSplit(p) == LET s == SelectSeq(p.panes, LAMBDA t : t \in Visible(p)) IN
  [p EXCEPT !.panes = CASE Len(s) < 2 -> << >> [] Len(s) = 4 -> s [] OTHER -> SubSeq(s, 1, 2)]

(* The effect attaches the panes, or the active terminal, if they changed. *)
Shown(q, ok) == LET p == ReconcileSplit(q)
                    ids == IF p.active \in ToSet(p.panes) THEN p.panes ELSE <<p.active>> IN
  IF p.active \notin p.tabs \/ <<p.active, p.panes>> = <<page.active, page.panes>> THEN p
  ELSE FoldLeft(LAMBDA a, t : Attach(a, t, ok), p, ids)

(* Bound: what is on the screen fits the limit, as four panes and a few    *)
(* floating terminals fit twelve.                                          *)
Fits(p) == Cardinality(OnStage(p) \cup p.floats) <= Limit
Step(q) == \E ok \in BOOLEAN : LET p == Shown(q, ok) IN Fits(p) /\ page' = p
To(q) == Act /\ Step(q) /\ UNCHANGED <<calls, world>>

(* activateTab: a tab that is in no pane takes the pane of the active one. *)
Replaced(p, t) == IF p.panes = << >> \/ t \in ToSet(p.panes) THEN p.panes
                  ELSE LET at == {i \in DOMAIN p.panes : p.panes[i] = p.active} IN
                       ReplaceAt(p.panes, IF at = {} THEN 1 ELSE CHOOSE i \in at : TRUE, t)
ActivateTab(t) == t \in page.tabs /\ t # page.active /\ To([page EXCEPT !.panes = Replaced(page, t), !.active = t])

(* handleSplitToggle: two panes, four, or none.                            *)
SplitToggle(t) == t \in Visible(page) /\ page.panes = << >> /\ \E u \in Visible(page) \ {t} : To([page EXCEPT !.panes = <<t, u>>])
SplitGrid(t) == t \in Visible(page) /\ \E s \in SetToSeqs(Visible(page) \ {t}) :
                  Len(s) = 3 /\ To([page EXCEPT !.panes = <<t>> \o s])
SplitOff == page.panes # << >> /\ To([page EXCEPT !.panes = << >>])

(* A torn off tab floats, and if it was active another one is.             *)
TearOffPane(t) == t \in Visible(page)
  /\ \E u \in IF t = page.active /\ page.tabs # {t} THEN page.tabs \ {t} ELSE {page.active} :
       To([page EXCEPT !.floats = @ \cup {t}, !.active = u])
DockFloating(t) == t \in page.floats /\ To([page EXCEPT !.floats = @ \ {t}, !.active = t])

(* disposeTerminal, and the tab goes; an active tab has a successor.       *)
Disposed(p, t) == [Forget(Detach(p, t), t) EXCEPT !.term = @ \ {t}, !.without = @ \ {t}, !.tabs = @ \ {t}, !.floats = @ \ {t}]
CloseTab(t) == t \in page.tabs /\ Act /\ UNCHANGED <<calls, world>>
  /\ \E u \in IF t # page.active THEN {page.active} ELSE IF page.tabs = {t} THEN {None} ELSE page.tabs \ {t} :
       Step([Disposed(page, t) EXCEPT !.active = u])

(* The browser takes a context away.                                       *)
ContextLoss(t) == t \in page.gl /\ Act /\ UNCHANGED <<calls, world>>
  /\ page' = [Detach(page, t) EXCEPT !.wanting = @ \cup {t}, !.without = @ \cup {t}]

(* refitTerminal, after a resize, a drag, a dock, a change of settings: a  *)
(* terminal that wants a context takes one.  A hidden host has a size too, *)
(* so a hidden terminal may take the context of one that is looked at.     *)
Refit(t) == t \in page.term \cap page.wanting
  /\ \E ok \in BOOLEAN : LET p == AttachWebgl(page, t, ok) IN
       page' = [p EXCEPT !.without = @ \cup (page.gl \ p.gl)]
  /\ UNCHANGED <<calls, world, acts>>

BudgetNext ==
  \/ SplitOff
  \/ \E t \in Terms : \/ ActivateTab(t) \/ SplitToggle(t) \/ SplitGrid(t) \/ TearOffPane(t) \/ DockFloating(t)
                      \/ CloseTab(t) \/ ContextLoss(t) \/ Refit(t)

-----------------------------------------------------------------------------
(* The terminals in the main area hold a context, unless the browser took  *)
(* or refused it, or another terminal took it when it was refitted, since  *)
(* they were shown; never more than the limit are held; and a terminal     *)
(* without one is remembered, so that it gets one back, unless refused.    *)
ContextsWhereLooked ==
  /\ page.gl = ToSet(page.holders) /\ Len(page.holders) = Cardinality(page.gl) /\ Len(page.holders) <= Limit
  /\ page.term \cap OnStage(page) \subseteq page.gl \cup page.without
  /\ page.term \ page.gl \subseteq page.wanting \cup page.without
  /\ page.wanting \cap page.gl = {}
=============================================================================
